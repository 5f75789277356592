--------------------------- MODULE PlannerProofs ---------------------------
(***************************************************************************)
(* Proofs about Planner for every price list, account, target, fee,        *)
(* reserve and cap: buys leave the cash reserve of the real account whole  *)
(* whatever the sells did, and a run whose orders all executed ends within *)
(* the gross cap of the guard.                                             *)
(***************************************************************************)
EXTENDS Planner, SetLemmas

LEMMA PlFacts ==
    /\ IsFiniteSet(PlSyms) /\ Len(PlPrices) \in Nat
    /\ \A i \in PlSyms : PlPrices[i] \in Nat \ {0}
    /\ PlFeeDivisor \in Nat \ {0} /\ PlReserve \in Int
    /\ PlMaxOrders \in Nat /\ PlMaxTurnover \in Nat /\ PlMaxGross \in Int /\ PlMinTrade \in Nat
<1>1. Len(PlPrices) \in Nat /\ \A i \in PlSyms : PlPrices[i] \in Nat \ {0}
  BY PlanParameters DEF PlSyms
<1>2. IsFiniteSet(PlSyms)
  BY <1>1, FS_Interval DEF PlSyms
<1> QED  BY <1>1, <1>2, PlanParameters

\* A fee is the notional divided, rounded up: nothing on nothing, more on more.
LEMMA FeeFacts ==
    ASSUME NEW n \in Nat
    PROVE  /\ fee_for(n) \in Nat
           /\ n <= PlFeeDivisor * fee_for(n) /\ PlFeeDivisor * fee_for(n) <= n + PlFeeDivisor - 1
           /\ fee_for(0) = 0
           /\ \A m \in Nat : m <= n => fee_for(m) <= fee_for(n)
<1> DEFINE d == PlFeeDivisor
<1>1. d \in Nat \ {0}
  BY PlFacts
<1> HIDE DEF d
<1>2. ASSUME NEW m \in Nat
      PROVE  /\ fee_for(m) \in Nat /\ d * fee_for(m) <= m + d - 1 /\ m + d - 1 < d * fee_for(m) + d
  <2>1. m + d - 1 \in Nat
    BY <1>1
  <2>2. fee_for(m) = (m + d - 1) \div d
    BY DEF fee_for, d
  <2> QED  BY <1>1, <2>1, <2>2, Quotient
<1>3. fee_for(0) = 0
  <2>1. PICK q \in Nat : q = fee_for(0)
    BY <1>2
  <2>2. d * q <= d - 1
    BY <1>1, <1>2, <2>1
  <2>3. q >= 1 => d * q >= d * 1
    BY <1>1, TimesOrdered
  <2> QED  BY <1>1, <2>1, <2>2, <2>3
<1>4. ASSUME NEW m \in Nat, m <= n
      PROVE  fee_for(m) <= fee_for(n)
  <2>1. PICK q \in Nat, r \in Nat : q = fee_for(m) /\ r = fee_for(n)
    BY <1>2
  <2>2. d * q <= m + d - 1 /\ n + d - 1 < d * r + d
    BY <1>2, <2>1
  <2>3. d * q < d * r + d
    BY <1>1, <1>4, <2>2
  <2>4. q >= r + 1 => d * q >= d * (r + 1)
    BY <1>1, TimesOrdered
  <2>5. d * (r + 1) = d * r + d
    BY <1>1
  <2> QED  BY <1>1, <2>1, <2>3, <2>4, <2>5
<1>5. n <= d * fee_for(n)
  <2>1. PICK q \in Nat : q = fee_for(n)
    BY <1>2
  <2>2. n + d - 1 < d * q + d
    BY <1>2, <2>1
  <2> QED  BY <1>1, <2>1, <2>2
<1> QED  BY <1>2, <1>3, <1>4, <1>5 DEF d

\* What an order costs: nothing for nothing, and more for more.
LEMMA CostFacts ==
    ASSUME NEW i \in PlSyms, NEW q \in Nat
    PROVE  /\ q * PlPrices[i] \in Nat
           /\ Cost(i, q) \in Nat /\ Cost(i, q) >= q * PlPrices[i] /\ Cost(i, 0) = 0
           /\ \A n \in 0..q : Cost(i, n) <= Cost(i, q) /\ n * PlPrices[i] <= q * PlPrices[i]
<1>1. PICK p \in Nat \ {0} : p = PlPrices[i]
  BY PlFacts
<1>2. ASSUME NEW n \in Nat
      PROVE  n * p \in Nat /\ Cost(i, n) = n * p + fee_for(n * p) /\ fee_for(n * p) \in Nat
  <2>1. n * p \in Nat
    BY <1>1
  <2> QED  BY <1>1, <2>1, FeeFacts DEF Cost
<1>3. Cost(i, 0) = 0
  <2>1. 0 * p = 0
    BY <1>1
  <2>2. Cost(i, 0) = 0 * p + fee_for(0 * p)
    BY <1>2
  <2>3. fee_for(0) = 0
    BY FeeFacts
  <2> QED  BY <2>1, <2>2, <2>3
<1>4. ASSUME NEW n \in 0..q
      PROVE  Cost(i, n) <= Cost(i, q) /\ n * p <= q * p
  <2>1. n * p <= q * p
    BY <1>1, TimesOrdered
  <2>2. fee_for(n * p) <= fee_for(q * p)
    BY <1>2, <2>1, FeeFacts
  <2>3. PICK a \in Nat, b \in Nat, x \in Nat, y \in Nat :
          a = n * p /\ b = q * p /\ x = fee_for(n * p) /\ y = fee_for(q * p)
    <3>1. n \in Nat
      OBVIOUS
    <3>2. n * p \in Nat /\ fee_for(n * p) \in Nat /\ q * p \in Nat /\ fee_for(q * p) \in Nat
      BY <1>2, <3>1
    <3> QED  BY <3>2, Zenon
  <2>4. Cost(i, n) = a + x /\ Cost(i, q) = b + y
    BY <1>2, <2>3
  <2> QED  BY <2>1, <2>2, <2>3, <2>4
<1>5. Cost(i, q) \in Nat /\ Cost(i, q) >= q * p
  BY <1>2
<1> QED  BY <1>1, <1>2, <1>3, <1>4, <1>5

\* The amounts orders add up to.
LEMMA TotalFacts ==
    ASSUME NEW orders \in [PlSyms -> Nat]
    PROVE  /\ [i \in PlSyms |-> Cost(i, orders[i])] \in [PlSyms -> Nat]
           /\ TotalCost(orders) \in Nat
           /\ TotalCost(NoOrders) = 0
<1>1. ASSUME NEW o \in [PlSyms -> Nat]
      PROVE  [i \in PlSyms |-> Cost(i, o[i])] \in [PlSyms -> Nat]
  BY CostFacts
<1>2. TotalCost(orders) \in Nat
  BY <1>1, PlFacts, SumOfPart DEF TotalCost, PlTotal
<1>3. TotalCost(NoOrders) = 0
  <2> DEFINE f == [i \in PlSyms |-> Cost(i, NoOrders[i])]
  <2>1. \A i \in PlSyms : f[i] \in 0..0
    BY CostFacts DEF NoOrders
  <2> HIDE DEF f
  <2>2. SumFunctionOnSet(f, PlSyms) \in Nat /\ SumFunctionOnSet(f, PlSyms) <= Cardinality(PlSyms) * 0
    BY <2>1, PlFacts, SumBounded
  <2>3. Cardinality(PlSyms) \in Nat
    BY PlFacts, FS_CardinalityType
  <2>4. SumFunctionOnSet(f, PlSyms) = 0
    BY <2>2, <2>3
  <2> QED  BY <2>4 DEF TotalCost, PlTotal, f
<1> QED  BY <1>1, <1>2, <1>3

\* A quantity scaled by u / t, rounded down, costs at most u / t of what it did and, for
\* the rounding of its fee, one unit more.
LEMMA ScaledCost ==
    ASSUME NEW i \in PlSyms, NEW q \in Nat, NEW u \in Nat, NEW t \in Nat \ {0}
    PROVE  /\ (q * u) \div t \in Nat
           /\ t * Cost(i, (q * u) \div t) <= u * Cost(i, q) + t * (IF q > 0 THEN 1 ELSE 0)
<1>1. PICK p \in Nat \ {0} : p = PlPrices[i]
  BY PlFacts
<1>2. PICK d \in Nat \ {0} : d = PlFeeDivisor
  BY PlFacts
<1>3. PICK s \in Nat : s = (q * u) \div t /\ t * s <= q * u
  <2>1. q * u \in Nat
    OBVIOUS
  <2> QED  BY <2>1, Quotient
<1>4. CASE q = 0
  <2>1. s = 0
    <3>1. t * s <= 0
      BY <1>3, <1>4
    <3>2. s >= 1 => t * s >= t * 1
      BY TimesOrdered
    <3> QED  BY <3>1, <3>2
  <2>2. Cost(i, 0) = 0
    BY CostFacts
  <2> QED  BY <1>3, <1>4, <2>1, <2>2
<1>5. CASE q > 0
  <2>1. PICK n \in Nat, m \in Nat : n = q * p /\ m = s * p
    BY <1>1
  <2>2. PICK x \in Nat, y \in Nat : /\ x = fee_for(n) /\ y = fee_for(m)
                                    /\ n <= d * x /\ d * y <= m + d - 1
    BY <1>2, <2>1, FeeFacts
  <2>3. t * m <= u * n
    <3>1. (t * s) * p <= (q * u) * p
      BY <1>3, TimesOrdered
    <3>2. (t * s) * p = t * (s * p) /\ (q * u) * p = u * (q * p)
      OBVIOUS
    <3> QED  BY <2>1, <3>1, <3>2
  <2>4. t * y <= u * x + t
    <3>1. t * (d * y) <= t * (m + d - 1)
      BY <2>2, TimesOrdered
    <3>2. u * n <= u * (d * x)
      BY <2>2, TimesOrdered
    <3>3. t * (m + d - 1) = t * m + t * d - t
      OBVIOUS
    <3>4. t * (d * y) = d * (t * y) /\ u * (d * x) = d * (u * x) /\ d * (u * x + t) = d * (u * x) + t * d
      OBVIOUS
    <3>5. PICK v \in Int, w \in Int : v = t * y /\ w = u * x + t
      OBVIOUS
    <3>6. d * v <= d * w
      <4>1. PICK a \in Int, b \in Int, c \in Int, e \in Int, g \in Int :
              a = d * v /\ b = d * (u * x) /\ c = t * m /\ e = t * d /\ g = u * n
        OBVIOUS
      <4>2. a <= c + e - t /\ c <= g /\ g <= b
        BY <2>3, <3>1, <3>2, <3>3, <3>4, <3>5, <4>1
      <4>3. d * w = b + e
        BY <3>4, <3>5, <4>1
      <4> QED  BY <4>1, <4>2, <4>3
    <3> QED  BY <3>5, <3>6, TimesCancel
  <2>5. Cost(i, s) = m + y /\ Cost(i, q) = n + x
    BY <1>1, <2>1, <2>2 DEF Cost
  <2>6. t * (m + y) = t * m + t * y /\ u * (n + x) = u * n + u * x
    OBVIOUS
  <2>7. PICK a \in Int, b \in Int, c \in Int, e \in Int :
          a = t * m /\ b = t * y /\ c = u * n /\ e = u * x
    OBVIOUS
  <2>8. a + b <= (c + e) + t
    BY <2>3, <2>4, <2>7
  <2>9. t * Cost(i, s) <= u * Cost(i, q) + t
    BY <2>5, <2>6, <2>7, <2>8
  <2> QED  BY <1>3, <1>5, <2>9
<1> QED  BY <1>4, <1>5

\* The quantities fitted to an amount: none where none was wished, and unless all are
\* zero they cost at most that amount (the fee slack of planner.rs is enough).
LEMMA FittedFits ==
    ASSUME NEW wished \in [PlSyms -> Nat], NEW available \in Int
    PROVE  /\ Fitted(wished, available) \in [PlSyms -> Nat]
           /\ \A i \in PlSyms : wished[i] = 0 => Fitted(wished, available)[i] = 0
           /\ \A i \in PlSyms : Fitted(wished, available)[i] > 0 =>
                  TotalCost(Fitted(wished, available)) <= available
<1> DEFINE t == TotalCost(wished)
           one == [i \in PlSyms |-> IF wished[i] > 0 THEN 1 ELSE 0]
           cost == [i \in PlSyms |-> Cost(i, wished[i])]
<1>1. t \in Nat /\ cost \in [PlSyms -> Nat] /\ t = SumFunctionOnSet(cost, PlSyms)
  BY TotalFacts DEF TotalCost, PlTotal
<1>2. /\ SumFunctionOnSet(one, PlSyms) = Cardinality(Ordered(wished))
      /\ Cardinality(Ordered(wished)) \in Nat
  <2>1. Ordered(wished) \in SUBSET PlSyms
    BY DEF Ordered
  <2>2. \A i \in PlSyms : one[i] = IF i \in Ordered(wished) THEN 1 ELSE 0
    BY DEF Ordered
  <2> HIDE DEF one
  <2> QED  BY <2>1, <2>2, PlFacts, CountAsSum
<1>3. PICK c \in Nat : c = Cardinality(Ordered(wished))
  BY <1>2
<1> HIDE DEF t
<1>4. CASE t <= available
  <2>1. Fitted(wished, available) = wished
    BY <1>4 DEF Fitted, t
  <2> QED  BY <1>4, <2>1 DEF t
<1>5. CASE ~(t <= available) /\ available - c <= 0
  <2>1. Fitted(wished, available) = [i \in PlSyms |-> 0]
    <3>1. Fitted(wished, available) = [i \in PlSyms |-> IF available - c <= 0 THEN 0 ELSE (wished[i] * (available - c)) \div t]
      BY <1>3, <1>5 DEF Fitted, t
    <3> QED  BY <1>5, <3>1
  <2> QED  BY <2>1
<1>6. CASE ~(t <= available) /\ ~(available - c <= 0)
  <2>1. PICK u \in Nat : u = available - c
    BY <1>6
  <2>2. t \in Nat \ {0}
    BY <1>1, <1>3, <1>6
  <2> DEFINE s == [i \in PlSyms |-> (wished[i] * u) \div t]
             scost == [i \in PlSyms |-> Cost(i, s[i])]
  <2>3. Fitted(wished, available) = s
    <3>1. Fitted(wished, available) = [i \in PlSyms |-> IF available - c <= 0 THEN 0 ELSE (wished[i] * (available - c)) \div t]
      BY <1>3, <1>6 DEF Fitted, t
    <3> QED  BY <1>6, <2>1, <3>1
  <2>4. ASSUME NEW i \in PlSyms
        PROVE  s[i] \in Nat /\ t * scost[i] <= u * cost[i] + t * one[i] /\ (wished[i] = 0 => s[i] = 0)
    <3>1. PICK q \in Nat : q = wished[i]
      OBVIOUS
    <3>2. /\ (q * u) \div t \in Nat
          /\ t * Cost(i, (q * u) \div t) <= u * Cost(i, q) + t * (IF q > 0 THEN 1 ELSE 0)
      BY <2>2, ScaledCost
    <3>3. q = 0 => (q * u) \div t = 0
      <4>1. 0 * u = 0 /\ 0 \div t = 0
        BY <2>2
      <4> QED  BY <4>1
    <3>4. s[i] = (q * u) \div t /\ scost[i] = Cost(i, (q * u) \div t) /\ cost[i] = Cost(i, q)
      BY <3>1
    <3>5. one[i] = IF q > 0 THEN 1 ELSE 0
      BY <3>1
    <3> QED  BY <3>1, <3>2, <3>3, <3>4, <3>5
  <2>5. s \in [PlSyms -> Nat]
    BY <2>4
  <2>6. scost \in [PlSyms -> Nat] /\ TotalCost(s) = SumFunctionOnSet(scost, PlSyms) /\ TotalCost(s) \in Nat
    <3> HIDE DEF s
    <3> QED  BY <2>5, TotalFacts DEF TotalCost, PlTotal
  <2>7. one \in [PlSyms -> Int]
    OBVIOUS
  <2>8. \A i \in PlSyms : t * scost[i] <= u * cost[i] + t * one[i]
    BY <2>4
  <2> HIDE DEF s, scost, one, cost
  <2> DEFINE zero == [i \in PlSyms |-> 0]
             left == [i \in PlSyms |-> t * scost[i] + 0]
             slack == [i \in PlSyms |-> t * one[i] + 0]
             right == [i \in PlSyms |-> u * cost[i] + slack[i]]
  <2>9. SumFunctionOnSet(zero, PlSyms) = 0
    <3>1. \A i \in PlSyms : zero[i] \in 0..0
      OBVIOUS
    <3> HIDE DEF zero
    <3>2. SumFunctionOnSet(zero, PlSyms) \in Nat /\ SumFunctionOnSet(zero, PlSyms) <= Cardinality(PlSyms) * 0
      BY <3>1, PlFacts, SumBounded
    <3>3. Cardinality(PlSyms) \in Nat
      BY PlFacts, FS_CardinalityType
    <3> QED  BY <3>2, <3>3
  <2>10. SumFunctionOnSet(left, PlSyms) = t * SumFunctionOnSet(scost, PlSyms) + SumFunctionOnSet(zero, PlSyms)
    <3>1. \A i \in PlSyms : scost[i] \in Int /\ zero[i] \in Int /\ left[i] = t * scost[i] + zero[i]
      BY <1>1, <2>6
    <3> HIDE DEF zero, left
    <3> QED  BY <1>1, <3>1, PlFacts, SumAdded
  <2>11. SumFunctionOnSet(slack, PlSyms) = t * SumFunctionOnSet(one, PlSyms) + SumFunctionOnSet(zero, PlSyms)
    <3>1. \A i \in PlSyms : one[i] \in Int /\ zero[i] \in Int /\ slack[i] = t * one[i] + zero[i]
      BY <1>1, <2>7
    <3> HIDE DEF zero, slack
    <3> QED  BY <1>1, <3>1, PlFacts, SumAdded
  <2>12. SumFunctionOnSet(right, PlSyms) = u * SumFunctionOnSet(cost, PlSyms) + SumFunctionOnSet(slack, PlSyms)
    <3>1. \A i \in PlSyms : cost[i] \in Int /\ slack[i] \in Int /\ right[i] = u * cost[i] + slack[i]
      BY <1>1, <2>7
    <3>2. u \in Int
      BY <2>1
    <3>3. IsFiniteSet(PlSyms)
      BY PlFacts
    <3> HIDE DEF slack, right
    <3> QED  BY ONLY <3>1, <3>2, <3>3, SumAdded
  <2>13. SumFunctionOnSet(left, PlSyms) <= SumFunctionOnSet(right, PlSyms)
    <3>1. \A i \in PlSyms : left[i] \in Int /\ right[i] \in Int /\ left[i] <= right[i]
      <4> SUFFICES ASSUME NEW i \in PlSyms PROVE left[i] \in Int /\ right[i] \in Int /\ left[i] <= right[i]
        OBVIOUS
      <4>1. PICK a \in Int, b \in Int, e \in Int : a = t * scost[i] /\ b = u * cost[i] /\ e = t * one[i]
        BY <1>1, <2>6, <2>7
      <4>2. a <= b + e
        BY <2>8, <4>1
      <4>3. left[i] = a + 0 /\ right[i] = b + (e + 0)
        BY <4>1
      <4> QED  BY <4>1, <4>2, <4>3
    <3> HIDE DEF left, right
    <3> QED  BY <3>1, PlFacts, SumOrdered
  <2>14. t * TotalCost(s) <= u * t + t * c
    <3>1. PICK x \in Int : x = TotalCost(s)
      BY <2>6
    <3>2. PICK a \in Int, b \in Int, e \in Int : a = t * x /\ b = u * t /\ e = t * c
      BY <1>1
    <3>3. SumFunctionOnSet(left, PlSyms) = a + 0
      BY <2>6, <2>9, <2>10, <3>1, <3>2
    <3>4. SumFunctionOnSet(slack, PlSyms) = e + 0
      BY <1>2, <1>3, <2>9, <2>11, <3>2
    <3>5. SumFunctionOnSet(right, PlSyms) = b + (e + 0)
      BY <1>1, <2>12, <3>2, <3>4
    <3> QED  BY <2>13, <3>1, <3>2, <3>3, <3>5
  <2>15. u * t + t * c = t * (u + c) /\ u + c = available
    BY <1>1, <1>3, <2>1
  <2>16. TotalCost(s) <= available
    <3>1. t * TotalCost(s) <= t * available
      BY <2>14, <2>15
    <3> QED  BY <2>2, <2>6, <3>1, TimesCancel
  <2>17. \A i \in PlSyms : wished[i] = 0 => s[i] = 0
    BY <2>4
  <2> QED  BY <2>3, <2>5, <2>16, <2>17
<1> QED  BY <1>4, <1>5, <1>6

\* What orders are worth, instrument by instrument, and the positions once they executed.
Notional(orders) == [i \in PlSyms |-> orders[i] * PlPrices[i]]
Then(pos, side, orders) == [i \in PlSyms |-> pos[i] + Signed(side, orders[i])]

\* No orders are worth nothing, and any are worth what each of them is at least.
LEMMA OrdersFacts ==
    ASSUME NEW orders \in [PlSyms -> Nat]
    PROVE  /\ Notional(orders) \in [PlSyms -> Nat]
           /\ PlTotal(Notional(orders)) \in Nat /\ Cardinality(Ordered(orders)) \in Nat
           /\ IsFiniteSet(Ordered(orders))
           /\ NoOrders \in [PlSyms -> Nat] /\ PlTotal(Notional(NoOrders)) = 0
           /\ Cardinality(Ordered(NoOrders)) = 0
           /\ orders # NoOrders <=> Ordered(orders) # {}
<1>1. NoOrders \in [PlSyms -> Nat]
  BY DEF NoOrders
<1>2. ASSUME NEW o \in [PlSyms -> Nat]
      PROVE  Notional(o) \in [PlSyms -> Nat]
  BY CostFacts DEF Notional
<1>3. PlTotal(Notional(orders)) \in Nat
  BY <1>2, PlFacts, SumOfPart DEF PlTotal
<1>4. IsFiniteSet(Ordered(orders)) /\ Cardinality(Ordered(orders)) \in Nat
  BY PlFacts, FS_Subset, FS_CardinalityType DEF Ordered
<1>5. Ordered(NoOrders) = {}
  BY DEF Ordered, NoOrders
<1>6. Cardinality(Ordered(NoOrders)) = 0
  BY <1>5, FS_EmptySet
<1>7. PlTotal(Notional(NoOrders)) = 0
  <2> DEFINE f == Notional(NoOrders)
  <2>1. \A i \in PlSyms : f[i] \in 0..0
    BY PlFacts DEF NoOrders, Notional
  <2> HIDE DEF f
  <2>2. SumFunctionOnSet(f, PlSyms) \in Nat /\ SumFunctionOnSet(f, PlSyms) <= Cardinality(PlSyms) * 0
    BY <2>1, PlFacts, SumBounded
  <2>3. Cardinality(PlSyms) \in Nat
    BY PlFacts, FS_CardinalityType
  <2> QED  BY <2>2, <2>3 DEF PlTotal, f
<1>8. orders # NoOrders <=> Ordered(orders) # {}
  <2>1. ASSUME Ordered(orders) = {} PROVE orders = NoOrders
    BY <2>1 DEF Ordered, NoOrders
  <2> QED  BY <1>5, <2>1
<1> QED  BY <1>1, <1>2, <1>3, <1>4, <1>6, <1>7, <1>8

\* Natural numbers are integers.
LEMMA WholeNumbers ==
    ASSUME NEW S, NEW f \in [S -> Nat]
    PROVE  f \in [S -> Int]
OBVIOUS

\* One order more: what the orders count, are worth and cost.
LEMMA OneMore ==
    ASSUME NEW orders \in [PlSyms -> Nat], NEW i \in PlSyms, orders[i] > 0,
           NEW less, less = [orders EXCEPT ![i] = 0]
    PROVE  /\ less \in [PlSyms -> Nat]
           /\ Cardinality(Ordered(orders)) = Cardinality(Ordered(less)) + 1
           /\ PlTotal(Notional(orders)) = PlTotal(Notional(less)) + orders[i] * PlPrices[i]
           /\ TotalCost(orders) = TotalCost(less) + Cost(i, orders[i])
<1>1. less \in [PlSyms -> Nat] /\ less[i] = 0 /\ \A j \in PlSyms \ {i} : less[j] = orders[j]
  OBVIOUS
<1>2. Cardinality(Ordered(orders)) = Cardinality(Ordered(less)) + 1
  <2>1. Ordered(less) = Ordered(orders) \ {i} /\ i \in Ordered(orders)
    BY <1>1 DEF Ordered
  <2>2. IsFiniteSet(Ordered(orders)) /\ Cardinality(Ordered(orders)) \in Nat
    BY OrdersFacts
  <2>3. Cardinality(Ordered(orders) \ {i}) = Cardinality(Ordered(orders)) - 1
    BY <2>1, <2>2, FS_RemoveElement
  <2>4. Cardinality(Ordered(less)) = Cardinality(Ordered(orders)) - 1
    BY <2>1, <2>3, Zenon
  <2> QED  BY <2>2, <2>4
<1>3. PlTotal(Notional(orders)) = PlTotal(Notional(less)) + orders[i] * PlPrices[i]
  <2> DEFINE f == Notional(orders)
             e == Notional(less)
  <2>1. f \in [PlSyms -> Int] /\ e \in [PlSyms -> Int]
    <3>1. f \in [PlSyms -> Nat] /\ e \in [PlSyms -> Nat]
      BY <1>1, OrdersFacts
    <3> HIDE DEF f, e
    <3> QED  BY <3>1, WholeNumbers
  <2>2. f[i] = orders[i] * PlPrices[i] /\ e[i] = 0 /\ f[i] \in Nat
    <3>1. 0 * PlPrices[i] = 0
      BY PlFacts
    <3> QED  BY <1>1, <3>1, CostFacts DEF Notional
  <2>3. \A j \in PlSyms \ {i} : f[j] = e[j]
    BY <1>1 DEF Notional
  <2>4. PlTotal(e) \in Nat
    BY <1>1, OrdersFacts
  <2> HIDE DEF f, e
  <2>5. PlTotal(f) = PlTotal(e) - e[i] + f[i]
    <3>1. IsFiniteSet(PlSyms)
      BY PlFacts
    <3>2. SumFunctionOnSet(f, PlSyms) = SumFunctionOnSet(e, PlSyms) - e[i] + f[i]
      BY ONLY <2>1, <2>3, <3>1, i \in PlSyms, SumUpdated
    <3> QED  BY <3>2 DEF PlTotal
  <2>6. PlTotal(f) = PlTotal(e) + f[i]
    BY <2>2, <2>4, <2>5
  <2> QED  BY <2>2, <2>6 DEF f, e
<1>4. TotalCost(orders) = TotalCost(less) + Cost(i, orders[i])
  <2> DEFINE f == [j \in PlSyms |-> Cost(j, orders[j])]
             e == [j \in PlSyms |-> Cost(j, less[j])]
  <2>1. f \in [PlSyms -> Int] /\ e \in [PlSyms -> Int]
    <3>1. f \in [PlSyms -> Nat] /\ e \in [PlSyms -> Nat]
      BY <1>1, TotalFacts
    <3> HIDE DEF f, e
    <3> QED  BY <3>1, WholeNumbers
  <2>2. f[i] = Cost(i, orders[i]) /\ e[i] = 0 /\ f[i] \in Nat
    BY <1>1, CostFacts
  <2>3. \A j \in PlSyms \ {i} : f[j] = e[j]
    BY <1>1
  <2>4. PlTotal(e) = TotalCost(less) /\ PlTotal(f) = TotalCost(orders)
    BY DEF TotalCost
  <2>5. TotalCost(less) \in Nat
    BY <1>1, TotalFacts
  <2> HIDE DEF f, e
  <2>6. PlTotal(f) = PlTotal(e) - e[i] + f[i]
    <3>1. IsFiniteSet(PlSyms)
      BY PlFacts
    <3>2. SumFunctionOnSet(f, PlSyms) = SumFunctionOnSet(e, PlSyms) - e[i] + f[i]
      BY ONLY <2>1, <2>3, <3>1, i \in PlSyms, SumUpdated
    <3> QED  BY <3>2 DEF PlTotal
  <2> QED  BY <2>2, <2>4, <2>5, <2>6
<1> QED  BY <1>1, <1>2, <1>3, <1>4

\* The account the planner simulates: the day counters may pass their limits.
PlSim == [pos : [PlSyms -> Int], cash : Int, orders : Nat, turnover : Nat]

LEMMA AppliedFacts ==
    ASSUME NEW acct \in PlSim, NEW side \in {"Buy", "Sell"}, NEW i \in PlSyms, NEW qty \in Nat
    PROVE  /\ Applied(acct, side, i, qty) \in PlSim
           /\ Applied(acct, side, i, qty).pos = [acct.pos EXCEPT ![i] = acct.pos[i] + Signed(side, qty)]
           /\ Applied(acct, side, i, qty).cash = acct.cash - Signed(side, qty * PlPrices[i]) - fee_for(qty * PlPrices[i])
           /\ Applied(acct, side, i, qty).orders = acct.orders + 1
           /\ Applied(acct, side, i, qty).turnover = acct.turnover + qty * PlPrices[i]
           /\ Applied(acct, side, i, qty) = [pos |-> Applied(acct, side, i, qty).pos,
                                             cash |-> Applied(acct, side, i, qty).cash,
                                             orders |-> Applied(acct, side, i, qty).orders,
                                             turnover |-> Applied(acct, side, i, qty).turnover]
<1>1. PICK n \in Nat, f \in Nat : n = qty * PlPrices[i] /\ f = fee_for(n)
  BY CostFacts, FeeFacts
<1>2. PICK pos \in [PlSyms -> Int], cash \in Int, o \in Nat, t \in Nat :
        pos = acct.pos /\ cash = acct.cash /\ o = acct.orders /\ t = acct.turnover
  BY DEF PlSim
<1>3. PICK s \in Int, v \in Int : s = Signed(side, qty) /\ v = Signed(side, n)
  BY DEF Signed
<1>4. Applied(acct, side, i, qty) = [pos |-> [pos EXCEPT ![i] = pos[i] + s], cash |-> cash - v - f,
                                     orders |-> o + 1, turnover |-> t + n]
  BY <1>1, <1>2, <1>3 DEF Applied
<1>5. /\ [pos EXCEPT ![i] = pos[i] + s] \in [PlSyms -> Int] /\ cash - v - f \in Int
      /\ o + 1 \in Nat /\ t + n \in Nat
  OBVIOUS
<1> QED  BY <1>1, <1>2, <1>3, <1>4, <1>5 DEF PlSim

\* The trial of the first k instruments' orders, as a function of k, exists.
LEMMA TriedSteps ==
    ASSUME NEW sim, NEW side, NEW wished
    PROVE  \E h : /\ Tried(sim, side, wished) = h[Len(PlPrices)]
                  /\ h[0] = [sim |-> sim, orders |-> NoOrders]
                  /\ \A k \in 1..Len(PlPrices) : h[k] = Try(h[k - 1], side, k, wished[k])
<1> DEFINE n == Len(PlPrices)
           base == [sim |-> sim, orders |-> NoOrders]
           F(f, m) == f = [k \in 0..m |-> IF k = 0 THEN base ELSE Try(f[k - 1], side, k, wished[k])]
           B == {m \in 0..n : ~\E f : F(f, m)}
<1>1. n \in Nat
  BY PlFacts
<1> HIDE DEF n, base
<1>2. \E f : F(f, 0)
  <2> DEFINE f == [k \in 0..0 |-> base]
  <2>1. f = [k \in 0..0 |-> IF k = 0 THEN base ELSE Try(f[k - 1], side, k, wished[k])]
    OBVIOUS
  <2> QED  BY <2>1
<1>3. B = {}
  <2>1. SUFFICES ASSUME B # {} PROVE FALSE
    OBVIOUS
  <2>2. PICK m \in B : \A k \in B : m <= k
    <3>1. B \in SUBSET Nat
      BY <1>1
    <3> HIDE DEF B
    <3> QED  BY <2>1, <3>1, Smallest
  <2>3. m \in 1..n /\ m - 1 \in 0..n /\ m - 1 \notin B
    <3>1. m \in 0..n /\ m # 0
      BY <1>2, <2>2
    <3>2. m \in 1..n /\ m - 1 \in 0..n /\ ~(m <= m - 1)
      BY <1>1, <3>1
    <3> HIDE DEF B
    <3> QED  BY <2>2, <3>2
  <2>4. PICK f : F(f, m - 1)
    BY <2>3
  <2> DEFINE g == [k \in 0..m |-> IF k = m THEN Try(f[m - 1], side, m, wished[m]) ELSE f[k]]
  <2>5. \A k \in 0..(m - 1) : g[k] = f[k]
    BY <1>1, <2>3
  <2>6. \A k \in 0..(m - 1) : f[k] = IF k = 0 THEN base ELSE Try(f[k - 1], side, k, wished[k])
    BY <2>4, Zenon
  <2>7. ASSUME NEW k \in 0..m
        PROVE  g[k] = IF k = 0 THEN base ELSE Try(g[k - 1], side, k, wished[k])
    <3>1. CASE k = m
      <4>1. g[k] = Try(f[m - 1], side, m, wished[m]) /\ k # 0 /\ g[k - 1] = f[m - 1]
        BY <1>1, <2>3, <2>5, <3>1
      <4> QED  BY <3>1, <4>1
    <3>2. CASE k # m /\ k # 0
      <4>1. k \in 0..(m - 1) /\ k - 1 \in 0..(m - 1)
        BY <1>1, <2>3, <3>2
      <4>2. g[k] = f[k] /\ g[k - 1] = f[k - 1]
        BY <2>5, <4>1
      <4> HIDE DEF g
      <4> QED  BY <2>6, <3>2, <4>1, <4>2
    <3>3. CASE k # m /\ k = 0
      <4>1. 0 \in 0..(m - 1)
        BY <1>1, <2>3
      <4>2. g[0] = f[0] /\ f[0] = base
        BY <2>5, <2>6, <4>1
      <4> HIDE DEF g
      <4> QED  BY <3>3, <4>2
    <3> QED  BY <3>1, <3>2, <3>3
  <2>8. F(g, m)
    <3>1. g = [k \in 0..m |-> g[k]]
      OBVIOUS
    <3> HIDE DEF g
    <3> QED  BY <2>7, <3>1, Zenon
  <2>9. \E e : F(e, m)
    <3> HIDE DEF g, F
    <3> QED  BY <2>8
  <2> QED  BY <2>2, <2>9
<1> DEFINE u == CHOOSE f : F(f, n)
<1>4. F(u, n)
  <2>1. \E f : F(f, n)
    BY <1>1, <1>3
  <2> HIDE DEF F
  <2> QED  BY <2>1
<1>5. Tried(sim, side, wished) = u[n]
  BY DEF Tried, n, base
<1> HIDE DEF u
<1>6. \A k \in 0..n : u[k] = IF k = 0 THEN base ELSE Try(u[k - 1], side, k, wished[k])
  BY <1>4, Zenon
<1>7. u[0] = base /\ \A k \in 1..n : u[k] = Try(u[k - 1], side, k, wished[k])
  <2>1. 0 \in 0..n /\ \A k \in 1..n : k \in 0..n /\ k # 0
    BY <1>1
  <2> QED  BY <1>6, <2>1
<1> QED  BY <1>5, <1>7 DEF n, base

\* Orders that may be wished of an account: sells of what is held, buys of what is not short.
Wishes(acct, side) ==
    {w \in [PlSyms -> Nat] :
        \A i \in PlSyms : w[i] > 0 => IF side = "Sell" THEN w[i] <= acct.pos[i] ELSE acct.pos[i] >= 0}

\* What the trial of the first k wishes has come to: the simulation is the account after
\* the accepted orders, its counters are within the limits, a sell not accepted would
\* pass one of them, and the last buy accepted left the gross exposure within its cap.
Trial(acct, side, wished, k, acc) ==
    /\ acc.sim \in PlAccount /\ acc.orders \in [PlSyms -> Nat]
    /\ \A i \in PlSyms : acc.orders[i] = 0 \/ (i <= k /\ acc.orders[i] = wished[i])
    /\ acc.sim.pos = Then(acct.pos, side, acc.orders)
    /\ acc.sim.orders = acct.orders + Cardinality(Ordered(acc.orders))
    /\ acc.sim.turnover = acct.turnover + PlTotal(Notional(acc.orders))
    /\ side = "Sell" => \A i \in PlSyms : i <= k =>
          \/ acc.orders[i] = wished[i]
          \/ acc.sim.orders + 1 > PlMaxOrders
          \/ acc.sim.turnover + wished[i] * PlPrices[i] > PlMaxTurnover
    /\ side = "Buy" /\ acc.orders # NoOrders => gross(acc.sim) <= PlMaxGross

LEMMA TrialStarts ==
    ASSUME NEW acct \in PlAccount, NEW side \in {"Buy", "Sell"}, NEW wished \in Wishes(acct, side),
           NEW acc, acc = [sim |-> acct, orders |-> NoOrders]
    PROVE  Trial(acct, side, wished, 0, acc)
<1>1. acc.sim = acct /\ acc.orders = NoOrders
  OBVIOUS
<1>2. NoOrders \in [PlSyms -> Nat] /\ \A i \in PlSyms : NoOrders[i] = 0
  BY DEF NoOrders
<1>3. PICK o \in Nat, t \in Nat, pos \in [PlSyms -> Int] : o = acct.orders /\ t = acct.turnover /\ pos = acct.pos
  BY PlFacts DEF PlAccount
<1>4. pos = Then(pos, side, NoOrders)
  <2>1. \A i \in PlSyms : pos[i] = pos[i] + Signed(side, NoOrders[i])
    BY <1>2 DEF Signed
  <2> QED  BY <2>1 DEF Then
<1>5. Cardinality(Ordered(NoOrders)) = 0 /\ PlTotal(Notional(NoOrders)) = 0
  BY <1>2, OrdersFacts
<1>6. \A i \in PlSyms : ~(i <= 0)
  BY PlFacts DEF PlSyms
<1>7. o = o + Cardinality(Ordered(NoOrders)) /\ t = t + PlTotal(Notional(NoOrders))
  BY <1>5
<1> QED  BY <1>1, <1>2, <1>3, <1>4, <1>6, <1>7 DEF Trial

LEMMA TrialStep ==
    ASSUME NEW acct \in PlAccount, NEW side \in {"Buy", "Sell"}, NEW wished \in Wishes(acct, side),
           NEW k \in PlSyms, NEW acc, Trial(acct, side, wished, k - 1, acc),
           NEW next, next = Try(acc, side, k, wished[k])
    PROVE  Trial(acct, side, wished, k, next)
<1> DEFINE sim == acc.sim
           old == acc.orders
<1>1. PICK q \in Nat : q = wished[k]
  BY DEF Wishes
<1>2. k \in Nat /\ \A i \in PlSyms : i \in Nat
  BY PlFacts DEF PlSyms
<1>3. sim \in PlAccount /\ sim \in PlSim /\ old \in [PlSyms -> Nat]
  BY PlFacts DEF Trial, PlAccount, PlSim
<1>4. old[k] = 0
  BY <1>2 DEF Trial
<1>5. PICK h \in Int : h = acct.pos[k] /\ h = sim.pos[k]
  <2>1. acct.pos \in [PlSyms -> Int]
    BY DEF PlAccount
  <2>2. sim.pos[k] = acct.pos[k] + Signed(side, 0)
    BY <1>4 DEF Trial, Then
  <2> QED  BY <2>1, <2>2 DEF Signed
<1>6. q > 0 => IF side = "Sell" THEN q <= h ELSE h >= 0
  BY <1>1, <1>5 DEF Wishes
<1>7. PICK o \in Nat, t \in Nat, v \in Nat :
        o = sim.orders /\ t = sim.turnover /\ v = q * PlPrices[k]
  BY <1>3, CostFacts DEF PlSim
<1> DEFINE after == Applied(sim, side, k, q)
<1>8. /\ after \in PlSim /\ after.orders = o + 1 /\ after.turnover = t + v
      /\ after.pos = [sim.pos EXCEPT ![k] = sim.pos[k] + Signed(side, q)]
  BY <1>3, <1>7, AppliedFacts
<1>9. guard(sim, side, k, q) <=>
        LET reducing == q <= -Signed(side, h)
        IN  /\ side = "Sell" => reducing
            /\ after.orders <= PlMaxOrders /\ after.turnover <= PlMaxTurnover
            /\ ~reducing => /\ PlAbs(PlValue(after, k)) <= PlMaxPosition
                            /\ gross(after) <= PlMaxGross
                            /\ after.cash >= PlReserve
  BY <1>5 DEF guard
<1> HIDE DEF sim, old, after
<1>10. CASE q > 0 /\ guard(sim, side, k, q)
  <2> DEFINE new == [old EXCEPT ![k] = q]
  <2>1. next.sim = after /\ next.orders = new
    BY <1>1, <1>10 DEF Try, sim, old, after
  <2>2. /\ new \in [PlSyms -> Nat] /\ new[k] = q /\ old = [new EXCEPT ![k] = 0]
        /\ \A i \in PlSyms : i # k => new[i] = old[i]
    BY <1>3, <1>4
  <2> HIDE DEF new
  <2>3. /\ Cardinality(Ordered(new)) = Cardinality(Ordered(old)) + 1
        /\ PlTotal(Notional(new)) = PlTotal(Notional(old)) + v
    <3>1. new[k] > 0
      BY <1>10, <2>2
    <3>2. /\ Cardinality(Ordered(new)) = Cardinality(Ordered(old)) + 1
          /\ PlTotal(Notional(new)) = PlTotal(Notional(old)) + new[k] * PlPrices[k]
      <4>1. new \in [PlSyms -> Nat] /\ k \in PlSyms /\ old = [new EXCEPT ![k] = 0]
        BY <2>2
      <4> QED  BY ONLY <3>1, <4>1, OneMore
    <3> QED  BY <1>7, <2>2, <3>2
  <2>4. PICK c \in Nat, w \in Nat : c = Cardinality(Ordered(old)) /\ w = PlTotal(Notional(old))
    BY <1>3, OrdersFacts
  <2>5. PICK ao \in Nat, at \in Nat : ao = acct.orders /\ at = acct.turnover
    BY PlFacts DEF PlAccount
  <2>6. o = ao + c /\ t = at + w
    BY <1>7, <2>4, <2>5 DEF Trial, sim, old
  <2>7. after.orders = ao + Cardinality(Ordered(new)) /\ after.turnover = at + PlTotal(Notional(new))
    BY <1>8, <2>3, <2>4, <2>6
  <2>8. o + 1 <= PlMaxOrders /\ t + v <= PlMaxTurnover
    BY <1>8, <1>9, <1>10
  <2>9. after \in PlAccount
    <3>1. o + 1 \in 0..PlMaxOrders /\ t + v \in 0..PlMaxTurnover
      BY <2>8, PlFacts
    <3> QED  BY <1>8, <3>1 DEF PlSim, PlAccount
  <2>10. \A i \in PlSyms : new[i] = 0 \/ (i <= k /\ new[i] = wished[i])
    <3>1. \A i \in PlSyms : old[i] = 0 \/ (i <= k - 1 /\ old[i] = wished[i])
      BY DEF Trial, old
    <3>2. \A i \in PlSyms : i <= k - 1 => i <= k
      BY <1>2
    <3> QED  BY <1>1, <1>2, <2>2, <3>1, <3>2
  <2>11. after.pos = Then(acct.pos, side, new)
    <3>1. sim.pos = Then(acct.pos, side, old) /\ acct.pos \in [PlSyms -> Int]
      BY DEF Trial, sim, old, PlAccount
    <3>2. PICK pos \in [PlSyms -> Int] : pos = acct.pos
      BY <3>1
    <3>3. sim.pos = [i \in PlSyms |-> pos[i] + Signed(side, old[i])]
      BY <3>1, <3>2 DEF Then
    <3>4. sim.pos[k] = pos[k]
      BY <1>5, <3>2
    <3>5. after.pos = [i \in PlSyms |-> IF i = k THEN pos[k] + Signed(side, q) ELSE pos[i] + Signed(side, old[i])]
      BY <1>8, <3>3, <3>4
    <3>6. \A i \in PlSyms : (IF i = k THEN pos[k] + Signed(side, q) ELSE pos[i] + Signed(side, old[i]))
                             = pos[i] + Signed(side, new[i])
      BY <2>2
    <3> QED  BY <3>2, <3>5, <3>6 DEF Then
  <2>12. ASSUME side = "Sell", NEW i \in PlSyms, i <= k
         PROVE  \/ new[i] = wished[i]
                \/ after.orders + 1 > PlMaxOrders
                \/ after.turnover + wished[i] * PlPrices[i] > PlMaxTurnover
    <3>1. CASE i = k
      BY <1>1, <2>2, <3>1
    <3>2. CASE i # k
      <4>1. i <= k - 1
        BY <1>2, <2>12, <3>2
      <4>2. PICK x \in Nat : x = wished[i] * PlPrices[i]
        <5>1. wished[i] \in Nat
          BY DEF Wishes
        <5> QED  BY <5>1, CostFacts
      <4>3. old[i] = wished[i] \/ o + 1 > PlMaxOrders \/ t + x > PlMaxTurnover
        BY <1>7, <2>12, <4>1, <4>2 DEF Trial, sim, old
      <4> QED  BY <1>8, <2>2, <3>2, <4>2, <4>3, PlFacts
    <3> QED  BY <3>1, <3>2
  <2>13. side = "Buy" => gross(after) <= PlMaxGross
    <3>1. side = "Buy" => ~(q <= -Signed(side, h))
      BY <1>6, <1>10 DEF Signed
    <3> QED  BY <1>9, <1>10, <3>1
  <2> QED  BY <2>1, <2>2, <2>5, <2>7, <2>9, <2>10, <2>11, <2>12, <2>13 DEF Trial
<1>11. CASE ~(q > 0 /\ guard(sim, side, k, q))
  <2>1. next = acc
    BY <1>1, <1>11 DEF Try, sim
  <2>2. \A i \in PlSyms : old[i] = 0 \/ (i <= k /\ old[i] = wished[i])
    <3>1. \A i \in PlSyms : old[i] = 0 \/ (i <= k - 1 /\ old[i] = wished[i])
      BY DEF Trial, old
    <3>2. \A i \in PlSyms : i <= k - 1 => i <= k
      BY <1>2
    <3> QED  BY <3>1, <3>2
  <2>3. ASSUME side = "Sell", NEW i \in PlSyms, i <= k
        PROVE  \/ old[i] = wished[i]
               \/ sim.orders + 1 > PlMaxOrders
               \/ sim.turnover + wished[i] * PlPrices[i] > PlMaxTurnover
    <3>1. CASE i = k /\ q = 0
      BY <1>1, <1>4, <3>1
    <3>2. CASE i = k /\ q # 0
      <4>1. ~guard(sim, side, k, q) /\ q <= -Signed(side, h)
        BY <1>6, <1>11, <2>3, <3>2 DEF Signed
      <4>2. ~(o + 1 <= PlMaxOrders /\ t + v <= PlMaxTurnover)
        BY <1>8, <1>9, <4>1
      <4> QED  BY <1>1, <1>7, <3>2, <4>2, PlFacts
    <3>3. CASE i # k
      <4>1. i <= k - 1
        BY <1>2, <2>3, <3>3
      <4> QED  BY <2>3, <4>1 DEF Trial, sim, old
    <3> QED  BY <3>1, <3>2, <3>3
  <2> QED  BY <2>1, <2>2, <2>3 DEF Trial, sim, old
<1> QED  BY <1>10, <1>11

\* The trial of all wishes.
LEMMA TrialEnds ==
    ASSUME NEW acct \in PlAccount, NEW side \in {"Buy", "Sell"}, NEW wished \in Wishes(acct, side)
    PROVE  Trial(acct, side, wished, Len(PlPrices), Tried(acct, side, wished))
<1> DEFINE n == Len(PlPrices)
<1>1. PICK h : /\ Tried(acct, side, wished) = h[n]
               /\ h[0] = [sim |-> acct, orders |-> NoOrders]
               /\ \A k \in 1..n : h[k] = Try(h[k - 1], side, k, wished[k])
  BY TriedSteps
<1>2. n \in Nat /\ PlSyms = 1..n
  BY PlFacts DEF PlSyms
<1> HIDE DEF n
<1> DEFINE B == {k \in 0..n : ~Trial(acct, side, wished, k, h[k])}
<1>3. 0 \notin B
  BY <1>1, TrialStarts
<1>4. B = {}
  <2>1. SUFFICES ASSUME B # {} PROVE FALSE
    OBVIOUS
  <2>2. PICK k \in B : \A m \in B : k <= m
    <3>1. B \in SUBSET Nat
      BY <1>2
    <3> HIDE DEF B
    <3> QED  BY <2>1, <3>1, Smallest
  <2>3. k \in 1..n /\ k - 1 \in 0..n /\ k - 1 \notin B
    <3>1. k \in 0..n /\ k # 0
      BY <1>3, <2>2
    <3>2. k \in 1..n /\ k - 1 \in 0..n /\ ~(k <= k - 1)
      BY <1>2, <3>1
    <3> HIDE DEF B
    <3> QED  BY <2>2, <3>2
  <2>4. Trial(acct, side, wished, k - 1, h[k - 1])
    BY <2>3
  <2>5. Trial(acct, side, wished, k, h[k])
    BY <1>1, <1>2, <2>3, <2>4, TrialStep
  <2> QED  BY <2>2, <2>5
<1>5. n \in 0..n
  BY <1>2
<1> QED  BY <1>1, <1>4, <1>5 DEF n

\* The size of a difference, in whole units of a price.
LEMMA UnitsOf ==
    ASSUME NEW d \in Int, NEW p \in Nat \ {0}
    PROVE  \E size \in Nat, u \in Nat : /\ size = (IF d < 0 THEN -d ELSE d) /\ u = size \div p
                                        /\ p * u <= size /\ size < p * u + p
<1> DEFINE size == IF d < 0 THEN -d ELSE d
<1>1. size \in Nat
  OBVIOUS
<1>2. size \div p \in Nat /\ p * (size \div p) <= size /\ size < p * (size \div p) + p
  BY <1>1, Quotient
<1> QED  BY <1>1, <1>2

LEMMA SmallestTrade == Max({PlMinTrade, 1}) \in Nat /\ Max({PlMinTrade, 1}) >= 1
<1>1. PlMinTrade \in Int /\ 1 \in Int /\ PlMinTrade \in Nat
  BY PlFacts
<1>2. Max({PlMinTrade, 1}) = IF PlMinTrade >= 1 THEN PlMinTrade ELSE 1
  BY <1>1, MaxOfTwo
<1> QED  BY <1>1, <1>2

\* A candidate never sells more than is held, nor trades a short.
LEMMA CandidateWished ==
    ASSUME NEW acct, acct.pos \in [PlSyms -> Int], plTarget \in [PlSyms -> Nat],
           NEW side \in {"Buy", "Sell"}
    PROVE  /\ Candidates(acct, side) \in Wishes(acct, side)
           /\ \A i \in PlSyms : acct.pos[i] < 0 => Candidates(acct, side)[i] = 0
<1>1. ASSUME NEW i \in PlSyms
      PROVE  /\ Candidate(acct, side, i) \in Nat
             /\ acct.pos[i] < 0 => Candidate(acct, side, i) = 0
             /\ Candidate(acct, side, i) > 0 =>
                    IF side = "Sell" THEN Candidate(acct, side, i) <= acct.pos[i] ELSE acct.pos[i] >= 0
  <2>1. PICK held \in Int, g \in Nat : held = acct.pos[i] /\ g = plTarget[i]
    OBVIOUS
  <2>5. PICK p \in Nat \ {0} : p = PlPrices[i]
    BY PlFacts
  <2>6. PICK v \in Int : v = held * p
    OBVIOUS
  <2>7. PICK size \in Nat, u \in Nat : size = (IF g - v < 0 THEN -(g - v) ELSE g - v) /\ u = size \div p
    <3>1. g - v \in Int
      OBVIOUS
    <3> QED  BY <3>1, UnitsOf
  <2>2. \/ Candidate(acct, side, i) = 0
        \/ /\ held >= 0
           /\ Candidate(acct, side, i) = IF side = "Buy" THEN u ELSE IF g = 0 THEN held ELSE Min({u, held})
    <3>1. Candidate(acct, side, i) =
             IF held < 0 \/ size < Max({PlMinTrade, 1}) \/ side # (IF g - v > 0 THEN "Buy" ELSE "Sell")
             THEN 0
             ELSE IF side = "Buy" THEN u ELSE IF g = 0 THEN held ELSE Min({u, held})
      <4>1. PlAbs(g - v) = size /\ PlValue(acct, i) = v
        BY <2>1, <2>5, <2>6, <2>7 DEF PlAbs, PlValue
      <4> QED  BY <4>1, <2>1, <2>5, <2>6, <2>7 DEF Candidate
    <3> QED  BY <3>1
  <2>3. Min({u, held}) = IF u <= held THEN u ELSE held
    BY MinOfTwo
  <2> HIDE DEF Candidate
  <2>4. held < 0 => Candidate(acct, side, i) = 0
    BY <2>2
  <2> QED  BY <2>1, <2>2, <2>3, <2>4
<1>2. Candidates(acct, side) \in [PlSyms -> Nat] /\ \A i \in PlSyms : Candidates(acct, side)[i] = Candidate(acct, side, i)
  BY <1>1 DEF Candidates
<1> HIDE DEF Candidate, Candidates
<1> QED  BY <1>1, <1>2 DEF Wishes

\* Once a candidate is sold in full there is none to sell: what is left of the difference
\* is worth less than one unit.
LEMMA SoldOnce ==
    ASSUME NEW i \in PlSyms, NEW pos \in [PlSyms -> Int], plTarget[i] \in Nat,
           NEW w, w = Candidate([pos |-> pos], "Sell", i), w \in Nat, w > 0,
           NEW after \in [PlSyms -> Int], after[i] = pos[i] - w
    PROVE  Candidate([pos |-> after], "Sell", i) = 0
<1>1. PICK held \in Int, g \in Nat, p \in Nat \ {0} : held = pos[i] /\ g = plTarget[i] /\ p = PlPrices[i]
  BY PlFacts
<1>2. PICK v \in Int : v = held * p
  OBVIOUS
<1>3. PICK m \in Nat : m = Max({PlMinTrade, 1}) /\ m >= 1
  BY SmallestTrade
<1>4. PICK size \in Nat, u \in Nat : /\ size = (IF g - v < 0 THEN -(g - v) ELSE g - v) /\ u = size \div p
                                     /\ p * u <= size /\ size < p * u + p
  <2>1. g - v \in Int
    OBVIOUS
  <2> QED  BY <2>1, UnitsOf
<1>5. Candidate([pos |-> pos], "Sell", i) =
        IF held < 0 \/ size < m \/ "Sell" # (IF g - v > 0 THEN "Buy" ELSE "Sell") THEN 0
        ELSE IF g = 0 THEN held ELSE Min({u, held})
  <2>1. [pos |-> pos].pos[i] = held
    BY <1>1
  <2>2. Candidate([pos |-> pos], "Sell", i) =
          IF held < 0 \/ size < Max({PlMinTrade, 1}) \/ "Sell" # (IF g - v > 0 THEN "Buy" ELSE "Sell")
          THEN 0
          ELSE IF "Sell" = "Buy" THEN u ELSE IF g = 0 THEN held ELSE Min({u, held})
    <3>1. PlAbs(g - v) = size /\ PlValue([pos |-> pos], i) = v
      BY <1>1, <1>2, <1>4, <2>1 DEF PlAbs, PlValue
    <3> QED  BY <3>1, <1>1, <1>2, <1>4, <2>1 DEF Candidate
  <2> QED  BY <1>3, <2>2
<1>6. held >= 0 /\ g - v < 0 /\ w = IF g = 0 THEN held ELSE Min({u, held})
  <2>1. ~(held < 0 \/ size < m \/ "Sell" # (IF g - v > 0 THEN "Buy" ELSE "Sell"))
    BY <1>5
  <2>2. held >= 0 /\ g - v < 0
    BY <1>3, <1>4, <2>1
  <2> QED  BY <1>5, <2>1, <2>2
<1>7. Min({u, held}) = IF u <= held THEN u ELSE held
  BY MinOfTwo
<1>8. PICK rest \in Int : rest = held - w
  OBVIOUS
<1>9. PICK y \in Int : y = rest * p
  OBVIOUS
<1>10. PICK left \in Nat, z \in Nat : /\ left = (IF g - y < 0 THEN -(g - y) ELSE g - y) /\ z = left \div p
                                      /\ p * z <= left /\ left < p * z + p
  <2>1. g - y \in Int
    OBVIOUS
  <2> QED  BY <2>1, UnitsOf
<1>11. Candidate([pos |-> after], "Sell", i) =
        IF rest < 0 \/ left < m \/ "Sell" # (IF g - y > 0 THEN "Buy" ELSE "Sell") THEN 0
        ELSE IF g = 0 THEN rest ELSE Min({z, rest})
  <2>1. [pos |-> after].pos[i] = rest
    BY <1>1, <1>8
  <2>2. Candidate([pos |-> after], "Sell", i) =
          IF rest < 0 \/ left < Max({PlMinTrade, 1}) \/ "Sell" # (IF g - y > 0 THEN "Buy" ELSE "Sell")
          THEN 0
          ELSE IF "Sell" = "Buy" THEN z ELSE IF g = 0 THEN rest ELSE Min({z, rest})
    <3>1. PlAbs(g - y) = left /\ PlValue([pos |-> after], i) = y
      BY <1>1, <1>9, <1>10, <2>1 DEF PlAbs, PlValue
    <3> QED  BY <3>1, <1>1, <1>9, <1>10, <2>1 DEF Candidate
  <2> QED  BY <1>3, <2>2
<1>12. y = v - w * p
  BY <1>2, <1>8, <1>9
<1>13. CASE g = 0
  <2>1. rest = 0 /\ y = 0
    BY <1>6, <1>8, <1>9, <1>13
  <2> QED  BY <1>3, <1>11, <1>13, <2>1
<1>14. CASE g # 0
  <2>1. u <= held
    <3>1. p * u <= v
      BY <1>4, <1>6
    <3>2. u >= held + 1 => p * u >= p * (held + 1)
      BY TimesOrdered
    <3>3. p * (held + 1) = v + p
      BY <1>2
    <3> QED  BY <3>1, <3>2, <3>3
  <2>2. w = u
    BY <1>6, <1>7, <1>14, <2>1
  <2>3. y = v - p * u
    BY <1>12, <2>2
  <2>4. PICK x \in Int : x = p * u
    OBVIOUS
  <2>5. g - y <= 0 /\ -(g - y) < p
    BY <1>4, <1>6, <2>3, <2>4
  <2>6. z = 0
    <3>1. left < p
      BY <1>10, <2>5
    <3>2. z >= 1 => p * z >= p * 1
      BY TimesOrdered
    <3> QED  BY <1>10, <3>1, <3>2
  <2>7. Min({z, rest}) = IF z <= rest THEN z ELSE rest
    BY MinOfTwo
  <2>8. rest >= 0
    BY <1>8, <2>1, <2>2
  <2> QED  BY <1>11, <1>14, <2>6, <2>7, <2>8
<1> QED  BY <1>13, <1>14

\* Nothing is left to sell at these positions that the day's limits would let through.
Settled(pos, orders, turnover) ==
    \A i \in PlSyms :
        \/ Candidate([pos |-> pos], "Sell", i) = 0
        \/ orders + 1 > PlMaxOrders
        \/ turnover + Candidate([pos |-> pos], "Sell", i) * PlPrices[i] > PlMaxTurnover

CountersFit(acct, orders) ==
    /\ acct.orders + Cardinality(Ordered(orders)) <= PlMaxOrders
    /\ acct.turnover + PlTotal(Notional(orders)) <= PlMaxTurnover

LEMMA CandidateAt ==
    ASSUME NEW acct, NEW side, NEW i
    PROVE  Candidate(acct, side, i) = Candidate([pos |-> acct.pos], side, i)
BY DEF Candidate, PlValue

\* The sells of a plan: at most what is held, never of a short, within the day's limits,
\* and once all of them executed nothing is left to sell.
LEMMA PlannedSells ==
    ASSUME NEW acct \in PlAccount, plTarget \in [PlSyms -> Nat],
           NEW sold, sold = Tried(acct, "Sell", Candidates(acct, "Sell"))
    PROVE  /\ sold.sim \in PlAccount /\ sold.orders \in [PlSyms -> Nat]
           /\ \A i \in PlSyms : /\ acct.pos[i] < 0 => sold.orders[i] = 0
                                /\ sold.orders[i] > 0 => sold.orders[i] <= acct.pos[i]
           /\ CountersFit(acct, sold.orders)
           /\ sold.sim.pos = Then(acct.pos, "Sell", sold.orders)
           /\ sold.sim.orders >= acct.orders /\ sold.sim.turnover >= acct.turnover
           /\ Settled(sold.sim.pos, sold.sim.orders, sold.sim.turnover)
           /\ sold.sim.orders = acct.orders + Cardinality(Ordered(sold.orders))
           /\ sold.sim.turnover = acct.turnover + PlTotal(Notional(sold.orders))
           /\ Settled(acct.pos, acct.orders, acct.turnover) => sold.orders = NoOrders
<1> DEFINE w == Candidates(acct, "Sell")
           n == Len(PlPrices)
           o == sold.orders
<1>1. acct.pos \in [PlSyms -> Int] /\ acct.orders \in Nat /\ acct.turnover \in Nat
  BY PlFacts DEF PlAccount
<1>2. /\ w \in Wishes(acct, "Sell") /\ w \in [PlSyms -> Nat]
      /\ \A i \in PlSyms : acct.pos[i] < 0 => w[i] = 0
  BY <1>1, CandidateWished DEF Wishes
<1>3. \A i \in PlSyms : w[i] = Candidate([pos |-> acct.pos], "Sell", i)
  BY CandidateAt DEF Candidates
<1> HIDE DEF w
<1>4. Trial(acct, "Sell", w, n, sold)
  <2>1. "Sell" \in {"Buy", "Sell"}
    OBVIOUS
  <2> QED  BY <1>2, <2>1, TrialEnds DEF w
<1>5. \A i \in PlSyms : i <= n
  BY PlFacts DEF PlSyms
<1>6. sold.sim \in PlAccount /\ o \in [PlSyms -> Nat] /\ \A i \in PlSyms : o[i] = 0 \/ o[i] = w[i]
  BY <1>4 DEF Trial
<1>7. PICK c \in Nat, t \in Nat, ao \in Nat, at \in Nat, so \in Nat, st \in Nat :
        /\ c = Cardinality(Ordered(o)) /\ t = PlTotal(Notional(o)) /\ ao = acct.orders /\ at = acct.turnover
        /\ so = sold.sim.orders /\ st = sold.sim.turnover
  <2>1. Cardinality(Ordered(o)) \in Nat /\ PlTotal(Notional(o)) \in Nat
    BY <1>6, OrdersFacts
  <2>2. sold.sim.orders \in Nat /\ sold.sim.turnover \in Nat
    BY <1>6, PlFacts DEF PlAccount
  <2> QED  BY <1>1, <2>1, <2>2, Zenon
<1>8. so = ao + c /\ st = at + t /\ so <= PlMaxOrders /\ st <= PlMaxTurnover
  <2>1. so = ao + c /\ st = at + t
    BY <1>4, <1>7 DEF Trial
  <2>2. sold.sim.orders <= PlMaxOrders /\ sold.sim.turnover <= PlMaxTurnover
    BY <1>6, PlFacts DEF PlAccount
  <2> QED  BY <1>7, <2>1, <2>2
<1>9. sold.sim.pos = Then(acct.pos, "Sell", o)
  BY <1>4 DEF Trial
<1>10. ASSUME NEW i \in PlSyms
       PROVE  (acct.pos[i] < 0 => o[i] = 0) /\ (o[i] > 0 => o[i] <= acct.pos[i])
  BY <1>2, <1>6 DEF Wishes
<1>11. Settled(sold.sim.pos, so, st)
  <2> SUFFICES ASSUME NEW i \in PlSyms
               PROVE  \/ Candidate([pos |-> sold.sim.pos], "Sell", i) = 0
                      \/ so + 1 > PlMaxOrders
                      \/ st + Candidate([pos |-> sold.sim.pos], "Sell", i) * PlPrices[i] > PlMaxTurnover
    BY DEF Settled
  <2>1. sold.sim.pos \in [PlSyms -> Int] /\ sold.sim.pos[i] = acct.pos[i] + Signed("Sell", o[i])
    BY <1>6, <1>9 DEF Then, PlAccount
  <2>2. CASE o[i] = w[i] /\ w[i] > 0
    <3>1. sold.sim.pos[i] = acct.pos[i] - w[i] /\ plTarget[i] \in Nat /\ w[i] \in Nat
      BY <1>1, <1>2, <2>1, <2>2 DEF Signed
    <3>2. Candidate([pos |-> sold.sim.pos], "Sell", i) = 0
      BY <1>1, <1>3, <2>1, <2>2, <3>1, SoldOnce
    <3> QED  BY <3>2
  <2>3. CASE o[i] = 0
    <3>1. sold.sim.pos[i] = acct.pos[i]
      BY <1>1, <2>1, <2>3 DEF Signed
    <3>2. Candidate([pos |-> sold.sim.pos], "Sell", i) = w[i]
      <4>1. Candidate([pos |-> sold.sim.pos], "Sell", i) = Candidate([pos |-> acct.pos], "Sell", i)
        BY <3>1 DEF Candidate, PlValue
      <4> QED  BY <1>3, <4>1
    <3>3. w[i] = 0 \/ so + 1 > PlMaxOrders \/ st + w[i] * PlPrices[i] > PlMaxTurnover
      BY <1>4, <1>5, <1>7, <2>3 DEF Trial
    <3> QED  BY <3>2, <3>3
  <2> QED  BY <1>2, <1>6, <2>2, <2>3
<1>12. ASSUME Settled(acct.pos, acct.orders, acct.turnover)
       PROVE  o = NoOrders
  <2>1. SUFFICES ASSUME o # NoOrders PROVE FALSE
    OBVIOUS
  <2>2. PICK i \in PlSyms : o[i] > 0
    BY <1>6, <2>1, OrdersFacts DEF Ordered
  <2>3. o[i] = w[i] /\ w[i] > 0
    BY <1>6, <2>2
  <2>4. ao + 1 > PlMaxOrders \/ at + w[i] * PlPrices[i] > PlMaxTurnover
    BY <1>3, <1>7, <1>12, <2>3 DEF Settled
  <2> DEFINE less == [o EXCEPT ![i] = 0]
  <2>5. /\ less \in [PlSyms -> Nat] /\ Cardinality(Ordered(o)) = Cardinality(Ordered(less)) + 1
        /\ PlTotal(Notional(o)) = PlTotal(Notional(less)) + o[i] * PlPrices[i]
    <3>1. less = [o EXCEPT ![i] = 0]
      OBVIOUS
    <3> HIDE DEF less, o
    <3> QED  BY ONLY <1>6, <2>2, <3>1, OneMore
  <2>6. PICK lc \in Nat, lt \in Nat, v \in Nat :
          lc = Cardinality(Ordered(less)) /\ lt = PlTotal(Notional(less)) /\ v = o[i] * PlPrices[i]
    <3>1. Cardinality(Ordered(less)) \in Nat /\ PlTotal(Notional(less)) \in Nat
      <4> HIDE DEF less
      <4> QED  BY <2>5, OrdersFacts
    <3>2. o[i] * PlPrices[i] \in Nat
      BY <1>6, CostFacts
    <3> QED  BY <3>1, <3>2, Zenon
  <2>7. c = lc + 1 /\ t = lt + v
    BY <1>7, <2>5, <2>6
  <2>8. ao + 1 > PlMaxOrders \/ at + v > PlMaxTurnover
    BY <2>3, <2>4, <2>6
  <2> QED  BY <1>8, <2>7, <2>8, PlFacts
<1>13. CountersFit(acct, o)
  BY <1>7, <1>8 DEF CountersFit
<1> QED  BY <1>6, <1>7, <1>8, <1>9, <1>10, <1>11, <1>12, <1>13

\* The buys of a plan: never of a short, within the day's limits; without the proceeds of
\* its own sells they fit the cash above the reserve; and when it sells nothing they leave
\* the gross exposure within its cap.
LEMMA PlannedBuys ==
    ASSUME NEW acct \in PlAccount, plTarget \in [PlSyms -> Nat], NEW credit \in BOOLEAN,
           NEW b, b = plan(acct, credit).buys
    PROVE  /\ b \in [PlSyms -> Nat]
           /\ \A i \in PlSyms : acct.pos[i] < 0 => b[i] = 0
           /\ CountersFit(acct, b)
           /\ ~credit /\ b # NoOrders => TotalCost(b) <= acct.cash - PlReserve
           /\ Settled(acct.pos, acct.orders, acct.turnover) /\ b # NoOrders =>
                  gross([pos |-> Then(acct.pos, "Buy", b)]) <= PlMaxGross
<1> DEFINE sold == Tried(acct, "Sell", Candidates(acct, "Sell"))
           sim == sold.sim
           w == Candidates(acct, "Buy")
           available == budget(sim, acct, credit) - PlReserve
           f == Fitted(w, available)
           bought == Tried(sim, "Buy", f)
           n == Len(PlPrices)
<1>1. acct.pos \in [PlSyms -> Int] /\ acct.orders \in Nat /\ acct.turnover \in Nat /\ acct.cash \in Int
  BY PlFacts DEF PlAccount
<1>2. b = bought.orders
  BY DEF plan
<1>3. /\ sim \in PlAccount /\ sold.orders \in [PlSyms -> Nat]
      /\ \A i \in PlSyms : /\ acct.pos[i] < 0 => sold.orders[i] = 0
                           /\ sold.orders[i] > 0 => sold.orders[i] <= acct.pos[i]
      /\ sim.pos = Then(acct.pos, "Sell", sold.orders)
      /\ sim.orders >= acct.orders /\ sim.turnover >= acct.turnover
      /\ Settled(acct.pos, acct.orders, acct.turnover) => sold.orders = NoOrders
  BY PlannedSells
<1> HIDE DEF sold
<1>4. /\ w \in [PlSyms -> Nat]
      /\ \A i \in PlSyms : (acct.pos[i] < 0 => w[i] = 0)
  BY <1>1, CandidateWished DEF Wishes
<1> HIDE DEF w
<1>5. available \in Int /\ (~credit => available <= acct.cash - PlReserve)
  <2>1. sim.cash \in Int /\ acct.cash \in Int /\ PlReserve \in Int
    BY <1>1, <1>3, PlFacts DEF PlAccount
  <2>2. Min({sim.cash, acct.cash}) = IF sim.cash <= acct.cash THEN sim.cash ELSE acct.cash
    BY <2>1, MinOfTwo
  <2>3. PICK x \in Int, y \in Int, r \in Int : x = sim.cash /\ y = acct.cash /\ r = PlReserve
    BY <2>1
  <2>4. available = (IF credit THEN x ELSE IF x <= y THEN x ELSE y) - r
    BY <2>2, <2>3 DEF budget
  <2> QED  BY <2>3, <2>4
<1> HIDE DEF available
<1>6. /\ f \in [PlSyms -> Nat] /\ \A i \in PlSyms : w[i] = 0 => f[i] = 0
      /\ \A i \in PlSyms : f[i] > 0 => TotalCost(f) <= available
  BY <1>4, <1>5, FittedFits
<1> HIDE DEF f, sim
<1>7. \A i \in PlSyms : acct.pos[i] >= 0 => sim.pos[i] >= 0
  <2> SUFFICES ASSUME NEW i \in PlSyms, acct.pos[i] >= 0 PROVE sim.pos[i] >= 0
    OBVIOUS
  <2>1. sim.pos[i] = acct.pos[i] + Signed("Sell", sold.orders[i])
    BY <1>3 DEF Then
  <2>2. PICK h \in Int, o \in Nat : h = acct.pos[i] /\ o = sold.orders[i]
    BY <1>1, <1>3
  <2>3. sim.pos[i] = h - o
    BY <2>1, <2>2 DEF Signed
  <2>4. o > 0 => o <= h
    BY <1>3, <2>2
  <2> QED  BY <2>2, <2>3, <2>4
<1>8. f \in Wishes(sim, "Buy")
  <2>1. \A i \in PlSyms : f[i] > 0 => acct.pos[i] >= 0
    BY <1>1, <1>4, <1>6
  <2> QED  BY <1>6, <1>7, <2>1 DEF Wishes
<1>9. Trial(sim, "Buy", f, n, bought)
  <2>1. "Buy" \in {"Buy", "Sell"}
    OBVIOUS
  <2> QED  BY <1>3, <1>8, <2>1, TrialEnds
<1> HIDE DEF bought, n
<1>10. /\ b \in [PlSyms -> Nat] /\ \A i \in PlSyms : b[i] = 0 \/ b[i] = f[i]
       /\ bought.sim \in PlAccount /\ bought.sim.pos = Then(sim.pos, "Buy", b)
       /\ b # NoOrders => gross(bought.sim) <= PlMaxGross
  BY <1>2, <1>9 DEF Trial
<1>11. \A i \in PlSyms : acct.pos[i] < 0 => b[i] = 0
  BY <1>4, <1>6, <1>10
<1>12. CountersFit(acct, b)
  <2>1. PICK c \in Nat, t \in Nat, ao \in Nat, at \in Nat, so \in Nat, st \in Nat :
          /\ c = Cardinality(Ordered(b)) /\ t = PlTotal(Notional(b)) /\ ao = acct.orders /\ at = acct.turnover
          /\ so = sim.orders /\ st = sim.turnover
    <3>1. Cardinality(Ordered(b)) \in Nat /\ PlTotal(Notional(b)) \in Nat
      BY <1>10, OrdersFacts
    <3>2. sim.orders \in Nat /\ sim.turnover \in Nat
      BY <1>3, PlFacts DEF PlAccount
    <3> QED  BY <1>1, <3>1, <3>2, Zenon
  <2>2. so + c <= PlMaxOrders /\ st + t <= PlMaxTurnover
    <3>1. bought.sim.orders = so + c /\ bought.sim.turnover = st + t
      BY <1>2, <1>9, <2>1 DEF Trial
    <3>2. bought.sim.orders <= PlMaxOrders /\ bought.sim.turnover <= PlMaxTurnover
      BY <1>10, PlFacts DEF PlAccount
    <3> QED  BY <3>1, <3>2
  <2>3. so >= ao /\ st >= at
    BY <1>3, <2>1
  <2>4. ao + c <= PlMaxOrders /\ at + t <= PlMaxTurnover
    BY <2>2, <2>3, PlFacts
  <2> QED  BY <2>1, <2>4 DEF CountersFit
<1>13. b # NoOrders => TotalCost(b) <= available
  <2>1. SUFFICES ASSUME b # NoOrders PROVE TotalCost(b) <= available
    OBVIOUS
  <2>2. PICK i \in PlSyms : b[i] > 0
    BY <1>10, <2>1, OrdersFacts DEF Ordered
  <2>3. TotalCost(f) <= available
    BY <1>6, <1>10, <2>2
  <2>4. TotalCost(b) <= TotalCost(f)
    <3> DEFINE x == [j \in PlSyms |-> Cost(j, b[j])]
               y == [j \in PlSyms |-> Cost(j, f[j])]
    <3>1. \A j \in PlSyms : x[j] \in Int /\ y[j] \in Int /\ x[j] <= y[j]
      <4> SUFFICES ASSUME NEW j \in PlSyms PROVE x[j] \in Int /\ y[j] \in Int /\ x[j] <= y[j]
        OBVIOUS
      <4>1. b[j] \in 0..f[j] /\ f[j] \in Nat
        BY <1>6, <1>10
      <4>2. Cost(j, b[j]) \in Nat /\ Cost(j, f[j]) \in Nat /\ Cost(j, b[j]) <= Cost(j, f[j])
        BY <4>1, CostFacts
      <4> QED  BY <4>2
    <3> HIDE DEF x, y
    <3>2. SumFunctionOnSet(x, PlSyms) <= SumFunctionOnSet(y, PlSyms)
      BY <3>1, PlFacts, SumOrdered
    <3> QED  BY <3>2 DEF TotalCost, PlTotal, x, y
  <2>5. TotalCost(b) \in Int /\ TotalCost(f) \in Int
    BY <1>6, <1>10, TotalFacts
  <2> QED  BY <1>5, <2>3, <2>4, <2>5
<1>14. ASSUME ~credit, b # NoOrders
       PROVE  TotalCost(b) <= acct.cash - PlReserve
  <2>1. TotalCost(b) \in Int
    BY <1>10, TotalFacts
  <2>2. PICK r \in Int, c \in Int : r = PlReserve /\ c = acct.cash
    BY <1>1, PlFacts
  <2> QED  BY <1>5, <1>13, <1>14, <2>1, <2>2
<1>15. ASSUME Settled(acct.pos, acct.orders, acct.turnover), b # NoOrders
       PROVE  gross([pos |-> Then(acct.pos, "Buy", b)]) <= PlMaxGross
  <2>1. sim.pos = acct.pos
    <3>1. \A i \in PlSyms : acct.pos[i] + Signed("Sell", NoOrders[i]) = acct.pos[i]
      BY <1>1 DEF Signed, NoOrders
    <3>2. sim.pos = [i \in PlSyms |-> acct.pos[i] + Signed("Sell", NoOrders[i])]
      BY <1>3, <1>15 DEF Then
    <3>3. sim.pos = [i \in PlSyms |-> acct.pos[i]]
      BY <3>1, <3>2
    <3> QED  BY <1>1, <3>3
  <2>2. bought.sim.pos = [pos |-> Then(acct.pos, "Buy", b)].pos
    BY <1>10, <2>1
  <2>3. gross(bought.sim) = gross([pos |-> Then(acct.pos, "Buy", b)])
    BY <2>2 DEF gross, PlValue
  <2> QED  BY <1>10, <1>15, <2>3
<1> QED  BY <1>10, <1>11, <1>12, <1>14, <1>15

-----------------------------------------------------------------------------
(* The invariant of the two passes. *)

PassesApart ==
    /\ plPhase \in {"plan", "reread", "done"} => plOrders = NoOrders
    /\ plBought => plPhase \in {"buys", "done"}

PositionsKept ==
    \A i \in PlSyms :
        IF plStart[i] < 0 THEN plAcct.pos[i] = plStart[i] /\ plOrders[i] = 0
        ELSE plAcct.pos[i] >= 0 /\ (plPhase = "sells" => plOrders[i] <= plAcct.pos[i])

\* A buy executed, or one is to be sent.
Buying == plBought \/ (plPhase = "buys" /\ plOrders # NoOrders)

ReserveCovered == Buying => TotalCost(plOrders) <= plAcct.cash - PlReserve

SellsSettle ==
    plPhase \in {"sells", "reread"} /\ ~plFailed =>
        Settled(Then(plAcct.pos, "Sell", plOrders), plAcct.orders + Cardinality(Ordered(plOrders)),
                plAcct.turnover + PlTotal(Notional(plOrders)))

GrossCovered == Buying /\ ~plFailed => gross([pos |-> Then(plAcct.pos, "Buy", plOrders)]) <= PlMaxGross

PlInv ==
    /\ PlTypeOK /\ CountersFit(plAcct, plOrders) /\ PassesApart /\ PositionsKept
    /\ ReserveCovered /\ SellsSettle /\ GrossCovered

\* Nothing left to execute changes nothing.
LEMMA ThenNothing ==
    ASSUME NEW pos \in [PlSyms -> Int], NEW side
    PROVE  Then(pos, side, NoOrders) = pos
<1>1. \A i \in PlSyms : pos[i] + Signed(side, NoOrders[i]) = pos[i]
  BY DEF Signed, NoOrders
<1>2. Then(pos, side, NoOrders) = [i \in PlSyms |-> pos[i]]
  BY <1>1 DEF Then
<1> QED  BY <1>2

LEMMA PlInitInv == PlInit => PlInv
<1> SUFFICES ASSUME PlInit PROVE PlInv
  OBVIOUS
<1>1. plTarget \in [PlSyms -> Nat] /\ plStart \in [PlSyms -> Int]
  <2>1. \A h \in PlHeld \cup {-h : h \in PlShort} : h \in Int
    BY PlanParameters
  <2>2. PlTargets \subseteq Nat
    BY PlanParameters
  <2> QED  BY <2>1, <2>2 DEF PlInit
<1>2. PICK cash \in PlCash : plAcct = [pos |-> plStart, cash |-> cash, orders |-> 0, turnover |-> 0]
  BY DEF PlInit
<1>3. cash \in Int /\ 0 \in 0..PlMaxOrders /\ 0 \in 0..PlMaxTurnover
  BY PlanParameters
<1>4. plAcct \in PlAccount /\ plAcct.pos = plStart /\ plAcct.orders = 0 /\ plAcct.turnover = 0
  BY <1>1, <1>2, <1>3 DEF PlAccount
<1>5. /\ plPhase = "plan" /\ plOrders = NoOrders /\ plPlanned = FALSE
      /\ plFailed = FALSE /\ plBought = FALSE
  BY DEF PlInit
<1>6. /\ NoOrders \in [PlSyms -> Nat] /\ \A i \in PlSyms : NoOrders[i] = 0
      /\ Cardinality(Ordered(NoOrders)) = 0 /\ PlTotal(Notional(NoOrders)) = 0
  <2>1. NoOrders \in [PlSyms -> Nat] /\ \A i \in PlSyms : NoOrders[i] = 0
    BY DEF NoOrders
  <2> QED  BY <2>1, OrdersFacts
<1>7. PlTypeOK
  BY <1>1, <1>4, <1>5, <1>6 DEF PlTypeOK
<1>8. CountersFit(plAcct, plOrders)
  BY <1>4, <1>5, <1>6, PlFacts DEF CountersFit
<1>9. PositionsKept
  <2>1. \A i \in PlSyms : plStart[i] \in Int
    BY <1>1
  <2> QED  BY <1>4, <1>5, <1>6, <2>1 DEF PositionsKept
<1> QED  BY <1>5, <1>7, <1>8, <1>9
         DEF PlInv, PassesApart, ReserveCovered, SellsSettle, GrossCovered, Buying

LEMMA FirstPlanInv == PlInv /\ FirstPlan => PlInv'
<1> SUFFICES ASSUME PlInv, FirstPlan PROVE PlInv'
  OBVIOUS
<1> DEFINE sold == Tried(plAcct, "Sell", Candidates(plAcct, "Sell"))
<1>1. /\ plPhase = "plan" /\ plPhase' = "sells" /\ plOrders' = sold.orders /\ plPlanned' \in BOOLEAN
      /\ UNCHANGED <<plTarget, plStart, plAcct, plFailed, plBought>>
  BY DEF FirstPlan, plan
<1>2. plAcct \in PlAccount /\ plTarget \in [PlSyms -> Nat] /\ plAcct.pos \in [PlSyms -> Int]
  BY DEF PlInv, PlTypeOK, PlAccount
<1>3. /\ sold.orders \in [PlSyms -> Nat]
      /\ \A i \in PlSyms : /\ plAcct.pos[i] < 0 => sold.orders[i] = 0
                           /\ sold.orders[i] > 0 => sold.orders[i] <= plAcct.pos[i]
      /\ CountersFit(plAcct, sold.orders)
      /\ Settled(sold.sim.pos, sold.sim.orders, sold.sim.turnover)
      /\ sold.sim.pos = Then(plAcct.pos, "Sell", sold.orders)
      /\ sold.sim.orders = plAcct.orders + Cardinality(Ordered(sold.orders))
      /\ sold.sim.turnover = plAcct.turnover + PlTotal(Notional(sold.orders))
  BY <1>2, PlannedSells
<1> HIDE DEF sold
<1>4. ~plBought
  BY <1>1 DEF PlInv, PassesApart
<1>5. PlTypeOK'
  BY <1>1, <1>3 DEF PlInv, PlTypeOK
<1>6. CountersFit(plAcct, plOrders)'
  BY <1>1, <1>3 DEF CountersFit
<1>7. PositionsKept'
  <2> SUFFICES ASSUME NEW i \in PlSyms
               PROVE  IF plStart[i] < 0 THEN plAcct.pos[i] = plStart[i] /\ plOrders'[i] = 0
                      ELSE plAcct.pos[i] >= 0 /\ plOrders'[i] <= plAcct.pos[i]
    BY <1>1 DEF PositionsKept
  <2>1. IF plStart[i] < 0 THEN plAcct.pos[i] = plStart[i] ELSE plAcct.pos[i] >= 0
    BY DEF PlInv, PositionsKept
  <2>2. sold.orders[i] \in Nat /\ plAcct.pos[i] \in Int
    BY <1>2, <1>3
  <2> QED  BY <1>1, <1>3, <2>1, <2>2
<1>8. SellsSettle'
  <2>1. Settled(Then(plAcct.pos, "Sell", sold.orders), plAcct.orders + Cardinality(Ordered(sold.orders)),
                plAcct.turnover + PlTotal(Notional(sold.orders)))
    BY <1>3, Zenon
  <2>2. (Settled(Then(plAcct.pos, "Sell", plOrders), plAcct.orders + Cardinality(Ordered(plOrders)),
                 plAcct.turnover + PlTotal(Notional(plOrders))))'
    <3>1. plAcct' = plAcct /\ plTarget' = plTarget
      BY <1>1
    <3> QED  BY <1>1, <2>1, <3>1 DEF Settled, Then, Notional, Ordered, Candidate, PlValue
  <2> QED  BY <2>2 DEF SellsSettle
<1> QED  BY <1>1, <1>4, <1>5, <1>6, <1>7, <1>8
         DEF PlInv, PassesApart, ReserveCovered, GrossCovered, Buying

LEMMA ReplannedInv == PlInv /\ Replanned => PlInv'
<1> SUFFICES ASSUME PlInv, Replanned PROVE PlInv'
  OBVIOUS
<1> DEFINE b == plan(plAcct, FALSE).buys
<1>1. /\ plPhase = "reread" /\ plPhase' = "buys" /\ plOrders' = b
      /\ UNCHANGED <<plTarget, plStart, plAcct, plPlanned, plFailed, plBought>>
  BY DEF Replanned
<1>2. plAcct \in PlAccount /\ plTarget \in [PlSyms -> Nat] /\ plAcct.pos \in [PlSyms -> Int] /\ plOrders = NoOrders
  BY <1>1 DEF PlInv, PlTypeOK, PlAccount, PassesApart
<1>3. /\ b \in [PlSyms -> Nat]
      /\ \A i \in PlSyms : plAcct.pos[i] < 0 => b[i] = 0
      /\ CountersFit(plAcct, b)
      /\ b # NoOrders => TotalCost(b) <= plAcct.cash - PlReserve
      /\ Settled(plAcct.pos, plAcct.orders, plAcct.turnover) /\ b # NoOrders =>
             gross([pos |-> Then(plAcct.pos, "Buy", b)]) <= PlMaxGross
  <2>1. FALSE \in BOOLEAN
    OBVIOUS
  <2> QED  BY <1>2, <2>1, PlannedBuys
<1> HIDE DEF b
<1>4. ~plBought
  BY <1>1 DEF PlInv, PassesApart
<1>5. ~plFailed => Settled(plAcct.pos, plAcct.orders, plAcct.turnover)
  <2>1. Then(plAcct.pos, "Sell", NoOrders) = plAcct.pos
    BY <1>2, ThenNothing
  <2>2. plAcct.orders + Cardinality(Ordered(NoOrders)) = plAcct.orders
    <3>1. NoOrders \in [PlSyms -> Nat] /\ plAcct.orders \in Int
      BY <1>2, PlFacts DEF NoOrders, PlAccount
    <3>2. Cardinality(Ordered(NoOrders)) = 0
      BY <3>1, OrdersFacts
    <3> QED  BY <3>1, <3>2
  <2>3. plAcct.turnover + PlTotal(Notional(NoOrders)) = plAcct.turnover
    <3>1. NoOrders \in [PlSyms -> Nat] /\ plAcct.turnover \in Int
      BY <1>2, PlFacts DEF NoOrders, PlAccount
    <3>2. PlTotal(Notional(NoOrders)) = 0
      BY <3>1, OrdersFacts
    <3> QED  BY <3>1, <3>2
  <2> QED  BY <1>1, <1>2, <2>1, <2>2, <2>3 DEF PlInv, SellsSettle
<1>6. PlTypeOK'
  BY <1>1, <1>3 DEF PlInv, PlTypeOK
<1>7. CountersFit(plAcct, plOrders)'
  BY <1>1, <1>3 DEF CountersFit
<1>8. PositionsKept'
  <2> SUFFICES ASSUME NEW i \in PlSyms
               PROVE  IF plStart[i] < 0 THEN plAcct.pos[i] = plStart[i] /\ plOrders'[i] = 0
                      ELSE plAcct.pos[i] >= 0
    BY <1>1 DEF PositionsKept
  <2>1. IF plStart[i] < 0 THEN plAcct.pos[i] = plStart[i] ELSE plAcct.pos[i] >= 0
    BY DEF PlInv, PositionsKept
  <2> QED  BY <1>1, <1>3, <2>1
<1>9. ReserveCovered'
  BY <1>1, <1>3, <1>4 DEF ReserveCovered, Buying
<1>10. GrossCovered'
  BY <1>1, <1>3, <1>4, <1>5 DEF GrossCovered, Buying
<1> QED  BY <1>1, <1>4, <1>6, <1>7, <1>8, <1>9, <1>10 DEF PlInv, PassesApart, SellsSettle

\* What the execution of the next order does: n of the q units of instrument i.
LEMMA ExecutedStep ==
    ASSUME PlInv, ExecuteOrder
    PROVE  \E i \in PlSyms, q \in Nat, n \in Nat, side \in {"Buy", "Sell"} :
              /\ plPhase \in {"sells", "buys"} /\ side = (IF plPhase = "sells" THEN "Sell" ELSE "Buy")
              /\ q = plOrders[i] /\ q > 0 /\ n <= q
              /\ plOrders' = [plOrders EXCEPT ![i] = 0]
              /\ plAcct'.pos = [plAcct.pos EXCEPT ![i] = plAcct.pos[i] + Signed(side, n)]
              /\ plAcct'.cash = plAcct.cash - Signed(side, n * PlPrices[i]) - fee_for(n * PlPrices[i])
              /\ plAcct'.orders = plAcct.orders + 1
              /\ plAcct'.turnover = plAcct.turnover + q * PlPrices[i]
              /\ plAcct' = [pos |-> plAcct'.pos, cash |-> plAcct'.cash, orders |-> plAcct'.orders,
                            turnover |-> plAcct'.turnover]
              /\ plAcct'.pos \in [PlSyms -> Int] /\ plAcct'.cash \in Int
              /\ plFailed' = (plFailed \/ n < q)
              /\ plBought' = (plBought \/ (n > 0 /\ side = "Buy"))
              /\ UNCHANGED <<plTarget, plStart, plPhase, plPlanned>>
<1> DEFINE i == Min(Ordered(plOrders))
           side == IF plPhase = "sells" THEN "Sell" ELSE "Buy"
<1>1. plOrders \in [PlSyms -> Nat] /\ plAcct \in PlSim
  BY PlFacts DEF PlInv, PlTypeOK, PlAccount, PlSim
<1>2. i \in PlSyms /\ plOrders[i] > 0
  <2>1. Ordered(plOrders) \in SUBSET Nat
    BY PlFacts DEF Ordered, PlSyms
  <2>2. Ordered(plOrders) # {}
    BY <1>1, OrdersFacts DEF ExecuteOrder
  <2>3. i \in Ordered(plOrders)
    BY <2>1, <2>2, MinInSet
  <2> HIDE DEF i
  <2> QED  BY <2>3 DEF Ordered
<1>3. PICK n \in 0..plOrders[i] :
          /\ plAcct' = [Applied(plAcct, side, i, n) EXCEPT
                          !.turnover = plAcct.turnover + plOrders[i] * PlPrices[i]]
          /\ plFailed' = (plFailed \/ n < plOrders[i])
          /\ plBought' = (plBought \/ (n > 0 /\ side = "Buy"))
  BY DEF ExecuteOrder
<1>4. /\ plPhase \in {"sells", "buys"} /\ plOrders' = [plOrders EXCEPT ![i] = 0]
      /\ UNCHANGED <<plTarget, plStart, plPhase, plPlanned>>
  BY DEF ExecuteOrder
<1>5. n \in Nat /\ n <= plOrders[i] /\ plOrders[i] \in Nat /\ side \in {"Buy", "Sell"}
  BY <1>1, <1>2, <1>3
<1> HIDE DEF i, side
<1> DEFINE a == Applied(plAcct, side, i, n)
<1>6. /\ a \in PlSim
      /\ a.pos = [plAcct.pos EXCEPT ![i] = plAcct.pos[i] + Signed(side, n)]
      /\ a.cash = plAcct.cash - Signed(side, n * PlPrices[i]) - fee_for(n * PlPrices[i])
      /\ a.orders = plAcct.orders + 1
  BY <1>1, <1>2, <1>5, AppliedFacts
<1> HIDE DEF a
<1>7. PICK t : t = plAcct.turnover + plOrders[i] * PlPrices[i]
  OBVIOUS
<1>8. plAcct' = [a EXCEPT !.turnover = t]
  BY <1>3, <1>7 DEF a
<1>9. /\ plAcct'.pos = a.pos /\ plAcct'.cash = a.cash /\ plAcct'.orders = a.orders /\ plAcct'.turnover = t
      /\ plAcct' = [pos |-> plAcct'.pos, cash |-> plAcct'.cash, orders |-> plAcct'.orders,
                    turnover |-> plAcct'.turnover]
      /\ a.pos \in [PlSyms -> Int] /\ a.cash \in Int
  BY <1>6, <1>8 DEF PlSim
<1>10. /\ plAcct'.pos = [plAcct.pos EXCEPT ![i] = plAcct.pos[i] + Signed(side, n)]
       /\ plAcct'.cash = plAcct.cash - Signed(side, n * PlPrices[i]) - fee_for(n * PlPrices[i])
       /\ plAcct'.orders = plAcct.orders + 1
       /\ plAcct'.turnover = plAcct.turnover + plOrders[i] * PlPrices[i]
  BY <1>6, <1>7, <1>9
<1>11. side = (IF plPhase = "sells" THEN "Sell" ELSE "Buy")
  BY DEF side
<1>12. plAcct'.pos \in [PlSyms -> Int] /\ plAcct'.cash \in Int
  BY <1>9
<1>13. PICK q \in Nat : q = plOrders[i]
  BY <1>5
<1>14. q > 0 /\ n <= q
  BY <1>2, <1>5, <1>13
<1> QED  BY <1>2, <1>3, <1>4, <1>5, <1>9, <1>10, <1>11, <1>12, <1>13, <1>14, Zenon

LEMMA ExecuteInv == PlInv /\ ExecuteOrder => PlInv'
<1> SUFFICES ASSUME PlInv, ExecuteOrder PROVE PlInv'
  OBVIOUS
<1>1. PICK i \in PlSyms, q \in Nat, n \in Nat, side \in {"Buy", "Sell"} :
              /\ plPhase \in {"sells", "buys"} /\ side = (IF plPhase = "sells" THEN "Sell" ELSE "Buy")
              /\ q = plOrders[i] /\ q > 0 /\ n <= q
              /\ plOrders' = [plOrders EXCEPT ![i] = 0]
              /\ plAcct'.pos = [plAcct.pos EXCEPT ![i] = plAcct.pos[i] + Signed(side, n)]
              /\ plAcct'.cash = plAcct.cash - Signed(side, n * PlPrices[i]) - fee_for(n * PlPrices[i])
              /\ plAcct'.orders = plAcct.orders + 1
              /\ plAcct'.turnover = plAcct.turnover + q * PlPrices[i]
              /\ plAcct' = [pos |-> plAcct'.pos, cash |-> plAcct'.cash, orders |-> plAcct'.orders,
                            turnover |-> plAcct'.turnover]
              /\ plAcct'.pos \in [PlSyms -> Int] /\ plAcct'.cash \in Int
              /\ plFailed' = (plFailed \/ n < q)
              /\ plBought' = (plBought \/ (n > 0 /\ side = "Buy"))
              /\ UNCHANGED <<plTarget, plStart, plPhase, plPlanned>>
  BY ExecutedStep
<1>2. /\ plOrders \in [PlSyms -> Nat] /\ plAcct \in PlAccount
      /\ plAcct.pos \in [PlSyms -> Int] /\ plAcct.cash \in Int
      /\ plAcct.orders \in Nat /\ plAcct.turnover \in Nat
      /\ plFailed \in BOOLEAN /\ plBought \in BOOLEAN
  BY PlFacts DEF PlInv, PlTypeOK, PlAccount
<1>3. plOrders' \in [PlSyms -> Nat] /\ plOrders'[i] = 0 /\ \A j \in PlSyms : j # i => plOrders'[j] = plOrders[j]
  BY <1>1, <1>2
<1>4. /\ Cardinality(Ordered(plOrders)) = Cardinality(Ordered(plOrders')) + 1
      /\ PlTotal(Notional(plOrders)) = PlTotal(Notional(plOrders')) + q * PlPrices[i]
      /\ TotalCost(plOrders) = TotalCost(plOrders') + Cost(i, q)
  <2>1. plOrders \in [PlSyms -> Nat] /\ i \in PlSyms /\ plOrders[i] > 0 /\ plOrders' = [plOrders EXCEPT ![i] = 0]
    BY <1>1, <1>2
  <2>2. /\ Cardinality(Ordered(plOrders)) = Cardinality(Ordered(plOrders')) + 1
        /\ PlTotal(Notional(plOrders)) = PlTotal(Notional(plOrders')) + plOrders[i] * PlPrices[i]
        /\ TotalCost(plOrders) = TotalCost(plOrders') + Cost(i, plOrders[i])
    BY ONLY <2>1, OneMore
  <2> QED  BY <1>1, <2>2
<1>5. PICK c \in Nat, t \in Nat, k \in Nat :
        c = Cardinality(Ordered(plOrders')) /\ t = PlTotal(Notional(plOrders')) /\ k = TotalCost(plOrders')
  BY <1>3, OrdersFacts, TotalFacts
<1>6. PICK v \in Nat, w \in Nat, x \in Nat, y \in Nat :
        /\ v = q * PlPrices[i] /\ w = n * PlPrices[i] /\ x = Cost(i, q) /\ y = Cost(i, n)
        /\ y <= x /\ y >= w
  <2>1. n \in 0..q
    BY <1>1
  <2> QED  BY <2>1, CostFacts
<1>7. PICK fee \in Nat : fee = fee_for(w) /\ y = w + fee
  BY <1>6, FeeFacts DEF Cost
<1>8. PICK ao \in Nat, at \in Nat, ac \in Int : ao = plAcct.orders /\ at = plAcct.turnover /\ ac = plAcct.cash
  BY <1>2
<1>9. ao + (c + 1) <= PlMaxOrders /\ at + (t + v) <= PlMaxTurnover
  BY <1>4, <1>5, <1>6, <1>8 DEF PlInv, CountersFit
<1>10. plAcct'.orders = ao + 1 /\ plAcct'.turnover = at + v
  BY <1>1, <1>6, <1>8
<1>11. plAcct' \in PlAccount
  <2>1. ao + 1 \in 0..PlMaxOrders /\ at + v \in 0..PlMaxTurnover
    BY <1>9, PlFacts
  <2> QED  BY <1>1, <1>10, <2>1 DEF PlAccount
<1>12. PlTypeOK'
  <2>1. plFailed' \in BOOLEAN /\ plBought' \in BOOLEAN
    BY <1>1, <1>2
  <2> QED  BY <1>1, <1>3, <1>11, <2>1 DEF PlInv, PlTypeOK
<1>13. CountersFit(plAcct, plOrders)'
  <2>1. (ao + 1) + c <= PlMaxOrders /\ (at + v) + t <= PlMaxTurnover
    BY <1>9, PlFacts
  <2> QED  BY <1>5, <1>10, <2>1 DEF CountersFit
<1>14. PassesApart'
  <2>1. plPhase' \in {"sells", "buys"} /\ (plBought' => plPhase' = "buys")
    BY <1>1 DEF PlInv, PassesApart
  <2> QED  BY <2>1 DEF PassesApart
<1>15. PositionsKept'
  <2> SUFFICES ASSUME NEW j \in PlSyms
               PROVE  IF plStart[j] < 0 THEN plAcct'.pos[j] = plStart[j] /\ plOrders'[j] = 0
                      ELSE plAcct'.pos[j] >= 0 /\ (plPhase = "sells" => plOrders'[j] <= plAcct'.pos[j])
    BY <1>1 DEF PositionsKept
  <2>1. IF plStart[j] < 0 THEN plAcct.pos[j] = plStart[j] /\ plOrders[j] = 0
        ELSE plAcct.pos[j] >= 0 /\ (plPhase = "sells" => plOrders[j] <= plAcct.pos[j])
    BY DEF PlInv, PositionsKept
  <2>2. CASE j # i
    BY <1>1, <1>2, <1>3, <2>1, <2>2
  <2>3. CASE j = i
    <3>1. PICK h \in Int : h = plAcct.pos[i]
      BY <1>2
    <3>2. plAcct'.pos[i] = h + Signed(side, n)
      BY <1>1, <1>2, <3>1
    <3>3. ~(plStart[i] < 0) /\ h >= 0 /\ (side = "Sell" => q <= h)
      BY <1>1, <2>1, <2>3, <3>1
    <3>4. h + Signed(side, n) >= 0
      BY <1>1, <3>3 DEF Signed
    <3> QED  BY <1>3, <2>3, <3>2, <3>3, <3>4
  <2> QED  BY <2>2, <2>3
<1>16. ReserveCovered'
  <2>1. SUFFICES ASSUME Buying' PROVE k <= plAcct'.cash - PlReserve
    BY <1>5 DEF ReserveCovered
  <2>2. side = "Buy" /\ Buying
    <3>1. plPhase = "buys"
      BY <1>1, <2>1 DEF Buying, PlInv, PassesApart
    <3>2. plOrders # NoOrders
      BY <1>1 DEF NoOrders
    <3> QED  BY <1>1, <3>1, <3>2 DEF Buying
  <2>3. k + x <= ac - PlReserve
    BY <1>4, <1>5, <1>6, <1>8, <2>2 DEF PlInv, ReserveCovered
  <2>4. plAcct'.cash = ac - w - fee
    BY <1>1, <1>6, <1>7, <1>8, <2>2 DEF Signed
  <2>5. PICK r \in Int : r = PlReserve
    BY PlFacts
  <2>6. k <= (ac - w - fee) - r
    BY <1>6, <1>7, <2>3, <2>5
  <2> QED  BY <2>4, <2>5, <2>6
<1>17. ASSUME ~plFailed'
       PROVE  Then(plAcct'.pos, side, plOrders') = Then(plAcct.pos, side, plOrders)
  <2>1. n = q
    <3>1. ~(n < q)
      BY <1>1, <1>17, Zenon
    <3> QED  BY <1>1, <3>1
  <2>2. ASSUME NEW j \in PlSyms
        PROVE  plAcct'.pos[j] + Signed(side, plOrders'[j]) = plAcct.pos[j] + Signed(side, plOrders[j])
    <3>1. CASE j # i
      BY <1>1, <1>2, <1>3, <3>1
    <3>2. CASE j = i
      <4>1. PICK h \in Int : h = plAcct.pos[i]
        BY <1>2
      <4>2. plAcct'.pos[i] = h + Signed(side, q)
        BY <1>1, <1>2, <2>1, <4>1
      <4>3. PICK z \in Int : z = Signed(side, q)
        BY DEF Signed
      <4>4. (h + z) + Signed(side, 0) = h + z
        BY DEF Signed
      <4> QED  BY <1>1, <1>3, <3>2, <4>1, <4>2, <4>3, <4>4
    <3> QED  BY <3>1, <3>2
  <2> QED  BY <2>2 DEF Then
<1>18. SellsSettle'
  <2>1. SUFFICES ASSUME plPhase' = "sells", ~plFailed'
                 PROVE  (Settled(Then(plAcct.pos, "Sell", plOrders), plAcct.orders + Cardinality(Ordered(plOrders)),
                                 plAcct.turnover + PlTotal(Notional(plOrders))))'
    BY <1>1 DEF SellsSettle
  <2>2. plPhase = "sells" /\ side = "Sell" /\ ~plFailed /\ plTarget' = plTarget
    BY <1>1, <2>1
  <2>3. Then(plAcct'.pos, "Sell", plOrders') = Then(plAcct.pos, "Sell", plOrders)
    BY <1>17, <2>1, <2>2
  <2>4. plAcct'.orders + Cardinality(Ordered(plOrders')) = plAcct.orders + Cardinality(Ordered(plOrders))
    <3>1. (ao + 1) + c = ao + (c + 1)
      OBVIOUS
    <3> QED  BY <1>4, <1>5, <1>8, <1>10, <3>1
  <2>5. plAcct'.turnover + PlTotal(Notional(plOrders')) = plAcct.turnover + PlTotal(Notional(plOrders))
    <3>1. (at + v) + t = at + (t + v)
      OBVIOUS
    <3> QED  BY <1>4, <1>5, <1>6, <1>8, <1>10, <3>1
  <2> DEFINE P == Then(plAcct.pos, "Sell", plOrders)
             O == plAcct.orders + Cardinality(Ordered(plOrders))
             T == plAcct.turnover + PlTotal(Notional(plOrders))
  <2>6. Settled(P, O, T)
    BY <2>2 DEF PlInv, SellsSettle
  <2>7. P' = P /\ O' = O /\ T' = T
    <3>1. (Ordered(plOrders))' = Ordered(plOrders') /\ (Notional(plOrders))' = Notional(plOrders')
      BY DEF Ordered, Notional
    <3>2. (Then(plAcct.pos, "Sell", plOrders))' = Then(plAcct'.pos, "Sell", plOrders')
      BY DEF Then
    <3> QED  BY <2>3, <2>4, <2>5, <3>1, <3>2 DEF PlTotal
  <2> HIDE DEF P, O, T
  <2>8. (Settled(P, O, T))'
    <3>1. \A j \in PlSyms : (Candidate([pos |-> P], "Sell", j))' = Candidate([pos |-> P], "Sell", j)
      BY <2>2, <2>7 DEF Candidate, PlValue
    <3> QED  BY <2>6, <2>7, <3>1 DEF Settled
  <2> QED  BY <2>8 DEF P, O, T
<1>19. GrossCovered'
  <2>1. SUFFICES ASSUME Buying', ~plFailed'
                 PROVE  (gross([pos |-> Then(plAcct.pos, "Buy", plOrders)]) <= PlMaxGross)'
    BY DEF GrossCovered
  <2>2. side = "Buy" /\ Buying /\ ~plFailed
    <3>1. plPhase = "buys"
      BY <1>1, <2>1 DEF Buying, PlInv, PassesApart
    <3>2. plOrders # NoOrders
      BY <1>1 DEF NoOrders
    <3> QED  BY <1>1, <2>1, <3>1, <3>2 DEF Buying
  <2>3. Then(plAcct'.pos, "Buy", plOrders') = Then(plAcct.pos, "Buy", plOrders)
    BY <1>17, <2>1, <2>2
  <2>4. gross([pos |-> Then(plAcct.pos, "Buy", plOrders)]) <= PlMaxGross
    BY <2>2 DEF PlInv, GrossCovered
  <2>5. (Then(plAcct.pos, "Buy", plOrders))' = Then(plAcct'.pos, "Buy", plOrders')
    BY DEF Then
  <2> QED  BY <2>3, <2>4, <2>5 DEF gross, PlValue, PlTotal, PlAbs
<1> QED  BY <1>12, <1>13, <1>14, <1>15, <1>16, <1>18, <1>19 DEF PlInv

LEMMA PhaseInv == PlInv /\ (SellsDone \/ BuysDone \/ UNCHANGED plVars) => PlInv'
<1> SUFFICES ASSUME PlInv, SellsDone \/ BuysDone \/ UNCHANGED plVars PROVE PlInv'
  OBVIOUS
<1>1. CASE SellsDone
  <2>1. /\ plPhase = "sells" /\ plPhase' \in {"reread", "done"} /\ plOrders = NoOrders
        /\ UNCHANGED <<plTarget, plStart, plAcct, plOrders, plPlanned, plFailed, plBought>>
    BY <1>1 DEF SellsDone
  <2>2. ~plBought
    BY <2>1 DEF PlInv, PassesApart
  <2>3. PlTypeOK' /\ CountersFit(plAcct, plOrders)' /\ PassesApart' /\ PositionsKept' /\ ReserveCovered' /\ GrossCovered'
    BY <2>1, <2>2 DEF PlInv, PlTypeOK, CountersFit, PassesApart, PositionsKept, ReserveCovered, GrossCovered, Buying
  <2>4. SellsSettle'
    BY <2>1 DEF PlInv, SellsSettle, Settled, Candidate, PlValue, PlAbs
  <2> QED  BY <2>3, <2>4 DEF PlInv
<1>2. CASE BuysDone
  <2>1. /\ plPhase = "buys" /\ plPhase' = "done" /\ plOrders = NoOrders
        /\ UNCHANGED <<plTarget, plStart, plAcct, plOrders, plPlanned, plFailed, plBought>>
    BY <1>2 DEF BuysDone
  <2>2. Buying' => Buying
    BY <2>1 DEF Buying
  <2>3. ReserveCovered' /\ GrossCovered' /\ SellsSettle'
    BY <2>1, <2>2 DEF PlInv, ReserveCovered, GrossCovered, SellsSettle
  <2>4. PlTypeOK' /\ CountersFit(plAcct, plOrders)' /\ PassesApart' /\ PositionsKept'
    BY <2>1 DEF PlInv, PlTypeOK, CountersFit, PassesApart, PositionsKept
  <2> QED  BY <2>3, <2>4 DEF PlInv
<1>3. CASE UNCHANGED plVars
  BY <1>3 DEF plVars, PlInv, PlTypeOK, CountersFit, PassesApart, PositionsKept, ReserveCovered, SellsSettle,
              GrossCovered, Buying, Settled, Candidate, PlValue, PlAbs
<1> QED  BY <1>1, <1>2, <1>3

\* The invariant holds in every reachable state of the planner's two passes.
LEMMA PlInvHolds == PlSpec => []PlInv
<1>1. PlInv /\ [PlNext]_plVars => PlInv'
  BY FirstPlanInv, ExecuteInv, ReplannedInv, PhaseInv DEF PlNext
<1> QED  BY <1>1, PlInitInv, PTL DEF PlSpec

\* The types, with both day counters within their limits, for every price list, fee,
\* cap and account.
THEOREM PlTypes == PlSpec => []PlTypeOK
<1>1. PlInv => PlTypeOK
  BY DEF PlInv
<1> QED  BY <1>1, PlInvHolds, PTL

\* Every buy leaves the cash reserve, no long turns short and no short is traded.
THEOREM PlannerKeepsReserve == PlSpec => []BuysKeepReserve
<1>1. PlInv => BuysKeepReserve
  <2> SUFFICES ASSUME PlInv PROVE BuysKeepReserve
    OBVIOUS
  <2>1. plBought => plAcct.cash >= PlReserve
    <3>1. PICK k \in Nat, c \in Int, r \in Int : k = TotalCost(plOrders) /\ c = plAcct.cash /\ r = PlReserve
      BY TotalFacts, PlFacts DEF PlInv, PlTypeOK, PlAccount
    <3>2. plBought => k <= c - r
      BY <3>1 DEF PlInv, ReserveCovered, Buying
    <3> QED  BY <3>1, <3>2
  <2>2. \A i \in PlSyms : IF plStart[i] < 0 THEN plAcct.pos[i] = plStart[i] ELSE plAcct.pos[i] >= 0
    BY DEF PlInv, PositionsKept
  <2> QED  BY <2>1, <2>2 DEF BuysKeepReserve
<1> QED  BY <1>1, PlInvHolds, PTL

\* When every order executed, the account ends within the cap the guard checked on its
\* simulation.
THEOREM PlannerKeepsCaps == PlSpec => []CapsHoldWhenExecuted
<1>1. PlInv => CapsHoldWhenExecuted
  <2> SUFFICES ASSUME PlInv, plPhase = "done", plBought, ~plFailed PROVE gross(plAcct) <= PlMaxGross
    BY DEF CapsHoldWhenExecuted
  <2>1. plOrders = NoOrders /\ plAcct.pos \in [PlSyms -> Int]
    BY DEF PlInv, PassesApart, PlTypeOK, PlAccount
  <2>2. gross([pos |-> Then(plAcct.pos, "Buy", NoOrders)]) <= PlMaxGross
    BY <2>1 DEF PlInv, GrossCovered, Buying
  <2>3. Then(plAcct.pos, "Buy", NoOrders) = plAcct.pos
    BY <2>1, ThenNothing
  <2>4. gross([pos |-> plAcct.pos]) = gross(plAcct)
    BY DEF gross, PlValue
  <2> QED  BY <2>2, <2>3, <2>4
<1> QED  BY <1>1, PlInvHolds, PTL
=============================================================================
