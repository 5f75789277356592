----------------------------- MODULE SetLemmas -----------------------------
(***************************************************************************)
(* Facts about the operators on sets of numbers the modules are built      *)
(* from: the least and the greatest element, counts, and sums.             *)
(***************************************************************************)
EXTENDS Integers, FiniteSets, FiniteSetsExt, FiniteSetTheorems, WellFoundedInduction, TLAPS

\* A nonempty set of numbers has a least one (the order a look-up by tag adopts).
LEMMA MinInSet ==
    ASSUME NEW S \in SUBSET Nat, S # {}
    PROVE  Min(S) \in S
<1>1. PICK m \in S : \A y \in S : ~(<<y, m>> \in OpToRel(<, Nat))
  BY WFMin, NatLessThanWellFounded
<1>2. ASSUME NEW y \in S PROVE m =< y
  <2>1. y \in Nat /\ m \in Nat
    OBVIOUS
  <2>2. ~(y < m)
    BY <1>1, <2>1 DEF OpToRel
  <2> QED
    BY <2>1, <2>2
<1> QED
  BY <1>2 DEF Min

\* A nonempty bounded set of numbers has a greatest one (the deepest rung of the
\* drawdown ladder, the last finished slot, the newest alert of a batch).
LEMMA MaxOfSet ==
    ASSUME NEW n \in Nat, NEW S \in SUBSET (0..n), S # {}
    PROVE  Max(S) \in S /\ \A y \in S : Max(S) >= y
<1> DEFINE T == {n - x : x \in S}
<1>1. T \subseteq Nat /\ T # {}
  <2>1. PICK x \in S : TRUE
    OBVIOUS
  <2>2. n - x \in T
    OBVIOUS
  <2> QED
    BY <2>2
<1>2. PICK t \in T : \A u \in T : ~(<<u, t>> \in OpToRel(<, Nat))
  BY <1>1, WFMin, NatLessThanWellFounded
<1>3. PICK m \in S : t = n - m
  OBVIOUS
<1>4. ASSUME NEW y \in S PROVE m >= y
  <2>1. n - y \in T /\ n - y \in Nat /\ t \in Nat
    BY <1>1
  <2>2. ~(n - y < t)
    BY <1>2, <2>1 DEF OpToRel
  <2> QED
    BY <1>3, <2>2
<1> QED
  BY <1>4 DEF Max

LEMMA MaxInSet ==
    ASSUME NEW n \in Nat, NEW S \in SUBSET (1..n), S # {}
    PROVE  Max(S) \in S
<1>1. S \in SUBSET (0..n)
  OBVIOUS
<1> QED
  BY <1>1, MaxOfSet

\* What is left of a finite set without one of its subsets.
LEMMA CountWithout ==
    ASSUME NEW S, IsFiniteSet(S), NEW T \in SUBSET S
    PROVE  /\ IsFiniteSet(T) /\ IsFiniteSet(S \ T)
           /\ Cardinality(S) \in Nat /\ Cardinality(T) \in Nat
           /\ Cardinality(S \ T) = Cardinality(S) - Cardinality(T)
<1>1. S \cap T = T
  OBVIOUS
<1> QED
  BY <1>1, FS_Difference, FS_Subset, FS_CardinalityType

\* What two finite sets cover is at most their sum.
LEMMA CountCovered ==
    ASSUME NEW S, IsFiniteSet(S), NEW T, IsFiniteSet(T), NEW R \in SUBSET (S \cup T)
    PROVE  IsFiniteSet(R) /\ Cardinality(R) <= Cardinality(S) + Cardinality(T)
<1>1. /\ IsFiniteSet(S \cup T)
      /\ Cardinality(S \cup T) = Cardinality(S) + Cardinality(T) - Cardinality(S \cap T)
  BY FS_Union
<1>2. IsFiniteSet(S \cap T)
  BY FS_Subset
<1>3. IsFiniteSet(R) /\ Cardinality(R) <= Cardinality(S \cup T)
  BY <1>1, FS_Subset
<1>4. /\ Cardinality(S) \in Nat /\ Cardinality(T) \in Nat /\ Cardinality(S \cap T) \in Nat
      /\ Cardinality(R) \in Nat
  BY <1>2, <1>3, FS_CardinalityType
<1> QED
  BY <1>1, <1>3, <1>4

-----------------------------------------------------------------------------
(* Sums.  The sum of the community modules is a recursive function over the *)
(* subsets of a set: it exists, is unique, and does not depend on the order. *)

\* A smallest number of a set of numbers, the form of induction used below.
LEMMA Smallest ==
    ASSUME NEW B \in SUBSET Nat, B # {}
    PROVE  \E n \in B : \A k \in B : n <= k
<1>1. PICK m \in B : \A y \in B : ~(<<y, m>> \in OpToRel(<, Nat))
  BY WFMin, NatLessThanWellFounded
<1>2. ASSUME NEW y \in B PROVE m <= y
  <2>1. y \in Nat /\ m \in Nat
    OBVIOUS
  <2>2. ~(y < m)
    BY <1>1, <2>1 DEF OpToRel
  <2> QED
    BY <2>1, <2>2
<1> QED
  BY <1>2

Chosen(s) == CHOOSE x \in s : TRUE

LEMMA ChosenIn ==
    ASSUME NEW s, s # {}
    PROVE  Chosen(s) \in s
BY DEF Chosen

UnfoldsAt(g, f, s) == g[s] = IF s = {} THEN 0 ELSE f[Chosen(s)] + g[s \ {Chosen(s)}]

\* There is a function that follows the recursion on every subset of a finite set.
LEMMA SumExists ==
    ASSUME NEW S, IsFiniteSet(S), NEW f, \A x \in S : f[x] \in Int
    PROVE  \E g \in [SUBSET S -> Int] : \A s \in SUBSET S : UnfoldsAt(g, f, s)
<1> DEFINE Upto(n) == \E g \in [SUBSET S -> Int] : \A s \in SUBSET S : Cardinality(s) <= n => UnfoldsAt(g, f, s)
           B == {n \in Nat : ~Upto(n)}
<1>1. \A s \in SUBSET S : Cardinality(s) \in Nat /\ Cardinality(s) <= Cardinality(S) /\ (Cardinality(s) = 0 <=> s = {})
  BY FS_Subset, FS_CardinalityType, FS_EmptySet
<1>2. Cardinality(S) \in Nat
  BY FS_CardinalityType
<1>3. B = {}
  <2> SUFFICES ASSUME B # {} PROVE FALSE
    OBVIOUS
  <2>1. PICK n \in B : \A k \in B : n <= k
    BY Smallest
  <2>2. n # 0
    <3> SUFFICES Upto(0)
      BY <2>1
    <3>1. [s \in SUBSET S |-> 0] \in [SUBSET S -> Int]
      OBVIOUS
    <3>2. ASSUME NEW s \in SUBSET S, Cardinality(s) <= 0 PROVE UnfoldsAt([x \in SUBSET S |-> 0], f, s)
      BY <1>1, <3>2 DEF UnfoldsAt
    <3> QED
      BY <3>1, <3>2
  <2>3. n - 1 \in Nat /\ Upto(n - 1)
    <3>1. n \in Nat /\ n - 1 \in Nat /\ ~(n <= n - 1)
      BY <2>2
    <3> QED
      BY <2>1, <3>1
  <2>4. PICK g \in [SUBSET S -> Int] : \A s \in SUBSET S : Cardinality(s) <= n - 1 => UnfoldsAt(g, f, s)
    BY <2>3
  <2> DEFINE h == [s \in SUBSET S |-> IF Cardinality(s) = n THEN f[Chosen(s)] + g[s \ {Chosen(s)}] ELSE g[s]]
  <2>5. ASSUME NEW s \in SUBSET S, s # {}
        PROVE  /\ Chosen(s) \in s /\ s \ {Chosen(s)} \in SUBSET S
               /\ f[Chosen(s)] \in Int /\ g[s \ {Chosen(s)}] \in Int
               /\ Cardinality(s \ {Chosen(s)}) = Cardinality(s) - 1
    <3>1. Chosen(s) \in s
      BY <2>5, ChosenIn
    <3>2. IsFiniteSet(s)
      BY FS_Subset
    <3>3. Cardinality(s \ {Chosen(s)}) = Cardinality(s) - 1
      BY <3>1, <3>2, FS_RemoveElement
    <3> QED
      BY <3>1, <3>3
  <2>6. h \in [SUBSET S -> Int]
    <3>1. ASSUME NEW s \in SUBSET S PROVE (IF Cardinality(s) = n THEN f[Chosen(s)] + g[s \ {Chosen(s)}] ELSE g[s]) \in Int
      <4>1. CASE s = {}
        BY <1>1, <2>2, <4>1
      <4>2. CASE s # {}
        BY <2>5, <4>2
      <4> QED
        BY <4>1, <4>2
    <3> QED
      BY <3>1
  <2>7. ASSUME NEW s \in SUBSET S, Cardinality(s) <= n PROVE UnfoldsAt(h, f, s)
    <3>1. CASE s = {}
      <4>1. Cardinality(s) = 0 /\ UnfoldsAt(g, f, s)
        BY <1>1, <2>3, <2>4, <3>1
      <4> QED
        BY <2>2, <3>1, <4>1 DEF UnfoldsAt
    <3>2. CASE s # {}
      <4>1. PICK r \in SUBSET S : r = s \ {Chosen(s)} /\ Cardinality(r) = Cardinality(s) - 1
        BY <2>5, <3>2
      <4>2. Cardinality(r) \in Nat /\ Cardinality(s) \in Nat /\ n \in Nat
        BY <1>1
      <4>3. Cardinality(r) # n
        BY <2>7, <4>1, <4>2
      <4>4. h[r] = g[r]
        BY <4>3
      <4>5. CASE Cardinality(s) = n
        BY <3>2, <4>1, <4>4, <4>5 DEF UnfoldsAt
      <4>6. CASE Cardinality(s) # n
        <5>1. Cardinality(s) <= n - 1
          BY <2>7, <4>2, <4>6
        <5>2. UnfoldsAt(g, f, s)
          BY <2>4, <5>1
        <5>3. h[s] = g[s]
          BY <4>6
        <5> QED
          BY <3>2, <4>1, <4>4, <5>2, <5>3 DEF UnfoldsAt
      <4> QED
        BY <4>5, <4>6
    <3> QED
      BY <3>1, <3>2
  <2>8. Upto(n)
    BY <2>6, <2>7
  <2> QED
    BY <2>1, <2>8
<1>4. Upto(Cardinality(S))
  BY <1>2, <1>3
<1> QED
  BY <1>1, <1>4

\* Functions that follow the recursion agree where both are defined.
LEMMA SumUnique ==
    ASSUME NEW S, IsFiniteSet(S), NEW f, NEW e, \A x \in S : f[x] = e[x], NEW g, NEW h,
           \A s \in SUBSET S : UnfoldsAt(g, f, s) /\ UnfoldsAt(h, e, s)
    PROVE  g[S] = h[S]
<1> DEFINE B == {n \in Nat : \E s \in SUBSET S : Cardinality(s) = n /\ g[s] # h[s]}
<1>1. \A s \in SUBSET S : Cardinality(s) \in Nat /\ IsFiniteSet(s)
  BY FS_Subset, FS_CardinalityType
<1>2. B = {}
  <2> SUFFICES ASSUME B # {} PROVE FALSE
    OBVIOUS
  <2>1. PICK n \in B : \A k \in B : n <= k
    BY Smallest
  <2>2. PICK s \in SUBSET S : Cardinality(s) = n /\ g[s] # h[s]
    BY <2>1
  <2>3. s # {}
    BY <2>2 DEF UnfoldsAt
  <2>4. PICK r \in SUBSET S : r = s \ {Chosen(s)}
    BY <2>3
  <2>5. Chosen(s) \in s /\ f[Chosen(s)] = e[Chosen(s)]
    BY <2>3, ChosenIn
  <2>6. Cardinality(r) = n - 1 /\ n - 1 \in Nat
    BY <1>1, <2>2, <2>4, <2>5, FS_RemoveElement
  <2>7. g[r] = h[r]
    <3>1. ~(n <= n - 1)
      OBVIOUS
    <3> QED
      BY <2>1, <2>6, <3>1
  <2> QED
    BY <2>2, <2>3, <2>4, <2>5, <2>7 DEF UnfoldsAt
<1> QED
  BY <1>1, <1>2

\* The sum of the community module is the value of any function that follows the recursion.
LEMMA SumUnfolds ==
    ASSUME NEW S, IsFiniteSet(S), NEW f, \A x \in S : f[x] \in Int,
           NEW h \in [SUBSET S -> Int], \A s \in SUBSET S : UnfoldsAt(h, f, s)
    PROVE  SumFunctionOnSet(f, S) = h[S]
<1> DEFINE R(g) == g = [s \in SUBSET S |-> IF s = {} THEN 0 ELSE f[CHOOSE x \in s : TRUE] + g[s \ {CHOOSE x \in s : TRUE}]]
           iter == CHOOSE g : R(g)
<1>1. SumFunctionOnSet(f, S) = iter[S]
  BY DEF SumFunctionOnSet, FoldFunctionOnSet, MapThenFoldSet
<1>2. R(h)
  BY DEF UnfoldsAt, Chosen
<1>3. R(iter)
  BY <1>2
<1> HIDE DEF iter
<1>4. \A s \in SUBSET S : UnfoldsAt(iter, f, s)
  BY <1>3 DEF UnfoldsAt, Chosen
<1> QED
  BY <1>1, <1>4, SumUnique

\* A function that has the sums over all parts of a finite set.
SumsOf(h, f, S) ==
    /\ h \in [SUBSET S -> Int]
    /\ \A T \in SUBSET S : UnfoldsAt(h, f, T) /\ SumFunctionOnSet(f, T) = h[T]

LEMMA SumTable ==
    ASSUME NEW S, IsFiniteSet(S), NEW f, \A x \in S : f[x] \in Int
    PROVE  \E h : SumsOf(h, f, S)
<1>1. PICK h \in [SUBSET S -> Int] : \A s \in SUBSET S : UnfoldsAt(h, f, s)
  BY SumExists
<1>2. ASSUME NEW T \in SUBSET S PROVE SumFunctionOnSet(f, T) = h[T]
  <2>1. IsFiniteSet(T) /\ \A x \in T : f[x] \in Int
    BY FS_Subset
  <2>2. PICK k \in [SUBSET T -> Int] : \A s \in SUBSET T : UnfoldsAt(k, f, s)
    BY <2>1, SumExists
  <2>3. SumFunctionOnSet(f, T) = k[T]
    BY <2>1, <2>2, SumUnfolds
  <2>4. \A s \in SUBSET T : UnfoldsAt(h, f, s) /\ UnfoldsAt(k, f, s)
    BY <1>1, <2>2
  <2>5. k[T] = h[T]
    BY <2>1, <2>4, SumUnique
  <2> QED
    BY <2>3, <2>5
<1> QED
  BY <1>1, <1>2 DEF SumsOf

\* The type of a sum, the sum over nothing, and an element taken out of a sum.
LEMMA SumWithout ==
    ASSUME NEW S, IsFiniteSet(S), NEW f, \A x \in S : f[x] \in Int
    PROVE  /\ SumFunctionOnSet(f, S) \in Int
           /\ SumFunctionOnSet(f, {}) = 0
           /\ \A y \in S : /\ SumFunctionOnSet(f, S \ {y}) \in Int
                           /\ SumFunctionOnSet(f, S) = f[y] + SumFunctionOnSet(f, S \ {y})
<1>1. PICK h : SumsOf(h, f, S)
  BY SumTable
<1> DEFINE Out(T, y) == h[T] = f[y] + h[T \ {y}]
           B == {n \in Nat : \E T \in SUBSET S, y \in S : y \in T /\ Cardinality(T) = n /\ ~Out(T, y)}
<1>2. \A s \in SUBSET S : Cardinality(s) \in Nat /\ IsFiniteSet(s) /\ h[s] \in Int
  BY <1>1, FS_Subset, FS_CardinalityType DEF SumsOf
<1>3. B = {}
  <2> SUFFICES ASSUME B # {} PROVE FALSE
    OBVIOUS
  <2>1. PICK n \in B : \A k \in B : n <= k
    BY Smallest
  <2>2. PICK T \in SUBSET S, y \in S : y \in T /\ Cardinality(T) = n /\ ~Out(T, y)
    BY <2>1
  <2>3. PICK c \in S : c = Chosen(T) /\ c \in T
    BY <2>2, ChosenIn
  <2>4. h[T] = f[c] + h[T \ {c}]
    BY <1>1, <2>2, <2>3 DEF SumsOf, UnfoldsAt
  <2>5. c # y
    BY <2>2, <2>4
  <2>6. \A s \in SUBSET S, x \in S : x \in s /\ Cardinality(s) = n - 1 => Out(s, x)
    <3> SUFFICES ASSUME NEW s \in SUBSET S, NEW x \in S, x \in s, Cardinality(s) = n - 1, ~Out(s, x) PROVE FALSE
      OBVIOUS
    <3>1. n - 1 \in Nat /\ n \in Nat /\ ~(n <= n - 1)
      BY <1>2
    <3>2. n - 1 \in B
      BY <3>1
    <3> QED
      BY <2>1, <3>1, <3>2
  <2>7. PICK r \in SUBSET S : r = (T \ {c}) \ {y} /\ r = (T \ {y}) \ {c}
    OBVIOUS
  <2>8. Cardinality(T \ {c}) = n - 1 /\ Cardinality(T \ {y}) = n - 1
    BY <1>2, <2>2, <2>3, FS_RemoveElement
  <2>9. h[T \ {c}] = f[y] + h[r]
    <3>1. T \ {c} \in SUBSET S /\ y \in T \ {c}
      BY <2>2, <2>5
    <3>2. Out(T \ {c}, y)
      BY <2>6, <2>8, <3>1
    <3> QED
      BY <2>7, <3>2
  <2>10. h[T \ {y}] = f[c] + h[r]
    <3>1. T \ {y} \in SUBSET S /\ c \in T \ {y}
      BY <2>3, <2>5
    <3>2. Out(T \ {y}, c)
      BY <2>6, <2>8, <3>1
    <3> QED
      BY <2>7, <3>2
  <2>11. f[y] \in Int /\ f[c] \in Int /\ h[r] \in Int
    BY <1>2
  <2>12. h[T] = f[y] + h[T \ {y}]
    BY <2>4, <2>9, <2>10, <2>11
  <2> QED
    BY <2>2, <2>12
<1>4. \A y \in S : Out(S, y)
  BY <1>2, <1>3
<1>5. SumFunctionOnSet(f, {}) = 0
  <2>1. {} \in SUBSET S
    OBVIOUS
  <2> QED
    BY <1>1, <2>1 DEF SumsOf, UnfoldsAt
<1>6. SumFunctionOnSet(f, S) = h[S] /\ \A y \in S : SumFunctionOnSet(f, S \ {y}) = h[S \ {y}]
  BY <1>1 DEF SumsOf
<1> QED
  BY <1>2, <1>4, <1>5, <1>6

\* Sums of the same numbers are the same.
LEMMA SumSame ==
    ASSUME NEW S, IsFiniteSet(S), NEW f, NEW e, \A x \in S : f[x] \in Int /\ e[x] = f[x]
    PROVE  SumFunctionOnSet(f, S) = SumFunctionOnSet(e, S)
<1>1. PICK h : SumsOf(h, f, S)
  BY SumTable
<1>2. \A x \in S : e[x] \in Int
  OBVIOUS
<1>3. PICK k : SumsOf(k, e, S)
  BY <1>2, SumTable
<1>4. \A T \in SUBSET S : UnfoldsAt(h, f, T) /\ UnfoldsAt(k, e, T)
  BY <1>1, <1>3 DEF SumsOf
<1>5. h[S] = k[S]
  BY <1>4, SumUnique
<1> QED
  BY <1>1, <1>3, <1>5 DEF SumsOf

\* A sum moves by as much as one of its numbers.
LEMMA SumUpdated ==
    ASSUME NEW S, IsFiniteSet(S), NEW f \in [S -> Int], NEW e \in [S -> Int], NEW y \in S,
           \A x \in S \ {y} : e[x] = f[x]
    PROVE  SumFunctionOnSet(e, S) = SumFunctionOnSet(f, S) - f[y] + e[y]
<1>1. \A x \in S : f[x] \in Int /\ e[x] \in Int
  OBVIOUS
<1>2. /\ SumFunctionOnSet(f, S \ {y}) \in Int /\ SumFunctionOnSet(e, S \ {y}) \in Int
      /\ SumFunctionOnSet(f, S) = f[y] + SumFunctionOnSet(f, S \ {y})
      /\ SumFunctionOnSet(e, S) = e[y] + SumFunctionOnSet(e, S \ {y})
  BY <1>1, SumWithout
<1>3. SumFunctionOnSet(e, S \ {y}) = SumFunctionOnSet(f, S \ {y})
  <2>1. IsFiniteSet(S \ {y})
    BY FS_Subset
  <2>2. \A x \in S \ {y} : f[x] \in Int /\ e[x] = f[x]
    OBVIOUS
  <2> QED
    BY <2>1, <2>2, SumSame
<1> QED
  BY <1>1, <1>2, <1>3

\* A sum of numbers between 0 and b is between 0 and b times their count.
LEMMA SumBounded ==
    ASSUME NEW S, IsFiniteSet(S), NEW f, NEW b \in Nat, \A x \in S : f[x] \in 0..b
    PROVE  SumFunctionOnSet(f, S) \in Nat /\ SumFunctionOnSet(f, S) <= Cardinality(S) * b
<1>1. PICK h : SumsOf(h, f, S)
  BY SumTable
<1> DEFINE In(T) == h[T] >= 0 /\ h[T] <= Cardinality(T) * b
           B == {n \in Nat : \E T \in SUBSET S : Cardinality(T) = n /\ ~In(T)}
<1>2. \A s \in SUBSET S : Cardinality(s) \in Nat /\ IsFiniteSet(s) /\ h[s] \in Int
  BY <1>1, FS_Subset, FS_CardinalityType DEF SumsOf
<1>3. B = {}
  <2> SUFFICES ASSUME B # {} PROVE FALSE
    OBVIOUS
  <2>1. PICK n \in B : \A k \in B : n <= k
    BY Smallest
  <2>2. PICK T \in SUBSET S : Cardinality(T) = n /\ ~In(T)
    BY <2>1
  <2>3. n \in Nat
    OBVIOUS
  <2>4. CASE T = {}
    <3>1. h[T] = 0 /\ Cardinality(T) = 0
      BY <1>1, <2>4, FS_EmptySet DEF SumsOf, UnfoldsAt
    <3> QED
      BY <2>2, <3>1
  <2>5. CASE T # {}
    <3>1. PICK c \in S : c = Chosen(T) /\ c \in T
      BY <2>5, ChosenIn
    <3>2. PICK r \in SUBSET S : r = T \ {c}
      OBVIOUS
    <3>3. h[T] = f[c] + h[r]
      BY <1>1, <2>5, <3>1, <3>2 DEF SumsOf, UnfoldsAt
    <3>4. Cardinality(r) = n - 1 /\ n - 1 \in Nat
      <4>1. Cardinality(r) = Cardinality(T) - 1
        BY <1>2, <3>1, <3>2, FS_RemoveElement
      <4>2. Cardinality(r) \in Nat
        BY <1>2
      <4> QED
        BY <2>2, <4>1, <4>2
    <3>5. In(r)
      <4>1. ~(n <= n - 1)
        BY <2>3
      <4> QED
        BY <2>1, <3>4, <4>1
    <3>6. (n - 1) * b + b = n * b
      BY <2>3
    <3>7. PICK p \in Int, q \in Int, v \in Int : p = h[r] /\ q = (n - 1) * b /\ v = f[c] /\ p >= 0 /\ p <= q /\ v >= 0 /\ v <= b
      <4>1. h[r] \in Int /\ (n - 1) * b \in Int /\ f[c] \in Int /\ f[c] >= 0 /\ f[c] <= b
        BY <1>2, <2>3
      <4> QED
        BY <3>4, <3>5, <4>1
    <3>8. p + v >= 0 /\ p + v <= q + b
      BY <3>7
    <3>9. h[T] = p + v /\ q + b = n * b
      BY <3>3, <3>6, <3>7
    <3> QED
      BY <2>2, <3>8, <3>9
  <2> QED
    BY <2>4, <2>5
<1>4. In(S)
  BY <1>2, <1>3
<1> QED
  BY <1>1, <1>2, <1>4 DEF SumsOf

\* A sum of smaller numbers is smaller.
LEMMA SumOrdered ==
    ASSUME NEW S, IsFiniteSet(S), NEW f, NEW e, \A x \in S : f[x] \in Int /\ e[x] \in Int /\ f[x] <= e[x]
    PROVE  SumFunctionOnSet(f, S) <= SumFunctionOnSet(e, S)
<1>1. PICK h : SumsOf(h, f, S)
  <2>1. \A x \in S : f[x] \in Int
    OBVIOUS
  <2> QED
    BY <2>1, SumTable
<1>2. PICK k : SumsOf(k, e, S)
  <2>1. \A x \in S : e[x] \in Int
    OBVIOUS
  <2> QED
    BY <2>1, SumTable
<1> DEFINE B == {n \in Nat : \E T \in SUBSET S : Cardinality(T) = n /\ ~(h[T] <= k[T])}
<1>3. \A s \in SUBSET S : Cardinality(s) \in Nat /\ IsFiniteSet(s) /\ h[s] \in Int /\ k[s] \in Int
  BY <1>1, <1>2, FS_Subset, FS_CardinalityType DEF SumsOf
<1>4. B = {}
  <2> SUFFICES ASSUME B # {} PROVE FALSE
    OBVIOUS
  <2>1. PICK n \in B : \A m \in B : n <= m
    BY Smallest
  <2>2. PICK T \in SUBSET S : Cardinality(T) = n /\ ~(h[T] <= k[T])
    BY <2>1
  <2>3. T # {}
    <3>1. T = {} => h[T] = 0 /\ k[T] = 0
      BY <1>1, <1>2 DEF SumsOf, UnfoldsAt
    <3> QED
      BY <2>2, <3>1
  <2>4. PICK c \in S : c = Chosen(T) /\ c \in T
    BY <2>3, ChosenIn
  <2>5. PICK r \in SUBSET S : r = T \ {c}
    OBVIOUS
  <2>6. h[T] = f[c] + h[r] /\ k[T] = e[c] + k[r]
    BY <1>1, <1>2, <2>3, <2>4, <2>5 DEF SumsOf, UnfoldsAt
  <2>7. Cardinality(r) = n - 1 /\ n - 1 \in Nat /\ ~(n <= n - 1)
    <3>1. Cardinality(r) = Cardinality(T) - 1
      BY <1>3, <2>4, <2>5, FS_RemoveElement
    <3>2. Cardinality(r) \in Nat /\ n \in Nat
      BY <1>3
    <3> QED
      BY <2>2, <3>1, <3>2
  <2>8. h[r] <= k[r]
    BY <2>1, <2>7
  <2>9. h[r] \in Int /\ k[r] \in Int /\ f[c] \in Int /\ e[c] \in Int /\ f[c] <= e[c]
    BY <1>3
  <2> QED
    BY <2>2, <2>6, <2>8, <2>9
<1>5. h[S] <= k[S]
  BY <1>3, <1>4
<1> QED
  BY <1>1, <1>2, <1>5 DEF SumsOf

\* A part of a sum of numbers that are not negative is no larger than the sum, and
\* smaller if a positive number is left out.
LEMMA SumOfPart ==
    ASSUME NEW S, IsFiniteSet(S), NEW f, \A x \in S : f[x] \in Nat, NEW K \in SUBSET S
    PROVE  /\ SumFunctionOnSet(f, K) \in Nat /\ SumFunctionOnSet(f, S) \in Nat
           /\ SumFunctionOnSet(f, K) <= SumFunctionOnSet(f, S)
           /\ \A x \in S \ K : f[x] > 0 => SumFunctionOnSet(f, K) < SumFunctionOnSet(f, S)
<1>1. \A x \in S : f[x] \in Int
  OBVIOUS
<1> DEFINE Larger(T) == SumFunctionOnSet(f, K) <= SumFunctionOnSet(f, T)
           B == {n \in Nat : \E T \in SUBSET S : K \subseteq T /\ Cardinality(T) = n /\ ~Larger(T)}
<1>2. \A T \in SUBSET S : Cardinality(T) \in Nat /\ IsFiniteSet(T) /\ SumFunctionOnSet(f, T) \in Int
  <2> SUFFICES ASSUME NEW T \in SUBSET S
               PROVE  Cardinality(T) \in Nat /\ IsFiniteSet(T) /\ SumFunctionOnSet(f, T) \in Int
    OBVIOUS
  <2>1. IsFiniteSet(T) /\ \A x \in T : f[x] \in Int
    BY <1>1, FS_Subset
  <2> QED
    BY <2>1, SumWithout, FS_CardinalityType
<1>3. \A T \in SUBSET S, y \in S : y \in T =>
         SumFunctionOnSet(f, T) = f[y] + SumFunctionOnSet(f, T \ {y})
  <2> SUFFICES ASSUME NEW T \in SUBSET S, NEW y \in T
               PROVE  SumFunctionOnSet(f, T) = f[y] + SumFunctionOnSet(f, T \ {y})
    OBVIOUS
  <2>1. IsFiniteSet(T) /\ \A x \in T : f[x] \in Int
    BY <1>1, FS_Subset
  <2> QED
    BY <2>1, SumWithout
<1>4. B = {}
  <2> SUFFICES ASSUME B # {} PROVE FALSE
    OBVIOUS
  <2>1. PICK n \in B : \A m \in B : n <= m
    BY Smallest
  <2>2. PICK T \in SUBSET S : K \subseteq T /\ Cardinality(T) = n /\ ~Larger(T)
    BY <2>1
  <2>3. T # K
    <3>1. Larger(K)
      BY <1>2
    <3> QED
      BY <2>2, <3>1
  <2>4. PICK y \in S : y \in T /\ y \notin K
    BY <2>2, <2>3
  <2>5. PICK r \in SUBSET S : r = T \ {y} /\ K \subseteq r
    BY <2>2, <2>4
  <2>6. Cardinality(r) = n - 1 /\ n - 1 \in Nat /\ ~(n <= n - 1)
    <3>1. Cardinality(r) = Cardinality(T) - 1
      BY <1>2, <2>4, <2>5, FS_RemoveElement
    <3>2. Cardinality(r) \in Nat /\ n \in Nat
      BY <1>2
    <3> QED
      BY <2>2, <3>1, <3>2
  <2>7. Larger(r)
    BY <2>1, <2>5, <2>6
  <2>8. SumFunctionOnSet(f, T) = f[y] + SumFunctionOnSet(f, r)
    BY <1>3, <2>4, <2>5
  <2>9. PICK a \in Int, b \in Int, v \in Nat :
           a = SumFunctionOnSet(f, K) /\ b = SumFunctionOnSet(f, r) /\ v = f[y] /\ a <= b
    BY <1>2, <2>7
  <2> QED
    BY <2>2, <2>8, <2>9
<1>5. \A T \in SUBSET S : K \subseteq T => Larger(T)
  BY <1>2, <1>4
<1>6. SumFunctionOnSet(f, K) >= 0
  <2>1. {} \in SUBSET S /\ K \in SUBSET S
    OBVIOUS
  <2>2. PICK b : b = [x \in K |-> 0]
    OBVIOUS
  <2>3. IsFiniteSet(K) /\ \A x \in K : b[x] \in 0..0 /\ b[x] \in Int /\ f[x] \in Int /\ b[x] <= f[x]
    BY <1>2, <2>2
  <2>4. SumFunctionOnSet(b, K) \in Nat
    BY <2>3, SumBounded
  <2>5. SumFunctionOnSet(b, K) <= SumFunctionOnSet(f, K)
    BY <2>3, SumOrdered
  <2> QED
    BY <1>2, <2>4, <2>5
<1>7. ASSUME NEW x \in S \ K, f[x] > 0 PROVE SumFunctionOnSet(f, K) < SumFunctionOnSet(f, S)
  <2>1. Larger(S \ {x})
    BY <1>5, <1>7
  <2>2. SumFunctionOnSet(f, S) = f[x] + SumFunctionOnSet(f, S \ {x})
    BY <1>3
  <2>3. PICK a \in Int, b \in Int, v \in Nat :
           a = SumFunctionOnSet(f, K) /\ b = SumFunctionOnSet(f, S \ {x}) /\ v = f[x] /\ a <= b
    BY <1>2, <2>1
  <2> QED
    BY <1>7, <2>2, <2>3
<1> QED
  BY <1>2, <1>5, <1>6, <1>7

\* The larger of two numbers.
LEMMA MaxOfTwo ==
    ASSUME NEW a \in Int, NEW b \in Int
    PROVE  Max({a, b}) = IF a >= b THEN a ELSE b
BY DEF Max

\* The smaller of two numbers.
LEMMA MinOfTwo ==
    ASSUME NEW a \in Int, NEW b \in Int
    PROVE  Min({a, b}) = IF a <= b THEN a ELSE b
BY DEF Min

\* Induction over a finite set: a family of its parts that does not have the empty one,
\* and with every part also that part less one of its elements, has none.
LEMMA NoBadPart ==
    ASSUME NEW S, IsFiniteSet(S), NEW Bad \in SUBSET (SUBSET S), {} \notin Bad,
           \A T \in Bad : T # {} => \E y \in T : T \ {y} \in Bad
    PROVE  Bad = {}
<1> DEFINE B == {n \in Nat : \E T \in Bad : Cardinality(T) = n}
<1>1. \A T \in SUBSET S : IsFiniteSet(T) /\ Cardinality(T) \in Nat
  BY FS_Subset, FS_CardinalityType
<1>2. SUFFICES ASSUME Bad # {} PROVE FALSE
  OBVIOUS
<1>3. B # {}
  BY <1>1, <1>2
<1>4. PICK n \in B : \A m \in B : n <= m
  BY <1>3, Smallest
<1>5. PICK T \in Bad : Cardinality(T) = n
  BY <1>4
<1>6. PICK y \in T : T \ {y} \in Bad
  BY <1>5
<1>7. PICK r \in Bad : r = T \ {y}
  BY <1>6
<1>8. Cardinality(r) = Cardinality(T) - 1 /\ Cardinality(r) \in Nat /\ Cardinality(T) \in Nat
  BY <1>1, <1>6, <1>7, FS_RemoveElement
<1>9. n <= Cardinality(r)
  BY <1>4, <1>7, <1>8
<1> QED
  BY <1>5, <1>8, <1>9

\* A sum is the sum of two parts.
LEMMA SumSplit ==
    ASSUME NEW S, IsFiniteSet(S), NEW f, \A x \in S : f[x] \in Int, NEW K \in SUBSET S
    PROVE  /\ SumFunctionOnSet(f, K) \in Int /\ SumFunctionOnSet(f, S \ K) \in Int
           /\ SumFunctionOnSet(f, S) = SumFunctionOnSet(f, K) + SumFunctionOnSet(f, S \ K)
<1>1. ASSUME NEW T \in SUBSET S
      PROVE  /\ IsFiniteSet(T) /\ SumFunctionOnSet(f, T) \in Int /\ SumFunctionOnSet(f, {}) = 0
             /\ \A y \in T : SumFunctionOnSet(f, T) = f[y] + SumFunctionOnSet(f, T \ {y})
  <2>1. IsFiniteSet(T) /\ \A x \in T : f[x] \in Int
    BY FS_Subset
  <2> QED
    BY <2>1, SumWithout
<1> DEFINE Splits(T) == SumFunctionOnSet(f, S) = SumFunctionOnSet(f, T) + SumFunctionOnSet(f, S \ T)
           Bad == {T \in SUBSET S : ~Splits(T)}
<1>2. {} \notin Bad
  <2>1. S \ {} = S /\ SumFunctionOnSet(f, S) \in Int /\ SumFunctionOnSet(f, {}) = 0
    BY <1>1
  <2> QED
    BY <2>1
<1>3. ASSUME NEW T \in Bad, NEW y \in T PROVE T \ {y} \in Bad
  <2> SUFFICES ASSUME Splits(T \ {y}) PROVE Splits(T)
    BY <1>3
  <2>1. SumFunctionOnSet(f, T) = f[y] + SumFunctionOnSet(f, T \ {y})
    BY <1>1
  <2>2. PICK R \in SUBSET S : R = S \ (T \ {y}) /\ y \in R /\ R \ {y} = S \ T
    <3>1. PICK R \in SUBSET S : R = S \ (T \ {y})
      OBVIOUS
    <3>2. y \in R /\ R \ {y} = S \ T
      BY <3>1
    <3> QED
      BY <3>1, <3>2
  <2>3. SumFunctionOnSet(f, R) = f[y] + SumFunctionOnSet(f, S \ T)
    BY <1>1, <2>2
  <2>4. PICK a \in Int, b \in Int, c \in Int :
           a = f[y] /\ b = SumFunctionOnSet(f, T \ {y}) /\ c = SumFunctionOnSet(f, S \ T)
    BY <1>1
  <2>5. SumFunctionOnSet(f, S) = b + (a + c)
    BY <2>2, <2>3, <2>4
  <2> QED
    BY <2>1, <2>4, <2>5
<1>4. Bad = {}
  <2> HIDE DEF Bad
  <2>1. Bad \in SUBSET (SUBSET S)
    BY DEF Bad
  <2> QED
    BY <1>2, <1>3, <2>1, NoBadPart
<1> QED
  BY <1>1, <1>4

\* Numbers at least as large as the sums of disjoint blocks, without regard to sign, add
\* up to at least the sum over all of the blocks.
LEMMA SumOfBlocks ==
    ASSUME NEW S, IsFiniteSet(S), NEW f, \A x \in S : f[x] \in Int,
           NEW Q \in SUBSET (SUBSET S), \A p, q \in Q : p # q => p \cap q = {},
           NEW g, \A p \in Q : /\ g[p] \in Int
                               /\ g[p] >= SumFunctionOnSet(f, p) /\ g[p] >= -SumFunctionOnSet(f, p)
    PROVE  /\ SumFunctionOnSet(g, Q) \in Int /\ SumFunctionOnSet(f, UNION Q) \in Int
           /\ SumFunctionOnSet(g, Q) >= SumFunctionOnSet(f, UNION Q)
           /\ SumFunctionOnSet(g, Q) >= -SumFunctionOnSet(f, UNION Q)
<1>1. ASSUME NEW T \in SUBSET S
      PROVE  /\ SumFunctionOnSet(f, T) \in Int /\ SumFunctionOnSet(f, {}) = 0
             /\ \A K \in SUBSET T : SumFunctionOnSet(f, T) = SumFunctionOnSet(f, K) + SumFunctionOnSet(f, T \ K)
  <2>1. IsFiniteSet(T) /\ \A x \in T : f[x] \in Int
    BY FS_Subset
  <2> QED
    BY <2>1, SumWithout, SumSplit
<1>2. IsFiniteSet(Q)
  <2>1. IsFiniteSet(SUBSET S)
    BY FS_SUBSET
  <2> QED
    BY <2>1, FS_Subset
<1>3. ASSUME NEW R \in SUBSET Q
      PROVE  /\ SumFunctionOnSet(g, R) \in Int /\ SumFunctionOnSet(g, {}) = 0
             /\ \A p \in R : SumFunctionOnSet(g, R) = g[p] + SumFunctionOnSet(g, R \ {p})
  <2>1. IsFiniteSet(R) /\ \A p \in R : g[p] \in Int
    BY <1>2, FS_Subset
  <2> QED
    BY <2>1, SumWithout
<1> DEFINE Covers(R) == /\ SumFunctionOnSet(g, R) >= SumFunctionOnSet(f, UNION R)
                        /\ SumFunctionOnSet(g, R) >= -SumFunctionOnSet(f, UNION R)
           Bad == {R \in SUBSET Q : ~Covers(R)}
<1>4. {} \notin Bad
  <2>1. SumFunctionOnSet(g, {}) = 0 /\ SumFunctionOnSet(f, {}) = 0
    BY <1>1, <1>3
  <2>2. UNION {} = {}
    OBVIOUS
  <2>3. SumFunctionOnSet(f, UNION {}) = 0
    BY <2>1, <2>2
  <2> QED
    BY <2>1, <2>3
<1>5. ASSUME NEW R \in Bad, NEW p \in R PROVE R \ {p} \in Bad
  <2> SUFFICES ASSUME Covers(R \ {p}) PROVE Covers(R)
    BY <1>5
  <2>1. PICK U \in SUBSET S, V \in SUBSET S : U = UNION R /\ V = UNION (R \ {p})
    OBVIOUS
  <2>2. p \in SUBSET U /\ U \ p = V
    <3>1. \A q \in R \ {p} : q \cap p = {}
      OBVIOUS
    <3> QED
      BY <2>1, <3>1
  <2>3. SumFunctionOnSet(f, U) = SumFunctionOnSet(f, p) + SumFunctionOnSet(f, V)
    BY <1>1, <2>2
  <2>4. SumFunctionOnSet(g, R) = g[p] + SumFunctionOnSet(g, R \ {p})
    BY <1>3
  <2>5. PICK a \in Int, b \in Int, c \in Int, d \in Int :
           /\ a = SumFunctionOnSet(f, p) /\ b = SumFunctionOnSet(f, V)
           /\ c = g[p] /\ d = SumFunctionOnSet(g, R \ {p})
    BY <1>1, <1>3
  <2>6. c >= a /\ c >= -a
    BY <2>5
  <2>7. d >= b /\ d >= -b
    BY <2>1, <2>5
  <2>8. c + d >= a + b /\ c + d >= -(a + b)
    BY <2>6, <2>7
  <2> QED
    BY <2>1, <2>3, <2>4, <2>5, <2>8
<1>6. Bad = {}
  <2> HIDE DEF Bad
  <2>1. Bad \in SUBSET (SUBSET Q)
    BY DEF Bad
  <2> QED
    <3>1. \A R \in Bad : R # {} => \E p \in R : R \ {p} \in Bad
      BY <1>5
    <3> QED
      BY <1>2, <1>4, <2>1, <3>1, NoBadPart
<1>7. UNION Q \in SUBSET S
  OBVIOUS
<1> QED
  BY <1>1, <1>3, <1>6, <1>7

\* The absolute values add up to at least the sum.
LEMMA SumOfMagnitudes ==
    ASSUME NEW S, IsFiniteSet(S), NEW f, NEW g,
           \A x \in S : f[x] \in Int /\ g[x] \in Int /\ g[x] >= f[x] /\ g[x] >= -f[x]
    PROVE  /\ SumFunctionOnSet(g, S) \in Int /\ SumFunctionOnSet(f, S) \in Int
           /\ SumFunctionOnSet(g, S) >= SumFunctionOnSet(f, S)
           /\ SumFunctionOnSet(g, S) >= -SumFunctionOnSet(f, S)
<1>1. ASSUME NEW T \in SUBSET S
      PROVE  /\ SumFunctionOnSet(f, T) \in Int /\ SumFunctionOnSet(f, {}) = 0
             /\ \A y \in T : SumFunctionOnSet(f, T) = f[y] + SumFunctionOnSet(f, T \ {y})
  <2>1. IsFiniteSet(T) /\ \A x \in T : f[x] \in Int
    BY FS_Subset
  <2> QED
    BY <2>1, SumWithout
<1>2. ASSUME NEW T \in SUBSET S
      PROVE  /\ SumFunctionOnSet(g, T) \in Int /\ SumFunctionOnSet(g, {}) = 0
             /\ \A y \in T : SumFunctionOnSet(g, T) = g[y] + SumFunctionOnSet(g, T \ {y})
  <2>1. IsFiniteSet(T) /\ \A x \in T : g[x] \in Int
    BY FS_Subset
  <2> QED
    BY <2>1, SumWithout
<1> DEFINE Covers(T) == /\ SumFunctionOnSet(g, T) >= SumFunctionOnSet(f, T)
                        /\ SumFunctionOnSet(g, T) >= -SumFunctionOnSet(f, T)
           Bad == {T \in SUBSET S : ~Covers(T)}
<1>3. {} \notin Bad
  <2>1. SumFunctionOnSet(g, {}) = 0 /\ SumFunctionOnSet(f, {}) = 0
    BY <1>1, <1>2
  <2> QED
    BY <2>1
<1>4. ASSUME NEW T \in Bad, NEW y \in T PROVE T \ {y} \in Bad
  <2> SUFFICES ASSUME Covers(T \ {y}) PROVE Covers(T)
    BY <1>4
  <2>1. /\ SumFunctionOnSet(f, T) = f[y] + SumFunctionOnSet(f, T \ {y})
        /\ SumFunctionOnSet(g, T) = g[y] + SumFunctionOnSet(g, T \ {y})
    BY <1>1, <1>2
  <2>2. PICK a \in Int, b \in Int, c \in Int, d \in Int :
           /\ a = f[y] /\ b = SumFunctionOnSet(f, T \ {y})
           /\ c = g[y] /\ d = SumFunctionOnSet(g, T \ {y})
    BY <1>1, <1>2
  <2>3. c >= a /\ c >= -a
    BY <2>2
  <2>4. d >= b /\ d >= -b
    BY <2>2
  <2>5. c + d >= a + b /\ c + d >= -(a + b)
    BY <2>3, <2>4
  <2> QED
    BY <2>1, <2>2, <2>5
<1>5. Bad = {}
  <2> HIDE DEF Bad
  <2>1. Bad \in SUBSET (SUBSET S)
    BY DEF Bad
  <2> QED
    BY <1>3, <1>4, <2>1, NoBadPart
<1> QED
  BY <1>1, <1>2, <1>5

\* Division rounds down.
LEMMA Quotient ==
    ASSUME NEW a \in Nat, NEW b \in Nat \ {0}
    PROVE  a \div b \in Nat /\ b * (a \div b) <= a /\ a < b * (a \div b) + b
OBVIOUS

\* Products of ordered numbers are ordered, and back.
LEMMA TimesOrdered ==
    ASSUME NEW a \in Int, NEW b \in Int, NEW c \in Nat, a <= b
    PROVE  c * a <= c * b /\ a * c <= b * c
OBVIOUS

LEMMA TimesCancel ==
    ASSUME NEW a \in Int, NEW b \in Int, NEW c \in Nat \ {0}, c * a <= c * b
    PROVE  a <= b
OBVIOUS

\* The sum of a multiple and another function.
LEMMA SumAdded ==
    ASSUME NEW S, IsFiniteSet(S), NEW f, NEW e, NEW h, NEW c \in Int,
           \A x \in S : f[x] \in Int /\ e[x] \in Int /\ h[x] = c * f[x] + e[x]
    PROVE  SumFunctionOnSet(h, S) = c * SumFunctionOnSet(f, S) + SumFunctionOnSet(e, S)
<1>1. ASSUME NEW T \in SUBSET S, NEW g, \A x \in S : g[x] \in Int
      PROVE  /\ IsFiniteSet(T) /\ SumFunctionOnSet(g, T) \in Int /\ SumFunctionOnSet(g, {}) = 0
             /\ \A y \in T : /\ SumFunctionOnSet(g, T \ {y}) \in Int
                             /\ SumFunctionOnSet(g, T) = g[y] + SumFunctionOnSet(g, T \ {y})
  <2>1. IsFiniteSet(T)
    BY FS_Subset
  <2>2. \A x \in T : g[x] \in Int
    BY <1>1
  <2> QED  BY <2>1, <2>2, SumWithout
<1>2. \A x \in S : h[x] \in Int
  OBVIOUS
<1> DEFINE Adds(T) == SumFunctionOnSet(h, T) = c * SumFunctionOnSet(f, T) + SumFunctionOnSet(e, T)
           Bad == {T \in SUBSET S : ~Adds(T)}
<1>3. {} \notin Bad
  <2>1. Adds({})
    BY <1>1, <1>2
  <2> QED  BY <2>1
<1>4. ASSUME NEW T \in Bad, T # {}
      PROVE  \E y \in T : T \ {y} \in Bad
  <2>1. PICK y \in T : TRUE
    BY <1>4
  <2>2. SUFFICES ASSUME Adds(T \ {y})
                 PROVE  Adds(T)
    BY <2>1
  <2>3. PICK a \in Int, b \in Int, u \in Int, v \in Int :
          /\ f[y] = a /\ e[y] = b /\ SumFunctionOnSet(f, T \ {y}) = u /\ SumFunctionOnSet(e, T \ {y}) = v
          /\ SumFunctionOnSet(f, T) = a + u /\ SumFunctionOnSet(e, T) = b + v
    <3>1. /\ SumFunctionOnSet(f, T \ {y}) \in Int
          /\ SumFunctionOnSet(f, T) = f[y] + SumFunctionOnSet(f, T \ {y})
      BY <1>1, <2>1
    <3>2. /\ SumFunctionOnSet(e, T \ {y}) \in Int
          /\ SumFunctionOnSet(e, T) = e[y] + SumFunctionOnSet(e, T \ {y})
      BY <1>1, <2>1
    <3>3. f[y] \in Int /\ e[y] \in Int
      BY <2>1
    <3> QED  BY <3>1, <3>2, <3>3, Zenon
  <2>4. SumFunctionOnSet(h, T) = (c * a + b) + SumFunctionOnSet(h, T \ {y})
    BY <1>1, <1>2, <2>1, <2>3
  <2>5. SumFunctionOnSet(h, T \ {y}) = c * u + v
    BY <2>2, <2>3
  <2>6. (c * a + b) + (c * u + v) = c * (a + u) + (b + v)
    OBVIOUS
  <2> QED  BY <2>3, <2>4, <2>5, <2>6
<1>5. Bad = {}
  <2> HIDE DEF Bad
  <2>1. Bad \in SUBSET (SUBSET S)
    BY DEF Bad
  <2> QED  BY <2>1, <1>3, <1>4, NoBadPart
<1> QED  BY <1>5

\* A finite set counted one by one.
LEMMA CountAsSum ==
    ASSUME NEW S, IsFiniteSet(S), NEW K \in SUBSET S, NEW f,
           \A x \in S : f[x] = IF x \in K THEN 1 ELSE 0
    PROVE  SumFunctionOnSet(f, S) = Cardinality(K) /\ Cardinality(K) \in Nat
<1>1. ASSUME NEW T \in SUBSET S
      PROVE  /\ IsFiniteSet(T) /\ SumFunctionOnSet(f, T) \in Int /\ SumFunctionOnSet(f, {}) = 0
             /\ \A y \in T : /\ SumFunctionOnSet(f, T \ {y}) \in Int
                             /\ SumFunctionOnSet(f, T) = f[y] + SumFunctionOnSet(f, T \ {y})
  <2>1. IsFiniteSet(T)
    BY FS_Subset
  <2>2. \A x \in T : f[x] \in Int
    OBVIOUS
  <2> QED  BY <2>1, <2>2, SumWithout
<1> DEFINE Counts(T) == SumFunctionOnSet(f, T) = Cardinality(T \cap K)
           Bad == {T \in SUBSET S : ~Counts(T)}
<1>2. {} \notin Bad
  <2>1. Counts({})
    <3>1. {} \cap K = {}
      OBVIOUS
    <3> QED  BY <1>1, <3>1, FS_EmptySet
  <2> QED  BY <2>1
<1>3. ASSUME NEW T \in Bad, T # {}
      PROVE  \E y \in T : T \ {y} \in Bad
  <2>1. PICK y \in T : TRUE
    BY <1>3
  <2>2. SUFFICES ASSUME Counts(T \ {y})
                 PROVE  Counts(T)
    BY <2>1
  <2>3. SumFunctionOnSet(f, T) = f[y] + SumFunctionOnSet(f, T \ {y})
    BY <1>1, <2>1
  <2>4. IsFiniteSet(T \cap K) /\ IsFiniteSet((T \ {y}) \cap K)
    BY FS_Subset
  <2>5. CASE y \in K
    <3>1. (T \ {y}) \cap K = (T \cap K) \ {y}
      OBVIOUS
    <3>2. Cardinality((T \cap K) \ {y}) = Cardinality(T \cap K) - 1 /\ Cardinality(T \cap K) \in Nat
      BY <2>1, <2>4, <2>5, FS_RemoveElement, FS_CardinalityType
    <3>3. f[y] = 1
      BY <2>5
    <3>4. SumFunctionOnSet(f, T \ {y}) = Cardinality(T \cap K) - 1
      BY <2>2, <3>1, <3>2
    <3> QED  BY <2>3, <3>2, <3>3, <3>4
  <2>6. CASE y \notin K
    <3>1. (T \ {y}) \cap K = T \cap K
      BY <2>6
    <3>2. f[y] = 0 /\ SumFunctionOnSet(f, T \ {y}) \in Int
      BY <1>1, <2>1, <2>6
    <3>3. SumFunctionOnSet(f, T \ {y}) = Cardinality(T \cap K)
      BY <2>2, <3>1
    <3> QED  BY <2>3, <3>2, <3>3
  <2> QED  BY <2>5, <2>6
<1>4. Bad = {}
  <2> HIDE DEF Bad
  <2>1. Bad \in SUBSET (SUBSET S)
    BY DEF Bad
  <2> QED  BY <2>1, <1>2, <1>3, NoBadPart
<1>5. S \cap K = K /\ IsFiniteSet(K)
  BY FS_Subset
<1>6. Counts(S)
  BY <1>4
<1> QED  BY <1>5, <1>6, FS_CardinalityType
=============================================================================
