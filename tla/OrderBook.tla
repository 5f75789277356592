----------------------------- MODULE OrderBook -----------------------------
(***************************************************************************)
(* orderbook lib.rs: resting orders in a pool of slots, queued per side    *)
(* and price by slot index, and market orders matched against them.  Every *)
(* operation takes the book exclusively (&mut self), so it is one step;    *)
(* the derived metrics of update() are left out.  Prices and quantities    *)
(* are naturals and an order id is any of a small set, so two orders may   *)
(* carry one id, as nothing in the code forbids.                           *)
(***************************************************************************)
EXTENDS Integers, Sequences, SequencesExt, FiniteSets, FiniteSetsExt, Functions

CONSTANTS
    ObCapacity,  \* slots of the pool
    ObIds,       \* order ids, positive
    ObPrices,    \* prices
    ObQtys,      \* quantities of an order
    ObSweeps     \* quantities of a market order

ASSUME BookParameters ==
    /\ ObCapacity \in Nat /\ ObIds \subseteq Nat \ {0} /\ ObPrices \subseteq Nat
    /\ IsFiniteSet(ObPrices) /\ ObQtys \subseteq Nat /\ ObSweeps \subseteq Nat

ObSides == {"Bid", "Ask"}
ObNone == [id |-> 0, qty |-> 0]  \* the entry of a slot not in use

VARIABLES
    obPool,   \* entries: slot -> the order in it
    obFree,   \* free_indices: freed slots, first in first out
    obNext,   \* next_new: slots 1..obNext have been used
    obBook    \* bids and asks: side -> price -> queue of slots

obVars == <<obPool, obFree, obNext, obBook>>

ObSlots == 1..ObCapacity
ObEntry == [id : ObIds, qty : Nat] \cup {ObNone}

ObTypeOK ==
    /\ obPool \in [ObSlots -> ObEntry] /\ obFree \in Seq(ObSlots) /\ obNext \in 0..ObCapacity
    /\ DOMAIN obBook = ObSides
    /\ \A s \in ObSides : /\ DOMAIN obBook[s] \subseteq ObPrices
                          /\ \A p \in DOMAIN obBook[s] : obBook[s][p] \in Seq(ObSlots)

ObInit ==
    /\ obPool = [i \in ObSlots |-> ObNone]
    /\ obFree = << >> /\ obNext = 0
    /\ obBook = [s \in ObSides |-> << >>]

-----------------------------------------------------------------------------
(* Levels and slots. *)

Level(levels, p) == IF p \in DOMAIN levels THEN levels[p] ELSE << >>

\* Wrong variant: a level stays when its last order leaves.
WithLevelKept(levels, p, queue) ==
    [x \in DOMAIN levels \cup {p} |-> IF x = p THEN queue ELSE levels[x]]

\* The levels with this queue at p; an empty level is removed.
WithLevel(levels, p, queue) ==
    [x \in (DOMAIN levels \cup {p}) \ (IF queue = << >> THEN {p} ELSE {}) |->
        IF x = p THEN queue ELSE levels[x]]

\* The position of the first order with this id in a queue: none or one.
Position(queue, id) ==
    LET at == {i \in DOMAIN queue : obPool[queue[i]].id = id} IN IF at = {} THEN {} ELSE {Min(at)}

\* allocate: a freed slot before a new one.
allocate == IF obFree # << >> THEN {Head(obFree)} ELSE IF obNext < ObCapacity THEN {obNext + 1} ELSE {}

\* add_limit_bid, add_limit_ask, with the level they start from.
Added(side, levels, p, id, qty) ==
    \E i \in allocate :
        /\ qty > 0
        /\ obPool' = [obPool EXCEPT ![i] = [id |-> id, qty |-> qty]]
        /\ IF obFree # << >> THEN obFree' = Tail(obFree) /\ UNCHANGED obNext
                             ELSE obNext' = obNext + 1 /\ UNCHANGED obFree
        /\ obBook' = [obBook EXCEPT ![side] = WithLevel(levels, p, Append(Level(levels, p), i))]

AddLimit(side, p, id, qty) == Added(side, obBook[side], p, id, qty)

RemoveLimit(side, p, id) ==
    LET queue == Level(obBook[side], p) IN
    \E k \in Position(queue, id) :
        /\ obBook' = [obBook EXCEPT ![side] = WithLevel(@, p, RemoveAt(queue, k))]
        /\ obPool' = [obPool EXCEPT ![queue[k]] = ObNone]
        /\ obFree' = Append(obFree, queue[k])
        /\ UNCHANGED obNext

EditLimit(side, p, id, qty) ==
    LET queue == Level(obBook[side], p) IN
    \E k \in Position(queue, id) :
        /\ qty > 0
        /\ obPool' = [obPool EXCEPT ![queue[k]].qty = qty]
        /\ UNCHANGED <<obFree, obNext, obBook>>

\* The order moves to the back of its new level, whatever its new quantity; an order
\* not found is added.
ModifyLimit(side, old, id, new, qty) ==
    LET queue == Level(obBook[side], old)
        at == Position(queue, id)
    IN  IF at = {} THEN Added(side, obBook[side], new, id, qty)
        ELSE \E k \in at :
                LET rest == WithLevel(obBook[side], old, RemoveAt(queue, k)) IN
                /\ obBook' = [obBook EXCEPT ![side] = WithLevel(rest, new, Append(Level(rest, new), queue[k]))]
                /\ obPool' = [obPool EXCEPT ![queue[k]].qty = qty]
                /\ UNCHANGED <<obFree, obNext>>

-----------------------------------------------------------------------------
(* match_market_bid takes asks from the lowest price up, match_market_ask  *)
(* bids from the highest price down, to a price limit.                     *)

Eligible(side, limit) ==
    {p \in DOMAIN obBook[side] : IF side = "Ask" THEN p <= limit ELSE p >= limit}

\* Wrong variant: bids are swept from the lowest price up too.
BetterUp(side, p, q) == p < q

\* Is price p matched before price q?
Better(side, p, q) == IF side = "Ask" THEN p < q ELSE p > q

\* The quantities queued at a price, front to back.
Quantities(side, p) == [k \in DOMAIN obBook[side][p] |-> obPool[obBook[side][p][k]].qty]
Depth(side, p) == SumFunction(Quantities(side, p))

\* What is matched before the order at position k of price p: every better level, and
\* the orders in front of it.
Ahead(side, limit, p, k) ==
    SumFunctionOnSet([q \in Eligible(side, limit) |-> Depth(side, q)], {q \in Eligible(side, limit) : Better(side, q, p)})
    + SumFunctionOnSet(Quantities(side, p), 1..(k - 1))

\* What is executed of it: matching stops when nothing remains.
Remaining(side, limit, asked, p, k) == asked - Ahead(side, limit, p, k)
ExecutedOf(side, limit, asked, p, k) ==
    LET left == Remaining(side, limit, asked, p, k)
    IN  IF left <= 0 THEN 0 ELSE Min({Quantities(side, p)[k], left})

\* Executed at one price, by position.
Executions(side, limit, asked, p) ==
    [k \in DOMAIN obBook[side][p] |-> ExecutedOf(side, limit, asked, p, k)]

\* ExecutionResult: the quantity executed and what it cost.
Match(side, limit, asked) ==
    LET ExecutedAt(p) == Executions(side, limit, asked, p)
        CostAt(p) == [k \in DOMAIN obBook[side][p] |-> p * ExecutedAt(p)[k]]
    IN  [executed |-> SumFunction([p \in Eligible(side, limit) |-> SumFunction(ExecutedAt(p))]),
         cost |-> SumFunction([p \in Eligible(side, limit) |-> SumFunction(CostAt(p))])]

\* How many orders at a price are executed in full: the first ones of its queue.
Filled(side, limit, asked, p) ==
    IF p \notin Eligible(side, limit) THEN 0
    ELSE Cardinality({k \in DOMAIN obBook[side][p] :
            /\ Remaining(side, limit, asked, p, k) > 0
            /\ ExecutedOf(side, limit, asked, p, k) >= Quantities(side, p)[k]})

\* The book afterwards: orders executed in full leave it, best level first and within a
\* level the last one first, and empty levels go.
MatchMarket(side, limit, asked) ==
    LET Queue(p) == obBook[side][p]
        filled(p) == Filled(side, limit, asked, p)
        levels == {p \in DOMAIN obBook[side] : filled(p) < Len(Queue(p))}
        gone == {a \in Eligible(side, limit) \X ObSlots : a[2] <= filled(a[1])}
        Sooner(a, b) == Better(side, a[1], b[1]) \/ (a[1] = b[1] /\ a[2] > b[2])
        Slot(a) == Queue(a[1])[a[2]]
        TakenAt(i) == {a \in Eligible(side, limit) \X ObSlots :
                         /\ a[2] \in DOMAIN Queue(a[1]) /\ Slot(a) = i
                         /\ Remaining(side, limit, asked, a[1], a[2]) > 0}
    IN  /\ obBook' = [obBook EXCEPT ![side] = [p \in levels |-> SubSeq(Queue(p), filled(p) + 1, Len(Queue(p)))]]
        /\ obPool' = [i \in ObSlots |->
                        IF \E a \in gone : Slot(a) = i THEN ObNone
                        ELSE IF TakenAt(i) = {} THEN obPool[i]
                        ELSE LET a == CHOOSE a \in TakenAt(i) : TRUE
                             IN  [obPool[i] EXCEPT !.qty = @ - ExecutedOf(side, limit, asked, a[1], a[2])]]
        /\ \E freed \in Bijection(1..Cardinality(gone), gone) :
              /\ \A m, n \in DOMAIN freed : m < n => Sooner(freed[m], freed[n])
              /\ obFree' = obFree \o [n \in DOMAIN freed |-> Slot(freed[n])]
        /\ UNCHANGED obNext

ObNext ==
    \E side \in ObSides, p \in ObPrices :
        \/ \E id \in ObIds, q \in ObQtys : AddLimit(side, p, id, q) \/ EditLimit(side, p, id, q)
        \/ \E id \in ObIds : RemoveLimit(side, p, id)
        \/ \E id \in ObIds, new \in ObPrices, q \in ObQtys \cup {0} : ModifyLimit(side, p, id, new, q)
        \/ \E q \in ObSweeps : MatchMarket(side, p, q)

ObSpec == ObInit /\ [][ObNext]_obVars

-----------------------------------------------------------------------------
\* Through any sequence of adds, edits, moves, removals and matches every slot is
\* either queued once in one level, or free once, or never used; a slot has an order
\* exactly when it is queued, and no level is empty: no slot leaks out of the pool's
\* capacity or serves two orders (OrderEntryPool allocate and free, the levels).
SlotsAccounted ==
    LET Queues == {q \in ObSides \X ObPrices : q[2] \in DOMAIN obBook[q[1]]}
        In(i) == {a \in Queues \X ObSlots :
                    LET queue == obBook[a[1][1]][a[1][2]] IN a[2] \in DOMAIN queue /\ queue[a[2]] = i}
        FreeAt(i) == {k \in DOMAIN obFree : obFree[k] = i}
    IN  /\ \A i \in ObSlots :
              /\ Cardinality(In(i)) + Cardinality(FreeAt(i)) = IF i <= obNext THEN 1 ELSE 0
              /\ obPool[i] # ObNone <=> In(i) # {}
        /\ \A q \in Queues : obBook[q[1]][q[2]] # << >>

\* Any market order takes as much as rests within its limit, up to its size, at the
\* best prices there are: no way to take that much from the eligible levels is cheaper
\* (or, selling, brings more), reference: all ways (match_market_bid, match_market_ask).
MatchIsBest ==
    \A side \in ObSides, limit \in ObPrices, asked \in ObSweeps :
        LET levels == Eligible(side, limit)
            got == Match(side, limit, asked)
            Ways == {w \in [levels -> 0..asked] :
                        (\A p \in levels : w[p] <= Depth(side, p)) /\ SumFunction(w) = got.executed}
            costs == {SumFunction([p \in levels |-> p * w[p]]) : w \in Ways}
        IN  /\ got.executed = Min({asked, SumFunction([p \in levels |-> Depth(side, p)])})
            /\ got.cost = IF side = "Ask" THEN Min(costs) ELSE Max(costs)
=============================================================================
