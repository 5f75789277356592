----------------------------- MODULE FillLedger -----------------------------
(***************************************************************************)
(* hostbuilder fill_ledger.rs: the idempotent ledger of one order's fills. *)
(* The venue executes trades and reports them along two paths: cumulative  *)
(* reports (quantity and average price so far) and single trades.  Reports *)
(* arrive late, repeatedly, in any order, or never, and a restart keeps    *)
(* only what was durably recorded (seed).                                  *)
(*                                                                         *)
(* Quantities, prices and fees are naturals, every trade's fee is one;     *)
(* financing, folded like the fee but signed, and the tolerances of the    *)
(* float comparisons are left out.                                         *)
(***************************************************************************)
EXTENDS Integers, Sequences, FiniteSets, FiniteSetsExt, Functions

CONSTANTS
    FgMaxTrades,  \* bound: trades the venue executes
    FgQtys,       \* quantities of a trade
    FgPrices,     \* prices of a trade
    FgExpected,   \* the size register_order was given
    FgMaxRestarts \* bound: restarts

\* A trade has a quantity; an expected size of 0 is an order that was not registered.
ASSUME LedgerAssumption ==
    FgQtys \subseteq Nat \ {0} /\ FgPrices \subseteq Nat /\ FgExpected \in Nat

VARIABLES
    fgVenue,    \* the trades executed so far, in order
    fgOrder,    \* OrderState: the totals recorded, the trades seen, the order's size
    fgWritten,  \* the sum of the deltas handed to the recorder
    fgRestarts

fgVars == <<fgVenue, fgOrder, fgWritten, fgRestarts>>

FgZero == [qty |-> 0, notional |-> 0, fee |-> 0]

\* The totals of some of the venue's trades.
Totals(ks) ==
    [qty |-> SumFunctionOnSet([k \in DOMAIN fgVenue |-> fgVenue[k].qty], ks),
     notional |-> SumFunctionOnSet([k \in DOMAIN fgVenue |-> fgVenue[k].qty * fgVenue[k].price], ks),
     fee |-> Cardinality(ks)]

Executed == Totals(DOMAIN fgVenue)

FgTypeOK ==
    /\ fgVenue \in Seq([qty : FgQtys, price : FgPrices]) /\ Len(fgVenue) <= FgMaxTrades
    /\ fgOrder.seen \subseteq DOMAIN fgVenue /\ fgOrder.expected \in {0, FgExpected}
    /\ fgOrder.total \in [qty : Nat, notional : Nat, fee : Nat]
    /\ fgWritten \in [qty : Nat, notional : Nat, fee : Nat]

FgInit ==
    /\ fgVenue = << >> /\ fgWritten = FgZero /\ fgRestarts = 0
    /\ \E e \in {0, FgExpected} : fgOrder = [total |-> FgZero, seen |-> {}, expected |-> e]

VenueExecutes ==
    /\ Len(fgVenue) < FgMaxTrades
    /\ \E q \in FgQtys, p \in FgPrices : fgVenue' = Append(fgVenue, [qty |-> q, price |-> p])
    /\ UNCHANGED <<fgOrder, fgWritten, fgRestarts>>

-----------------------------------------------------------------------------
\* Wrong variant: every report is taken as news.
DeltaOfAnything(rec, cum) ==
    {[qty |-> cum.qty, notional |-> cum.notional, fee |-> cum.fee]}

\* advance: the part of a cumulative total that is new.  None when the report is a
\* duplicate, stale, above the order's size or contradicts what is recorded.
Delta(rec, cum) ==
    {d \in {[qty |-> cum.qty - rec.total.qty,
             notional |-> cum.notional - rec.total.notional,
             fee |-> Max({cum.fee - rec.total.fee, 0})]} :
        /\ rec.expected # 0 => cum.qty <= rec.expected
        /\ d.qty > 0 /\ d.notional > 0}

Plus(a, b) == [qty |-> a.qty + b.qty, notional |-> a.notional + b.notional, fee |-> a.fee + b.fee]

Advance(rec, cum) ==
    IF Delta(rec, cum) = {} THEN fgOrder' = rec /\ UNCHANGED fgWritten
    ELSE \E d \in Delta(rec, cum) :
            /\ fgOrder' = [rec EXCEPT !.total = Plus(@, d)]
            /\ fgWritten' = Plus(fgWritten, d)

\* A cumulative report of any moment so far, with or without the fee.
apply_cumulative(n, withFee) ==
    LET cum == Totals(1..n) IN
    /\ Advance(fgOrder, IF withFee THEN cum ELSE [cum EXCEPT !.fee = 0])
    /\ UNCHANGED <<fgVenue, fgRestarts>>

\* A single trade; a trade seen before is a duplicate.
apply_trade(k) ==
    /\ k \notin fgOrder.seen
    /\ LET rec == [fgOrder EXCEPT !.seen = @ \cup {k}] IN Advance(rec, Totals(rec.seen))
    /\ UNCHANGED <<fgVenue, fgRestarts>>

\* A restart seeds the totals from the stored rows; the trades seen are forgotten.
Seed ==
    /\ fgRestarts < FgMaxRestarts /\ fgRestarts' = fgRestarts + 1
    /\ fgOrder' = [total |-> fgWritten, seen |-> {}, expected |-> 0]
    /\ UNCHANGED <<fgVenue, fgWritten>>

FgNext ==
    \/ VenueExecutes \/ Seed
    \/ \E n \in 1..Len(fgVenue), withFee \in BOOLEAN : apply_cumulative(n, withFee)
    \/ \E k \in DOMAIN fgVenue : apply_trade(k)

FgSpec == FgInit /\ [][FgNext]_fgVars

-----------------------------------------------------------------------------
\* Whatever mix of reports arrives, in whatever order and however often, never more
\* is written than was executed, and once the whole quantity is recorded its value is
\* right too; a known order size is never exceeded (fill_ledger.rs advance).
FillsCountedOnce ==
    /\ fgWritten.qty <= Executed.qty
    /\ fgWritten.notional <= Executed.notional /\ fgWritten.fee <= Executed.fee
    /\ fgWritten.qty = Executed.qty => fgWritten.notional = Executed.notional
    /\ fgOrder.expected # 0 => fgWritten.qty <= fgOrder.expected
=============================================================================
