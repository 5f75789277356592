------------------------------ MODULE Planner ------------------------------
(***************************************************************************)
(* rebalancer-core planner.rs and guard.rs (the order planner and the      *)
(* pre-trade guard every planned order passes), driven as rebalancer-run   *)
(* pipeline.rs step_execute drives them in Live mode: plan, send the       *)
(* sells, read the account again, plan again without the proceeds of its   *)
(* own sells, send the buys.  Any order may execute in part or not at all. *)
(*                                                                         *)
(* The run pipeline plans long-only sleeves (it never calls                *)
(* with_signed_sleeve), so shorts appear only as positions the account     *)
(* already had.  Money and prices are natural numbers, one unit standing   *)
(* for the 1e-8 the code rounds to; targets are amounts (aggregate and the *)
(* capital base are left out), caps too.  Each instrument is its own asset *)
(* class, and the notional, net, price and universe checks are left out.   *)
(***************************************************************************)
EXTENDS Integers, Sequences, Functions, FiniteSetsExt

CONSTANTS
    PlPrices,      \* the price of instrument i is PlPrices[i]
    PlHeld,        \* quantities an instrument may be held in at the start
    PlShort,       \* quantities an instrument nobody here sold may be short
    PlCash,        \* cash the account may start with
    PlTargets,     \* target amounts of an instrument
    PlMinTrade,    \* min_trade_abs
    PlFeeDivisor,  \* the fee of a notional n is n / PlFeeDivisor, rounded up
    PlReserve,     \* reserve_amount
    PlMaxPosition, \* the cap of one position
    PlMaxGross,    \* the cap of the gross exposure
    PlMaxOrders,   \* max_orders_per_day
    PlMaxTurnover  \* max_turnover_per_day

ASSUME PlanParameters ==
    /\ PlPrices \in Seq(Nat \ {0}) /\ PlHeld \subseteq Nat /\ PlShort \subseteq Nat
    /\ PlCash \subseteq Int /\ PlTargets \subseteq Nat /\ PlMinTrade \in Nat
    /\ PlFeeDivisor \in Nat \ {0} /\ PlReserve \in Int /\ PlMaxPosition \in Int
    /\ PlMaxGross \in Int /\ PlMaxOrders \in Nat /\ PlMaxTurnover \in Nat

PlSyms == 1..Len(PlPrices)

VARIABLES
    plTarget,   \* the sleeves' targets
    plStart,    \* the positions the run started from
    plAcct,     \* the account at the broker (pos, cash) and the day counters
    plPhase,    \* "plan", "sells", "reread", "buys" or "done"
    plOrders,   \* what is left to send in this phase, by instrument: 0 for nothing
    plPlanned,  \* did the first plan have a buy?
    plFailed,   \* history: an order did not execute in full
    plBought    \* history: a buy executed

plVars == <<plTarget, plStart, plAcct, plPhase, plOrders, plPlanned, plFailed, plBought>>

PlAbs(n) == IF n < 0 THEN -n ELSE n
PlTotal(f) == SumFunctionOnSet(f, PlSyms)
PlValue(acct, i) == acct.pos[i] * PlPrices[i]
gross(acct) == PlTotal([i \in PlSyms |-> PlAbs(PlValue(acct, i))])

\* Orders of one side, at most one an instrument: the quantity of each.
NoOrders == [i \in PlSyms |-> 0]
Ordered(orders) == {i \in PlSyms : orders[i] > 0}

PlAccount == [pos : [PlSyms -> Int], cash : Int, orders : 0..PlMaxOrders, turnover : 0..PlMaxTurnover]

PlTypeOK ==
    /\ plTarget \in [PlSyms -> Nat] /\ plStart \in [PlSyms -> Int]
    /\ plAcct \in PlAccount /\ plOrders \in [PlSyms -> Nat]
    /\ plPhase \in {"plan", "sells", "reread", "buys", "done"}
    /\ plPlanned \in BOOLEAN /\ plFailed \in BOOLEAN /\ plBought \in BOOLEAN

PlInit ==
    /\ plTarget \in [PlSyms -> PlTargets]
    /\ plStart \in [PlSyms -> PlHeld \cup {-h : h \in PlShort}]
    /\ \E cash \in PlCash : plAcct = [pos |-> plStart, cash |-> cash, orders |-> 0, turnover |-> 0]
    /\ plPhase = "plan" /\ plOrders = NoOrders /\ plPlanned = FALSE
    /\ plFailed = FALSE /\ plBought = FALSE

-----------------------------------------------------------------------------
(* The planner. *)

fee_for(n) == (n + PlFeeDivisor - 1) \div PlFeeDivisor
Signed(side, n) == IF side = "Buy" THEN n ELSE -n

\* The trade of one instrument, none when it is short, at its target or too small
\* to trade.  Quantities round down; a full exit sells the whole holding.
Candidate(acct, side, i) ==
    LET held == acct.pos[i]
        target == plTarget[i]
        delta == target - PlValue(acct, i)
        units == PlAbs(delta) \div PlPrices[i]
        sold == IF target = 0 THEN held ELSE Min({units, held})
    IN  IF held < 0 \/ PlAbs(delta) < Max({PlMinTrade, 1}) \/ side # (IF delta > 0 THEN "Buy" ELSE "Sell")
        THEN 0
        ELSE IF side = "Buy" THEN units ELSE sold

\* By instrument, of one side.
Candidates(acct, side) == [i \in PlSyms |-> Candidate(acct, side, i)]

\* apply: an accepted (or executed) order on an account.
Applied(acct, side, i, qty) ==
    LET n == qty * PlPrices[i] IN
    [pos |-> [acct.pos EXCEPT ![i] = @ + Signed(side, qty)],
     cash |-> acct.cash - Signed(side, n) - fee_for(n),
     orders |-> acct.orders + 1, turnover |-> acct.turnover + n]

\* Wrong variant: the gross cap is checked before the order.
GuardBefore(sim, side, i, qty) ==
    LET after == Applied(sim, side, i, qty)
        reducing == qty <= -Signed(side, sim.pos[i])
    IN  /\ side = "Sell" => reducing
        /\ after.orders <= PlMaxOrders /\ after.turnover <= PlMaxTurnover
        /\ ~reducing => /\ PlAbs(PlValue(after, i)) <= PlMaxPosition
                        /\ gross(sim) <= PlMaxGross
                        /\ after.cash >= PlReserve

\* PreTradeGuard::check on the simulated account; shorting is off.
guard(sim, side, i, qty) ==
    LET after == Applied(sim, side, i, qty)
        reducing == qty <= -Signed(side, sim.pos[i])
    IN  /\ side = "Sell" => reducing
        /\ after.orders <= PlMaxOrders /\ after.turnover <= PlMaxTurnover
        /\ ~reducing => /\ PlAbs(PlValue(after, i)) <= PlMaxPosition
                        /\ gross(after) <= PlMaxGross
                        /\ after.cash >= PlReserve

\* try_order: one wished quantity on the running simulation; nothing wished, nothing tried.
Try(acc, side, i, qty) ==
    IF qty > 0 /\ guard(acc.sim, side, i, qty)
    THEN [sim |-> Applied(acc.sim, side, i, qty), orders |-> [acc.orders EXCEPT ![i] = qty]]
    ELSE acc

\* The instruments' orders tried one after the other.
Tried(sim, side, wished) ==
    LET upto[k \in 0..Len(PlPrices)] ==
            IF k = 0 THEN [sim |-> sim, orders |-> NoOrders]
                     ELSE Try(upto[k - 1], side, k, wished[k])
    IN  upto[Len(PlPrices)]

Cost(i, qty) == qty * PlPrices[i] + fee_for(qty * PlPrices[i])
TotalCost(orders) == PlTotal([i \in PlSyms |-> Cost(i, orders[i])])

\* The increases scaled by one common factor when they do not fit the budget.
Fitted(increases, available) ==
    LET total == TotalCost(increases)
        usable == available - Cardinality(Ordered(increases))
    IN  IF total <= available THEN increases
        ELSE [i \in PlSyms |-> IF usable <= 0 THEN 0 ELSE (increases[i] * usable) \div total]

\* Wrong variant: the second plan counts on its own sells again.
BudgetCredited(sim, acct, credit) == sim.cash

budget(sim, acct, credit) == IF credit THEN sim.cash ELSE Min({sim.cash, acct.cash})

\* OrderPlanner::plan: the sells, then the buys that fit what is left.
plan(acct, credit) ==
    LET sold == Tried(acct, "Sell", Candidates(acct, "Sell"))
        wished == Fitted(Candidates(acct, "Buy"), budget(sold.sim, acct, credit) - PlReserve)
    IN  [sells |-> sold.orders, buys |-> Tried(sold.sim, "Buy", wished).orders]

-----------------------------------------------------------------------------
(* step_execute. *)

\* The first plan, and its sells.
FirstPlan ==
    /\ plPhase = "plan"
    /\ plOrders' = plan(plAcct, TRUE).sells
    /\ plPlanned' = (plan(plAcct, TRUE).buys # NoOrders)
    /\ plPhase' = "sells"
    /\ UNCHANGED <<plTarget, plStart, plAcct, plFailed, plBought>>

\* The next order executes in full, in part or not at all; its intent was journaled,
\* and the journal is what the day counters count.
ExecuteOrder ==
    LET i == Min(Ordered(plOrders))
        side == IF plPhase = "sells" THEN "Sell" ELSE "Buy"
    IN
    /\ plPhase \in {"sells", "buys"} /\ plOrders # NoOrders
    /\ \E n \in 0..plOrders[i] :
          /\ plAcct' = [Applied(plAcct, side, i, n) EXCEPT
                          !.turnover = plAcct.turnover + plOrders[i] * PlPrices[i]]
          /\ plFailed' = (plFailed \/ n < plOrders[i])
          /\ plBought' = (plBought \/ (n > 0 /\ side = "Buy"))
    /\ plOrders' = [plOrders EXCEPT ![i] = 0]
    /\ UNCHANGED <<plTarget, plStart, plPhase, plPlanned>>

SellsDone ==
    /\ plPhase = "sells" /\ plOrders = NoOrders
    /\ plPhase' = IF plPlanned THEN "reread" ELSE "done"
    /\ UNCHANGED <<plTarget, plStart, plAcct, plOrders, plPlanned, plFailed, plBought>>

\* The account is read again and the buys planned from what it really holds.
Replanned ==
    /\ plPhase = "reread"
    /\ plOrders' = plan(plAcct, FALSE).buys
    /\ plPhase' = "buys"
    /\ UNCHANGED <<plTarget, plStart, plAcct, plPlanned, plFailed, plBought>>

BuysDone ==
    /\ plPhase = "buys" /\ plOrders = NoOrders
    /\ plPhase' = "done"
    /\ UNCHANGED <<plTarget, plStart, plAcct, plOrders, plPlanned, plFailed, plBought>>

PlNext == FirstPlan \/ ExecuteOrder \/ SellsDone \/ Replanned \/ BuysDone

PlSpec == PlInit /\ [][PlNext]_plVars

-----------------------------------------------------------------------------
\* The cash reserve holds for the real account after every buy, whatever the sells
\* did, no long turns short, and a short the account had is never traded: the second
\* plan spends only cash that is there, and scaling leaves room for every rounded-up
\* fee (planner.rs budget and slack; pipeline.rs step_execute).
BuysKeepReserve ==
    /\ plBought => plAcct.cash >= PlReserve
    /\ \A i \in PlSyms : IF plStart[i] < 0 THEN plAcct.pos[i] = plStart[i] ELSE plAcct.pos[i] >= 0

\* The caps hold for the real account after a run that bought and whose orders all
\* executed: the guard's running simulation was the truth (guard.rs after_state).  When a
\* sell falls short this may fail: the second plan's guard counts its own sells as done
\* too, though only its buys are sent.
CapsHoldWhenExecuted == plPhase = "done" /\ plBought /\ ~plFailed => gross(plAcct) <= PlMaxGross
=============================================================================
