--------------------------- MODULE ExecutionRisk ---------------------------
(***************************************************************************)
(* executionhandler lib.rs execute_order_on_exchange with the kill switch, *)
(* circuit breaker, position limits and margin check of risk_controls.rs,  *)
(* for one symbol on one exchange and several concurrent callers.  The     *)
(* gate checks the positions booked so far and reserves nothing; the order *)
(* then waits for the exchange, and its first fill is booked.              *)
(* Prices are one unit, so dollar limits and quantity limits coincide; the *)
(* equity path (update_equity) is not called by the handler and left out.  *)
(***************************************************************************)
EXTENDS Integers, FiniteSets, FiniteSetsExt

CONSTANTS
    ExTasks,          \* concurrent callers
    MaxOrder,         \* max_order_size
    MaxPosition,      \* max_position_size
    MaxPerWindow,     \* max_orders_per_second
    MaxFailures,      \* max_consecutive_failures
    ExMaxOrders       \* bound: orders asked for in one behaviour

ASSUME GateAssumption ==
    /\ IsFiniteSet(ExTasks) /\ ExTasks # {}
    /\ MaxOrder \in Nat /\ MaxPosition \in Nat

Actions == {"Buy", "BuyLimit", "Sell"}
GateModes == {"DryRun", "Enforce"}

VARIABLES
    exMode,     \* pre_trade_gate_mode, read from the environment at start
    exKill,     \* is KILL_SWITCH triggered?
    exBreaker,  \* tripped, orders in the window, is the window over, failures, paused
    exMargin,   \* does the last margin snapshot leave room?
    exBooked,   \* the position in the limit checker (and in the tracker)
    exHeld,     \* the position at the exchange
    exTask,     \* exTask[t]: where the call is, its order, the lots of its first fill
    exClean,    \* history: only market orders, each in one fill, and no batch
    exOrders    \* history: orders asked for

exVars == <<exMode, exKill, exBreaker, exMargin, exBooked, exHeld, exTask, exClean, exOrders>>

ExIdle == [pc |-> "idle", action |-> "Buy", qty |-> 0, first |-> 0]
Sign(action) == IF action = "Sell" THEN -1 ELSE 1
AbsOf(n) == IF n < 0 THEN -n ELSE n

ExTypeOK ==
    /\ exMode \in GateModes \cup {"unset"}
    /\ exKill \in BOOLEAN /\ exMargin \in BOOLEAN /\ exClean \in BOOLEAN
    /\ exBreaker \in [tripped : BOOLEAN, count : 0..(MaxPerWindow + 1), over : BOOLEAN,
                      failures : 0..MaxFailures, paused : BOOLEAN]
    /\ exBooked \in Int /\ exHeld \in Int
    /\ \A t \in ExTasks : exTask[t].pc \in {"idle", "breaker", "limits", "margin", "send", "book"}

ExInit ==
    /\ exMode = "unset"
    /\ exKill = FALSE
    /\ exBreaker = [tripped |-> FALSE, count |-> 0, over |-> FALSE, failures |-> 0, paused |-> FALSE]
    /\ exMargin = TRUE
    /\ exBooked = 0 /\ exHeld = 0
    /\ exTask = [t \in ExTasks |-> ExIdle]
    /\ exClean = TRUE
    /\ exOrders = 0

\* PreTradeGateMode::from_env
ExConfigure(mode) ==
    /\ exMode = "unset"
    /\ exMode' = mode
    /\ UNCHANGED <<exKill, exBreaker, exMargin, exBooked, exHeld, exTask, exClean, exOrders>>

-----------------------------------------------------------------------------
(* Outside the order path *)

ExRest == <<exMode, exBooked, exHeld, exTask, exClean, exOrders>>

KillSwitchTrigger == ~exKill /\ exKill' = TRUE /\ UNCHANGED <<ExRest, exBreaker, exMargin>>
KillSwitchReset == exKill /\ exKill' = FALSE /\ UNCHANGED <<ExRest, exBreaker, exMargin>>

WindowPasses ==
    /\ exMode # "unset"
    /\ exBreaker' = [exBreaker EXCEPT !.over = TRUE]
    /\ UNCHANGED <<ExRest, exKill, exMargin>>

PauseEnds ==
    /\ exBreaker.paused
    /\ exBreaker' = [exBreaker EXCEPT !.paused = FALSE]
    /\ UNCHANGED <<ExRest, exKill, exMargin>>

refresh_margin_snapshot ==
    /\ exMode # "unset"
    /\ exMargin' = ~exMargin
    /\ UNCHANGED <<ExRest, exKill, exBreaker>>

-----------------------------------------------------------------------------
(* execute_order_on_exchange *)

ExGoto(t, pc) == exTask' = [exTask EXCEPT ![t].pc = pc]

\* A rejection ends the call in Enforce mode; in DryRun it is logged and the call goes on.
Rejected(t, next) == IF exMode = "Enforce" THEN exTask' = [exTask EXCEPT ![t] = ExIdle] ELSE ExGoto(t, next)

\* The first check: the kill switch, whatever the mode.
ExecuteOrder(t, action, qty) ==
    /\ exMode # "unset" /\ exTask[t].pc = "idle" /\ exOrders < ExMaxOrders
    /\ ~exKill
    /\ exTask' = [exTask EXCEPT ![t] = [pc |-> "breaker", action |-> action, qty |-> qty, first |-> 0]]
    /\ exOrders' = exOrders + 1
    /\ UNCHANGED <<exMode, exKill, exBreaker, exMargin, exBooked, exHeld, exClean>>

\* record_order_attempt: a window that is over starts again, one too many trips the breaker.
AttemptRecorded(b) ==
    IF b.over THEN [b EXCEPT !.count = 1, !.over = FALSE]
    ELSE [b EXCEPT !.count = Min({@ + 1, MaxPerWindow + 1}), !.tripped = @ \/ b.count + 1 > MaxPerWindow]

\* pre_trade_check up to its await: kill switch, check_allowed, record_order_attempt.
\* A rejection skips the rest of pre_trade_check.
CheckBreaker(t) ==
    LET refused == exKill \/ exBreaker.tripped \/ exBreaker.paused
    IN  /\ exTask[t].pc = "breaker"
        /\ exBreaker' = IF refused THEN exBreaker ELSE AttemptRecorded(exBreaker)
        /\ IF refused \/ (~exBreaker.over /\ exBreaker.count + 1 > MaxPerWindow)
           THEN Rejected(t, "margin") ELSE ExGoto(t, "limits")
        /\ UNCHANGED <<exMode, exKill, exMargin, exBooked, exHeld, exClean, exOrders>>

\* A plausible slip: the booked position is compared without the order.
WithinLimitsStale(task) == task.qty <= MaxOrder /\ AbsOf(exBooked) <= MaxPosition

\* check_order: the position after this order, from what is booked now.
WithinLimits(task) ==
    task.qty <= MaxOrder /\ AbsOf(exBooked + Sign(task.action) * task.qty) <= MaxPosition

CheckLimits(t) ==
    /\ exTask[t].pc = "limits"
    /\ IF exKill \/ ~WithinLimits(exTask[t]) THEN Rejected(t, "margin") ELSE ExGoto(t, "margin")
    /\ UNCHANGED <<exMode, exKill, exBreaker, exMargin, exBooked, exHeld, exClean, exOrders>>

CheckMargin(t) ==
    /\ exTask[t].pc = "margin"
    /\ IF exKill \/ ~exMargin THEN Rejected(t, "send") ELSE ExGoto(t, "send")
    /\ UNCHANGED <<exMode, exKill, exBreaker, exMargin, exBooked, exHeld, exClean, exOrders>>

\* connector.execute_order: the order fills, in one fill or in two.
ExchangeFills(t) ==
    LET task == exTask[t]
    IN  /\ task.pc = "send"
        /\ exHeld' = exHeld + Sign(task.action) * task.qty
        /\ \E first \in {task.qty} \cup {n \in 1..task.qty : n = 1} :
              /\ exTask' = [exTask EXCEPT ![t].pc = "book", ![t].first = first]
              /\ exClean' = (exClean /\ first = task.qty /\ task.action # "BuyLimit")
        /\ UNCHANGED <<exMode, exKill, exBreaker, exMargin, exBooked, exOrders>>

\* The connector fails: record_failure, and enough in a row pause the breaker.
ExchangeFails(t) ==
    /\ exTask[t].pc = "send"
    /\ exTask' = [exTask EXCEPT ![t] = ExIdle]
    /\ exBreaker' = [exBreaker EXCEPT !.failures = Min({@ + 1, MaxFailures}),
                                      !.paused = @ \/ exBreaker.failures + 1 >= MaxFailures]
    /\ UNCHANGED <<exMode, exKill, exMargin, exBooked, exHeld, exClean, exOrders>>

\* The first fill is booked, with a plus only if the action is exactly Buy.
BookFill(t) ==
    LET task == exTask[t]
    IN  /\ task.pc = "book"
        /\ exBooked' = exBooked + (IF task.action = "Buy" THEN task.first ELSE -task.first)
        /\ exBreaker' = [exBreaker EXCEPT !.failures = 0]
        /\ exTask' = [exTask EXCEPT ![t] = ExIdle]
        /\ UNCHANGED <<exMode, exKill, exMargin, exHeld, exClean, exOrders>>

\* execute_batch_orders looks at the kill switch and goes straight to the connector:
\* no gate, and nothing is booked.
execute_batch_orders(action, qty) ==
    /\ exMode # "unset" /\ ~exKill /\ exOrders < ExMaxOrders
    /\ exHeld' = exHeld + Sign(action) * qty
    /\ exClean' = FALSE
    /\ exOrders' = exOrders + 1
    /\ UNCHANGED <<exMode, exKill, exBreaker, exMargin, exBooked, exTask>>

ExNext ==
    \/ \E m \in GateModes : ExConfigure(m)
    \/ KillSwitchTrigger \/ KillSwitchReset \/ WindowPasses \/ PauseEnds \/ refresh_margin_snapshot
    \/ \E t \in ExTasks :
          \/ \E a \in Actions, q \in 1..MaxOrder : ExecuteOrder(t, a, q)
          \/ CheckBreaker(t) \/ CheckLimits(t) \/ CheckMargin(t)
          \/ ExchangeFills(t) \/ ExchangeFails(t) \/ BookFill(t)
    \/ \E a \in Actions, q \in 1..MaxOrder : execute_batch_orders(a, q)

ExSpec == ExInit /\ [][ExNext]_exVars

-----------------------------------------------------------------------------
\* With the gate enforced, market orders filled at once take the exchange position past
\* the limit by no more than what the other callers had in flight: the check reserves
\* nothing, but a caller that comes after a booked fill sees it.
GateOvershootBounded ==
    exMode = "Enforce" /\ exClean =>
        AbsOf(exHeld) <= MaxPosition + (Cardinality(ExTasks) - 1) * MaxOrder

\* The fill is mirrored "so subsequent orders' pre_trade_check sees accumulated exposure":
\* with no call in flight, the booked position is the position at the exchange.
BookedIsHeld ==
    (\A t \in ExTasks : exTask[t].pc = "idle") => exBooked = exHeld
=============================================================================
