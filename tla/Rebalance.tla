----------------------------- MODULE Rebalance -----------------------------
(***************************************************************************)
(* What the scheduled rebalance of an account promises, with no process,   *)
(* lock, journal or broker call in sight: per daily slot a sell and a buy  *)
(* that are sent at most once, an account that trades each leg at most     *)
(* once and buys only with the proceeds of the sell, and a slot that       *)
(* closes for good.  RunPipeline implements it.                            *)
(***************************************************************************)
EXTENDS Naturals

CONSTANT Slots

Legs == {"Sell", "Buy"}
Tags == Slots \X Legs

VARIABLES
    sent,    \* sent[t]: how often an order with tag t reached the broker
    traded,  \* traded[l]: the units of the leg executed over all slots
    closed,  \* the slots whose run has its final record
    acted    \* the slots whose run counts as having acted on the decision

vars == <<sent, traded, closed, acted>>

Init ==
    /\ sent = [t \in Tags |-> 0]
    /\ traded = [l \in Legs |-> 0]
    /\ closed = {} /\ acted = {}

\* An order leaves for the broker: never a second one with its tag, and no buy before
\* the sell is through.
Send(t) ==
    /\ sent[t] = 0
    /\ t[2] = "Buy" => traded["Sell"] = 1
    /\ sent' = [sent EXCEPT ![t] = 1]
    /\ UNCHANGED <<traded, closed, acted>>

\* An order of the leg executes.
Trade(l) ==
    /\ traded[l] = 0
    /\ \E t \in Tags : t[2] = l /\ sent[t] = 1
    /\ traded' = [traded EXCEPT ![l] = 1]
    /\ UNCHANGED <<sent, closed, acted>>

\* A slot ends; it has acted only if both legs were executed.
Close(k) ==
    /\ k \notin closed
    /\ closed' = closed \cup {k}
    /\ \/ acted' = acted
       \/ traded = [l \in Legs |-> 1] /\ acted' = acted \cup {k}
    /\ UNCHANGED <<sent, traded>>

Next ==
    \/ \E t \in Tags : Send(t)
    \/ \E l \in Legs : Trade(l)
    \/ \E k \in Slots : Close(k)

Spec == Init /\ [][Next]_vars
=============================================================================
