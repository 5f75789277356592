------------------------------ MODULE MultiLeg ------------------------------
(***************************************************************************)
(* executionhandler multi_leg.rs: one group of linked orders (OCO, bracket *)
(* or linked pair).  The manager only keeps the books: the caller places   *)
(* pending legs at the exchange, reports the exchange's order id, feeds    *)
(* the fills back and sends the cancels it is told to.  Between the caller *)
(* and the exchange messages cross, so a fill may be reported before its   *)
(* order id, or for a leg the books already call cancelled.                *)
(***************************************************************************)
EXTENDS Naturals, FiniteSets

CONSTANT LegQty  \* lots of every leg

ASSUME LegAssumption == LegQty \in Nat \ {0}

\* BracketNow: a bracket with submit_contingent_immediately
MlTypes == {"OCO", "Bracket", "BracketNow", "LinkedPair"}
LegStatuses == {"Waiting", "Pending", "Submitted", "PartiallyFilled", "Filled", "Cancelled"}

\* The legs of each kind of group and how they begin.
LegsOf == [OCO        |-> [legA |-> "Pending", legB |-> "Pending"],
           Bracket    |-> [entry |-> "Pending", stopLoss |-> "Waiting", takeProfit |-> "Waiting"],
           BracketNow |-> [entry |-> "Pending", stopLoss |-> "Pending", takeProfit |-> "Pending"],
           LinkedPair |-> [long |-> "Pending", short |-> "Pending"]]

\* The leg that a full fill of this one cancels.
OtherLeg == [legA |-> "legB", legB |-> "legA", stopLoss |-> "takeProfit", takeProfit |-> "stopLoss"]

VARIABLES
    mlGroup,   \* the group: its type, state and legs (status and lots filled)
    mlPlaced,  \* legs the caller has sent to the exchange
    mlLinked,  \* legs whose exchange order id was reported
    mlRaced    \* history: did a fill overtake an order id, or hit a cancelled leg or group?

mlVars == <<mlGroup, mlPlaced, mlLinked, mlRaced>>

MlTypeOK ==
    /\ mlGroup.type \in MlTypes \cup {"unset"}
    /\ mlGroup.state \in {"Pending", "EntryFilled", "PartiallyFilled", "Completed", "Cancelled"}
    /\ \A l \in DOMAIN mlGroup.status :
          mlGroup.status[l] \in LegStatuses /\ mlGroup.filled[l] \in 0..LegQty
    /\ mlLinked \subseteq mlPlaced /\ mlPlaced \subseteq DOMAIN mlGroup.status
    /\ mlRaced \in BOOLEAN

MlInit ==
    /\ mlGroup = [type |-> "unset", state |-> "Pending", status |-> << >>, filled |-> << >>]
    /\ mlPlaced = {} /\ mlLinked = {} /\ mlRaced = FALSE

\* create_oco, create_bracket, create_linked_pair
MlCreate(type) ==
    /\ mlGroup.type = "unset"
    /\ mlGroup' = [type |-> type, state |-> "Pending", status |-> LegsOf[type],
                   filled |-> [l \in DOMAIN LegsOf[type] |-> 0]]
    /\ UNCHANGED <<mlPlaced, mlLinked, mlRaced>>

-----------------------------------------------------------------------------
MlLegs == DOMAIN mlGroup.status
is_terminal_group == mlGroup.state \in {"Completed", "Cancelled"}

\* The caller sends a pending leg to the exchange ...
MlPlace(l) ==
    /\ mlGroup.status[l] = "Pending" /\ l \notin mlPlaced
    /\ mlPlaced' = mlPlaced \cup {l}
    /\ UNCHANGED <<mlGroup, mlLinked, mlRaced>>

\* ... and reports the order id; the leg is Submitted whatever it was.
link_exchange_order(l) ==
    /\ l \in mlPlaced \ mlLinked
    /\ mlGroup' = [mlGroup EXCEPT !.status[l] = "Submitted"]
    /\ mlLinked' = mlLinked \cup {l}
    /\ mlRaced' = (mlRaced \/ mlGroup.status[l] # "Pending" \/ is_terminal_group)
    /\ UNCHANGED mlPlaced

\* A plausible slip: only a leg that has not begun to fill is cancelled.
CancelOtherSubmitted(status, l) ==
    IF status[OtherLeg[l]] # "Submitted" THEN status ELSE [status EXCEPT ![OtherLeg[l]] = "Cancelled"]

\* The other leg is cancelled unless it already is cancelled or filled.
CancelOther(status, l) ==
    IF status[OtherLeg[l]] \in {"Cancelled", "Filled"} THEN status
    ELSE [status EXCEPT ![OtherLeg[l]] = "Cancelled"]

\* The statuses of the legs after leg l has become fully filled.
AfterLegFilled(status, l) ==
    IF l = "entry"
    THEN [k \in DOMAIN status |-> IF status[k] = "Waiting" THEN "Pending" ELSE status[k]]
    ELSE IF l \in DOMAIN OtherLeg THEN CancelOther(status, l) ELSE status

\* The state of the group after a fill of leg l.
GroupStateAfter(type, state, status, l) ==
    CASE type = "LinkedPair" /\ \A k \in DOMAIN status : status[k] = "Filled" -> "Completed"
      [] type = "LinkedPair" /\ \E k \in DOMAIN status : status[k] = "PartiallyFilled" -> "PartiallyFilled"
      [] type # "LinkedPair" /\ status[l] = "Filled" -> IF l = "entry" THEN "EntryFilled" ELSE "Completed"
      [] OTHER -> state

\* The status of neither the leg nor the group is looked at first.
process_leg_fill(l, lots) ==
    LET filled == mlGroup.filled[l] + lots
        own == [mlGroup.status EXCEPT ![l] = IF filled >= LegQty THEN "Filled" ELSE "PartiallyFilled"]
        status == IF filled >= LegQty THEN AfterLegFilled(own, l) ELSE own
    IN  /\ l \in mlPlaced /\ filled <= LegQty
        /\ mlGroup' = [mlGroup EXCEPT !.status = status, !.filled[l] = filled,
                          !.state = GroupStateAfter(mlGroup.type, mlGroup.state, status, l)]
        /\ mlRaced' = (mlRaced \/ l \notin mlLinked \/ mlGroup.status[l] = "Cancelled" \/ is_terminal_group)
        /\ UNCHANGED <<mlPlaced, mlLinked>>

\* cancel_group: legs at the exchange are cancelled, the rest keep their status.
cancel_group ==
    /\ mlGroup.type # "unset" /\ ~is_terminal_group
    /\ mlGroup' = [mlGroup EXCEPT !.state = "Cancelled",
          !.status = [l \in MlLegs |-> IF mlGroup.status[l] \in {"Submitted", "PartiallyFilled"}
                                       THEN "Cancelled" ELSE mlGroup.status[l]]]
    /\ UNCHANGED <<mlPlaced, mlLinked, mlRaced>>

MlNext ==
    \/ \E type \in MlTypes : MlCreate(type)
    \/ \E l \in MlLegs : MlPlace(l) \/ link_exchange_order(l)
    \/ \E l \in MlLegs, lots \in 1..LegQty : process_leg_fill(l, lots)
    \/ cancel_group

MlSpec == MlInit /\ [][MlNext]_mlVars

-----------------------------------------------------------------------------
\* Unless messages crossed, a completed group has exactly one exit: of two exclusive legs
\* one is filled and the other cancelled, and a bracket whose exits wait for its entry
\* leaves only after the whole entry, however the legs were partly filled before.
OneExit ==
    mlGroup.state = "Completed" /\ ~mlRaced =>
        /\ \A l \in MlLegs \cap DOMAIN OtherLeg :
              {mlGroup.status[l], mlGroup.status[OtherLeg[l]]} = {"Filled", "Cancelled"}
        /\ mlGroup.type = "Bracket" => mlGroup.status["entry"] = "Filled"
        /\ mlGroup.type = "LinkedPair" => \A l \in MlLegs : mlGroup.filled[l] = LegQty

\* A cancelled group stays cancelled: the state the manager reports as terminal is final.
TerminalStaysTerminal == [][is_terminal_group => mlGroup'.state = mlGroup.state]_mlVars
=============================================================================
