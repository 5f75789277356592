------------------------------ MODULE Flatten ------------------------------
(***************************************************************************)
(* rebalancer-run flatten.rs, with its two callers (finish_flatten of      *)
(* pipeline.rs and monitor.rs): a halted account's position in one         *)
(* instrument is sold, or bought back, until the broker shows it flat.     *)
(* Every broker call is a step; the process may die between two of them,   *)
(* calls fail, answers are lost and requests arrive late.  The account     *)
(* lock serialises the callers, so one attempt runs at a time.             *)
(*                                                                         *)
(* An order's tag is its leg and index; index 0 stands for an order of     *)
(* the run that was halted.  Foreign orders, holdings outside the mandate  *)
(* and the overfill report are left out.                                   *)
(***************************************************************************)
EXTENDS Integers, Sequences, FiniteSets, FiniteSetsExt

CONSTANTS
    FlSizes,      \* the sizes a position, long or short, may have at the halt
    FlLot,        \* the venue's lot: a smaller quantity cannot be traded
    FlMaxRounds,  \* max_rounds
    FlMaxTag,     \* max_tag_index
    FlMaxFaults   \* bound: faults in one behaviour

ASSUME FlattenAssumption == FlSizes \subseteq Nat /\ FlLot \in Nat \ {0} /\ FlMaxTag \in Nat

VARIABLES
    flStart,    \* history: the position at the halt
    flPos,      \* the position at the broker, negative for a short
    flOrders,   \* the broker's orders: leg, index, quantity, executed, live
    flTransit,  \* requests sent whose answer was lost and that have not arrived
    flStatus,   \* the stored account status
    fl,         \* the running attempt
    flFaults,
    flDoubt     \* history: an order was sized while an earlier one could still execute

flVars == <<flStart, flPos, flOrders, flTransit, flStatus, fl, flFaults, flDoubt>>
flBroker == <<flPos, flOrders, flTransit>>

FlStarts == FlSizes \cup {-n : n \in FlSizes}
FlLegs == {"Sell", "Cover"}
FlRequest == [leg : FlLegs, k : 0..FlMaxTag, qty : Nat, try : 1..2]
FlLocal == [pc : {"idle", "cancel", "read", "tag", "place", "look", "settle", "verify", "save"},
            round : 0..FlMaxRounds, req : FlRequest, id : Nat,
            first : Nat,           \* first_short; 0 when no short was seen
            used : Nat,            \* cover_quantity_used
            blocking : BOOLEAN,    \* a blocking failure is in the report
            shortHeld : BOOLEAN,   \* FLATTEN_SHORT_HELD is in the report
            flat : BOOLEAN]        \* the verdict

FlTypeOK ==
    /\ flStart \in FlStarts /\ flPos \in Int
    /\ \A i \in 1..Len(flOrders) :
          flOrders[i].req \in FlRequest /\ flOrders[i].done \in 0..flOrders[i].req.qty
          /\ flOrders[i].live \in BOOLEAN
    /\ flTransit \subseteq FlRequest
    /\ flStatus \in {"Flattening", "Halted"}
    /\ fl \in FlLocal /\ flFaults \in 0..FlMaxFaults /\ flDoubt \in BOOLEAN

FlNoRequest == [leg |-> "Sell", k |-> 0, qty |-> 0, try |-> 1]
FlIdle == [pc |-> "idle", round |-> 0, req |-> FlNoRequest, id |-> 0, first |-> 0, used |-> 0,
           blocking |-> FALSE, shortHeld |-> FALSE, flat |-> FALSE]
FlOrder(req) == [req |-> req, done |-> 0, live |-> TRUE]
FlAbs(n) == IF n < 0 THEN -n ELSE n
FlLegOf(pos) == IF pos < 0 THEN "Cover" ELSE "Sell"

FlInit ==
    /\ flStart \in FlStarts
    /\ flPos = flStart
    /\ \/ flOrders = << >>
       \/ flOrders = <<FlOrder([leg |-> FlLegOf(flStart), k |-> 0, qty |-> FlAbs(flStart), try |-> 1])>>
    /\ flTransit = {}
    /\ flStatus = "Flattening"
    /\ fl = FlIdle
    /\ flFaults = 0
    /\ flDoubt = FALSE

-----------------------------------------------------------------------------
FlFault == flFaults < FlMaxFaults /\ flFaults' = flFaults + 1
FlNoFault == UNCHANGED flFaults
FlGoto(pc) == fl' = [fl EXCEPT !.pc = pc]

FlLive == {i \in DOMAIN flOrders : flOrders[i].live}
FlWithTag(leg, k) == {i \in DOMAIN flOrders : flOrders[i].req.leg = leg /\ flOrders[i].req.k = k}

\* VenueRules::round_quantity: down to the lot; 0 stands for the refusals that make dust.
round_quantity(q) == (q \div FlLot) * FlLot

\* A quantity is being derived from what the broker shows now.
SizesNow == flDoubt' = (flDoubt \/ FlLive # {} \/ flTransit # {})

-----------------------------------------------------------------------------
\* A run or a monitor reading finds the account Flattening and calls flatten; with
\* the known order ids unreadable it does not (monitor.rs finish_flatten).
FlBegin ==
    /\ fl.pc = "idle"
    /\ flStatus = "Flattening"
    /\ fl' = [FlIdle EXCEPT !.pc = "cancel", !.round = 1]
    /\ UNCHANGED <<flStart, flBroker, flStatus, flFaults, flDoubt>>

\* cancel_own_open_orders.  An order list that cannot be read ends the rounds; a
\* cancel that fails is reported, and the round goes on; one that stays pending
\* is a blocking failure.
FlCancel ==
    /\ fl.pc = "cancel"
    /\ \/ FlFault /\ FlGoto("verify") /\ UNCHANGED flOrders
       \/ FlFault /\ FlLive # {} /\ FlGoto("read") /\ UNCHANGED flOrders
       \/ FlFault /\ FlLive # {} /\ fl' = [fl EXCEPT !.pc = "read", !.blocking = TRUE] /\ UNCHANGED flOrders
       \/ /\ FlNoFault
          /\ flOrders' = [i \in DOMAIN flOrders |-> [flOrders[i] EXCEPT !.live = FALSE]]
          /\ FlGoto("read")
    /\ UNCHANGED <<flStart, flPos, flTransit, flStatus, flDoubt>>

\* cover: never buy back more than the short first seen in this call.
FlCover(qty) ==
    LET first == IF fl.first = 0 THEN qty ELSE fl.first
        allowance == first - fl.used
        sized == IF qty > allowance THEN round_quantity(allowance) ELSE qty
    IN  [send |-> allowance > 0 /\ sized > 0, qty |-> sized]

\* The fresh read and plan_sells.
FlRead ==
    LET qty == round_quantity(FlAbs(flPos))
        leg == FlLegOf(flPos)
        size == IF leg = "Cover" THEN FlCover(qty) ELSE [send |-> TRUE, qty |-> qty]
        first == IF leg = "Cover" /\ fl.first = 0 THEN qty ELSE fl.first
    IN  /\ fl.pc = "read"
        /\ \/ FlFault /\ FlGoto("verify") /\ UNCHANGED flDoubt
           \/ /\ FlNoFault
              /\ SizesNow
              /\ fl' = IF qty = 0 THEN [fl EXCEPT !.pc = "verify"]
                       ELSE IF size.send
                       THEN [fl EXCEPT !.pc = "tag", !.first = first,
                                       !.req = [FlNoRequest EXCEPT !.leg = leg, !.qty = size.qty]]
                       ELSE [fl EXCEPT !.shortHeld = TRUE, !.first = first,
                                       !.pc = IF fl.round < FlMaxRounds THEN "cancel" ELSE "verify",
                                       !.round = IF fl.round < FlMaxRounds THEN @ + 1 ELSE @]
        /\ UNCHANGED <<flStart, flBroker, flStatus>>

\* The order is over: another round, or the final verification.
FlEndOrder(local) ==
    fl' = [local EXCEPT !.pc = IF local.round < FlMaxRounds THEN "cancel" ELSE "verify",
                        !.round = IF local.round < FlMaxRounds THEN @ + 1 ELSE @]

\* Wrong variant: one index past the last is tried too.
FreeTagPastLast(leg) == {k \in 1..(FlMaxTag + 1) : FlWithTag(leg, k) = {}}

\* free_tag: the indices the broker has no order for.
free_tag(leg) == {k \in 1..FlMaxTag : FlWithTag(leg, k) = {}}

FlTag ==
    LET free == free_tag(fl.req.leg) IN
    /\ fl.pc = "tag"
    /\ \/ FlFault /\ FlEndOrder(fl)
       \/ FlNoFault /\ IF free = {} THEN FlEndOrder(fl)
                       ELSE fl' = [fl EXCEPT !.pc = "place", !.req.k = Min(free)]
    /\ UNCHANGED <<flStart, flBroker, flStatus, flDoubt>>

\* place_leg: accepted, refused or not sent, or the answer is lost.
FlPlace ==
    /\ fl.pc = "place"
    /\ \/ /\ FlNoFault
          /\ flOrders' = Append(flOrders, FlOrder(fl.req))
          /\ fl' = [fl EXCEPT !.pc = "settle", !.id = Len(flOrders) + 1]
          /\ UNCHANGED flTransit
       \/ FlFault /\ FlEndOrder(fl) /\ UNCHANGED <<flOrders, flTransit>>
       \/ /\ FlFault
          /\ FlGoto("look")
          /\ \/ flOrders' = Append(flOrders, FlOrder(fl.req)) /\ UNCHANGED flTransit
             \/ flTransit' = flTransit \cup {fl.req} /\ UNCHANGED flOrders
    /\ UNCHANGED <<flStart, flPos, flStatus, flDoubt>>

\* After a lost answer: adopt what carries the tag, or try once more with it.
FlLook ==
    LET found == FlWithTag(fl.req.leg, fl.req.k) IN
    /\ fl.pc = "look"
    /\ \/ FlFault /\ FlEndOrder(fl) /\ UNCHANGED flDoubt
       \/ /\ FlNoFault
          /\ IF found # {} THEN fl' = [fl EXCEPT !.pc = "settle", !.id = Min(found)] /\ UNCHANGED flDoubt
             ELSE IF fl.req.try = 1
             THEN fl' = [fl EXCEPT !.pc = "place", !.req.try = 2] /\ SizesNow
             ELSE FlEndOrder(fl) /\ UNCHANGED flDoubt
    /\ UNCHANGED <<flStart, flBroker, flStatus>>

\* What a recorded order counts against the cover's bound.
FlCounted(n) == IF fl.req.leg = "Cover" THEN fl.used + n ELSE fl.used

\* settle_and_record: polled to its end, cancelled if it will not end (a fault
\* here: a market order executes while its venue is open); an order
\* that cannot be read, or is live after its cancel, is a blocking failure.  A
\* live one that executed in part is recorded as what it executed.
FlSettle ==
    LET order == flOrders[fl.id] IN
    /\ fl.pc = "settle"
    /\ \/ /\ FlFault
          /\ \E n \in {fl.req.qty, IF order.done > 0 THEN order.done ELSE fl.req.qty} :
                FlEndOrder([fl EXCEPT !.blocking = TRUE, !.used = FlCounted(n)])
          /\ UNCHANGED flOrders
       \/ /\ IF order.live THEN FlFault ELSE FlNoFault
          /\ flOrders' = [flOrders EXCEPT ![fl.id].live = FALSE]
          /\ FlEndOrder([fl EXCEPT !.used = FlCounted(order.done)])
    /\ UNCHANGED <<flStart, flPos, flTransit, flStatus, flDoubt>>

\* Wrong variant: what was sold is believed; what is left is not looked at.
FlVerdictTrusting(local) == ~local.blocking /\ ~local.shortHeld

\* Wrong variant: dust is a holding like any other.
FlVerdictNoDust(local) ==
    ~local.blocking /\ ~local.shortHeld /\ flPos = 0 /\ FlLive = {}

\* verified_flat and the verdict, from a fresh read.
FlVerdict(local) ==
    /\ ~local.blocking /\ ~local.shortHeld
    /\ round_quantity(FlAbs(flPos)) = 0
    /\ FlLive = {}

FlVerify ==
    /\ fl.pc = "verify"
    /\ \/ FlFault /\ fl' = [fl EXCEPT !.pc = "save", !.flat = FALSE] /\ UNCHANGED flDoubt
       \/ FlNoFault /\ SizesNow /\ fl' = [fl EXCEPT !.pc = "save", !.flat = FlVerdict(fl)]
    /\ UNCHANGED <<flStart, flBroker, flStatus>>

\* complete_flatten and save_state: flat means Halted; anything else is retried.
FlSave ==
    /\ fl.pc = "save"
    /\ fl' = FlIdle
    /\ \/ FlFault /\ UNCHANGED flStatus
       \/ FlNoFault /\ flStatus' = IF fl.flat THEN "Halted" ELSE flStatus
    /\ UNCHANGED <<flStart, flBroker, flDoubt>>

\* The process dies; the next run or reading starts a new attempt.
FlCrash ==
    /\ fl.pc # "idle"
    /\ FlFault
    /\ fl' = FlIdle
    /\ UNCHANGED <<flStart, flBroker, flStatus, flDoubt>>

-----------------------------------------------------------------------------
(* The broker's own steps. *)

FlSigned(leg, n) == IF leg = "Sell" THEN -n ELSE n

\* An order executes, in part or to its end.
FlExecute(i) ==
    /\ flOrders[i].live
    /\ \E n \in 1..(flOrders[i].req.qty - flOrders[i].done) :
          /\ flPos' = flPos + FlSigned(flOrders[i].req.leg, n)
          /\ flOrders' = [flOrders EXCEPT ![i].done = @ + n, ![i].live = @ /\ flOrders[i].done + n < flOrders[i].req.qty]
    /\ UNCHANGED <<flStart, flTransit, flStatus, fl, flFaults, flDoubt>>

\* A late request arrives, or is gone.
FlLand(r) ==
    /\ r \in flTransit
    /\ flTransit' = flTransit \ {r}
    /\ flOrders' = Append(flOrders, FlOrder(r)) \/ UNCHANGED flOrders
    /\ UNCHANGED <<flStart, flPos, flStatus, fl, flFaults, flDoubt>>

FlStep == FlBegin \/ FlCancel \/ FlRead \/ FlTag \/ FlPlace \/ FlLook \/ FlSettle \/ FlVerify \/ FlSave

FlNext ==
    \/ FlStep \/ FlCrash
    \/ \E i \in DOMAIN flOrders : FlExecute(i)
    \/ \E r \in flTransit : FlLand(r)

FlSpec == FlInit /\ [][FlNext]_flVars

-----------------------------------------------------------------------------
\* A flatten never turns a long into a short or a short into a long, and an account
\* it reports flat is flat, over crashes, retries and lost answers: unless a
\* quantity was read while an earlier order was live or on its way, which a
\* failed cancel or a late request makes possible (flatten.rs place_leg, cover).
FlattenOnlyReduces ==
    flDoubt \/ /\ flStart >= 0 => flPos >= 0
               /\ flStart <= 0 => flPos <= 0
               /\ flStatus = "Halted" => FlAbs(flPos) < FlLot /\ FlLive = {} /\ flTransit = {}

\* Never at all, as the module's guarantees say ("flatten can never open or flip a
\* position").
FlattenNeverFlips == (flStart >= 0 => flPos >= 0) /\ (flStart <= 0 => flPos <= 0)

\* A halted account is flattened in the end, whatever failed before: every attempt
\* finds a free tag and what is left to trade (finish_flatten is retried).
FlattenCompletes == <>(flStatus = "Halted")
=============================================================================
