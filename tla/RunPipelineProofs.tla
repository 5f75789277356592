------------------------- MODULE RunPipelineProofs -------------------------
(***************************************************************************)
(* Proofs about RunPipeline for every set of processes, every number of    *)
(* slots and every world.                                                  *)
(***************************************************************************)
EXTENDS RunPipeline, SetLemmas

-----------------------------------------------------------------------------
(* Operators. *)

\* An order of the broker, and the broker's orders by their ids.
Order == [tag : Tags, status : {"open", "filled", "cancelled"}]

LEMMA OrdersType ==
    ASSUME TypeOK
    PROVE  /\ orders \in [OrderIds -> Order] /\ OrderIds = 1..Len(orders) /\ Len(orders) \in Nat
           /\ OrderIds \subseteq Nat /\ IsFiniteSet(OrderIds)
<1>1. orders \in Seq(Order)
  BY DEF TypeOK, Order
<1>2. OrderIds = 1..Len(orders) /\ Len(orders) \in Nat /\ orders \in [OrderIds -> Order]
  BY <1>1 DEF OrderIds
<1> QED
  BY <1>2, FS_Interval

\* How many orders of a set executed is a number.
LEMMA ExecutedType ==
    ASSUME TypeOK, NEW ids \in SUBSET OrderIds, NEW l
    PROVE  /\ IsFiniteSet({i \in ids : orders[i].tag[2] = l /\ orders[i].status = "filled"})
           /\ Executed(ids, l) \in Nat
<1>1. {i \in ids : orders[i].tag[2] = l /\ orders[i].status = "filled"} \in SUBSET OrderIds
  OBVIOUS
<1>2. IsFiniteSet({i \in ids : orders[i].tag[2] = l /\ orders[i].status = "filled"})
  BY <1>1, OrdersType, FS_Subset
<1> QED
  BY <1>2, FS_CardinalityType DEF Executed

\* A snapshot is a view, and so is a view plus fills.
LEMMA ViewType ==
    ASSUME TypeOK
    PROVE  /\ snapshot \in Views
           /\ \A b \in Views, ids \in SUBSET OrderIds : after_orders(b, ids) \in Views
<1>1. snapshot \in Views
  BY ExecutedType DEF snapshot, Views
<1>2. ASSUME NEW b \in Views, NEW ids \in SUBSET OrderIds
      PROVE  after_orders(b, ids) \in Views
  <2>1. Executed(ids, "Sell") \in Nat /\ Executed(ids, "Buy") \in Nat
    BY ExecutedType
  <2>2. b.sold \in Nat /\ b.bought \in Nat
    BY DEF Views
  <2> QED
    BY <2>1, <2>2 DEF after_orders, Views
<1> QED
  BY <1>1, <1>2

\* The pre-trade baseline is a view, or none.
LEMMA BaselineType ==
    ASSUME TypeOK
    PROVE  pre_baseline \in Optional(Views) /\ in_flight_orders \in SUBSET OrderIds
<1> DEFINE withView == {k \in Slots : runs[k].status = "done" /\ runs[k].snapshot # None}
<1>1. withView # {} => Max(withView) \in withView
  BY MaxInSet, PipelineAssumption DEF Slots
<1>2. last_snapshot \in Optional(Views)
  <2>1. CASE withView = {}
    BY <2>1 DEF last_snapshot, Optional
  <2>2. CASE withView # {}
    <3>1. last_snapshot = runs[Max(withView)].snapshot /\ Max(withView) \in Slots
      BY <1>1, <2>2 DEF last_snapshot
    <3> QED
      BY <3>1 DEF TypeOK, RunRow
  <2> QED
    BY <2>1, <2>2
<1>3. in_flight_orders \in SUBSET OrderIds
  BY DEF in_flight_orders
<1> QED
  BY <1>2, <1>3, ViewType DEF pre_baseline, Optional

-----------------------------------------------------------------------------
(* Type correctness. *)

\* An attempt that records or settles an order knows an id that exists and
\* carries its own tag (execute_order: the id is the broker's answer or a look-up).
Following ==
    \A p \in Procs : run[p].pc \in {"journal", "settle"} =>
        LET placed == run[p].placed[run[p].leg] IN
        placed # None /\ placed.id \in OrderIds /\ orders[placed.id].tag = tag(p)

\* A fault is counted within the bound.
LEMMA FaultType ==
    ASSUME TypeOK, world' = world, NoFault \/ \E f \in FaultKinds : Fault(f)
    PROVE  world' \in Worlds /\ faults' \in 0..world'.maxFaults
<1>1. world \in World
  BY PipelineAssumption DEF TypeOK
<1>2. world.maxFaults \in Nat
  BY <1>1 DEF World
<1> QED
  BY <1>2 DEF TypeOK, NoFault, Fault

\* Local variables replaced by well-typed ones, or sent to another step, are well typed.
LEMMA BecomeType ==
    ASSUME TypeOK, NEW p \in Procs, NEW local \in Local, Become(p, local)
    PROVE  run' \in [Procs -> Local]
BY DEF TypeOK, Become

LEMMA GotoType ==
    ASSUME TypeOK, NEW p \in Procs, NEW pc \in Steps, Goto(p, pc)
    PROVE  run' \in [Procs -> Local]
<1>1. run[p] \in Local
  BY DEF TypeOK
<1>2. [run[p] EXCEPT !.pc = pc] \in Local
  BY <1>1 DEF Local
<1>3. run' = [run EXCEPT ![p] = [run[p] EXCEPT !.pc = pc]]
  BY DEF Goto
<1> QED
  BY <1>2, <1>3 DEF TypeOK

LEMMA StopType ==
    ASSUME TypeOK, NEW p \in Procs, NEW kind \in Kinds, Stop(p, kind)
    PROVE  run' \in [Procs -> Local]
<1>1. run[p] \in Local
  BY DEF TypeOK
<1>2. [run[p] EXCEPT !.pc = "finish", !.kind = kind] \in Local
  BY <1>1 DEF Local, Steps
<1>3. run' = [run EXCEPT ![p] = [run[p] EXCEPT !.pc = "finish", !.kind = kind]]
  BY DEF Stop
<1> QED
  BY <1>2, <1>3 DEF TypeOK

\* A halt for reconciliation keeps the types.
LEMMA HaltReconciliationType ==
    ASSUME TypeOK, NEW p \in Procs, NEW local \in Local, HaltReconciliation(p, local)
    PROVE  run' \in [Procs -> Local] /\ acct' \in [halted : BOOLEAN, version : Nat]
<1>1. \A kind \in Kinds : [local EXCEPT !.pc = "finish", !.kind = kind] \in Local
  BY DEF Local, Steps
<1>2. "Halted" \in Kinds /\ "FailedClosed" \in Kinds
  BY DEF Kinds
<1>3. CASE Saves(p)
  <2>1. Become(p, [local EXCEPT !.pc = "finish", !.kind = "Halted"])
    BY <1>3 DEF HaltReconciliation
  <2>2. acct' \in [halted : BOOLEAN, version : Nat]
    <3>1. acct.version \in Nat
      BY DEF TypeOK
    <3>2. acct' = [halted |-> TRUE, version |-> acct.version + 1]
      BY <1>3 DEF HaltReconciliation
    <3> QED
      BY <3>1, <3>2
  <2> QED
    BY <1>1, <1>2, <2>1, <2>2, BecomeType
<1>4. CASE ~Saves(p)
  <2>1. Become(p, [local EXCEPT !.pc = "finish", !.kind = "FailedClosed"])
    BY <1>4 DEF HaltReconciliation
  <2>2. acct' \in [halted : BOOLEAN, version : Nat]
    BY <1>4 DEF HaltReconciliation, TypeOK
  <2> QED
    BY <1>1, <1>2, <2>1, <2>2, BecomeType
<1> QED
  BY <1>3, <1>4

\* The local variables with what became of the order of a leg.
LEMMA PlacedType ==
    ASSUME TypeOK, NEW p \in Procs, NEW placed \in Placed, NEW pc \in Steps
    PROVE  [run[p] EXCEPT !.placed[run[p].leg] = placed, !.pc = pc] \in Local
<1>1. run[p] \in Local
  BY DEF TypeOK
<1>2. [run[p].placed EXCEPT ![run[p].leg] = placed] \in [Legs -> Optional(Placed)]
  BY <1>1 DEF Local, Optional
<1> QED
  BY <1>1, <1>2 DEF Local

\* A leg that ends, or follows an order, keeps the types.
LEMMA EndLegType ==
    ASSUME TypeOK, NEW p \in Procs, NEW placed \in Placed,
           EndLeg(p, placed)
    PROVE  run' \in [Procs -> Local]
<1> DEFINE pc == IF run[p].leg = "Sell" /\ "Buy" \in run[p].plan THEN "replan" ELSE "last_look"
<1>1. pc \in Steps
  BY DEF Steps
<1> HIDE DEF pc
<1>2. [run[p] EXCEPT !.placed[run[p].leg] = placed, !.pc = pc] \in Local
  BY <1>1, PlacedType
<1> QED
  BY <1>2, BecomeType DEF EndLeg, pc

LEMMA FollowType ==
    ASSUME TypeOK, NEW p \in Procs, NEW placed \in Placed, NEW pc \in Steps,
           Become(p, [run[p] EXCEPT !.placed[run[p].leg] = placed, !.pc = pc])
    PROVE  run' \in [Procs -> Local]
BY PlacedType, BecomeType

LEMMA LegPlacedType ==
    ASSUME NEW outcome \in Outcomes, NEW id \in Optional(Nat)
    PROVE  LegPlaced(outcome, id) \in Placed
BY DEF LegPlaced, Placed

\* The order found by a tag that names one exists.
LEMMA FoundType ==
    ASSUME TypeOK, NEW t, find_by_tag(t) # {}
    PROVE  /\ Min(find_by_tag(t)) \in OrderIds /\ Min(find_by_tag(t)) \in Nat
           /\ orders[Min(find_by_tag(t))].tag = t
<1>1. find_by_tag(t) \in SUBSET Nat
  BY OrdersType DEF find_by_tag
<1> QED
  BY <1>1, MinInSet DEF find_by_tag

\* The broker's orders after an order arrives.
LEMMA AppendType ==
    ASSUME TypeOK, NEW t \in Tags, orders' = Append(orders, NewOrder(t))
    PROVE  /\ orders' \in Seq(Order)
           /\ OrderIds' = OrderIds \cup {Len(orders) + 1}
           /\ Len(orders) + 1 \notin OrderIds
           /\ orders'[Len(orders) + 1] = NewOrder(t)
           /\ \A i \in OrderIds : orders'[i] = orders[i]
<1>1. orders \in Seq(Order) /\ NewOrder(t) \in Order
  BY DEF TypeOK, Order, NewOrder
<1> QED
  BY <1>1 DEF OrderIds

\* Every step of a process keeps the types.
LEMMA ProcTypeStep ==
    ASSUME TypeOK, Following, NEW p \in Procs, Step(p) \/ Crash(p)
    PROVE  TypeOK'
<1> DEFINE Kept == /\ slot' = slot /\ lock' \in Optional(Procs) /\ leased' \in [Slots -> BOOLEAN]
                   /\ runs' \in [Slots -> RunRow] /\ acct' \in [halted : BOOLEAN, version : Nat]
                   /\ orders' \in Seq(Order) /\ transit' \subseteq Tags
                   /\ run' \in [Procs -> Local]
<1> USE DEF FaultKinds
<1>0. run[p] \in Local /\ run[p].key \in Slots /\ run[p].leg \in Legs /\ tag(p) \in Tags
      /\ runs[run[p].key] \in RunRow /\ slot \in Slots /\ orders \in Seq(Order)
  BY DEF TypeOK, Local, tag, Tags, Order
<1>f. world' = world /\ (NoFault \/ \E f \in FaultKinds : Fault(f))
  BY DEF Step, Crash, TryLock, Begin, BeginFails, Gate, ReadAccount, Cleanup, Reread, ReconPre, Risk,
         Plan, LookUp, JournalIntent, Place, JournalId, LookAgain, Settle, Replan, LastLookUp, ReconPost,
         Finish, Unlock, NoFault, FailClosed
<1>i. Idle \in Local /\ [Idle EXCEPT !.pc = "begin", !.key = slot] \in Local
  <2>1. 1 \in Slots
    BY PipelineAssumption DEF Slots
  <2> QED
    BY <1>0, <2>1 DEF Idle, Local, Steps, Kinds, Legs, Optional, Views
<1>same. /\ UNCHANGED runs => runs' \in [Slots -> RunRow]
         /\ UNCHANGED leased => leased' \in [Slots -> BOOLEAN]
         /\ UNCHANGED acct => acct' \in [halted : BOOLEAN, version : Nat]
         /\ UNCHANGED orders => orders' \in Seq(Order)
         /\ UNCHANGED transit => transit' \subseteq Tags
         /\ UNCHANGED lock => lock' \in Optional(Procs)
  BY DEF TypeOK, Order
<1> SUFFICES Kept
  BY <1>0, <1>f, FaultType DEF TypeOK, Order
<1>1. CASE TryLock(p)
  BY <1>1, <1>i, <1>same, BecomeType DEF TryLock, Optional, store, broker
<1>2. CASE Begin(p)
  <2>1. CASE UNCHANGED store
    BY <1>2, <2>1, <1>same, GotoType DEF Begin, Steps, store, broker
  <2>2. CASE /\ runs' = [runs EXCEPT ![run[p].key].status = "in_progress", ![run[p].key].attempt = @ + 1]
             /\ leased' = [leased EXCEPT ![run[p].key] = TRUE]
             /\ Goto(p, "gate")
    <3>1. [runs[run[p].key] EXCEPT !.status = "in_progress", !.attempt = @ + 1] \in RunRow
      <4>1. runs[run[p].key].attempt + 1 \in Nat
        BY <1>0 DEF RunRow
      <4> QED
        BY <1>0, <4>1 DEF RunRow
    <3>2. runs' \in [Slots -> RunRow] /\ leased' \in [Slots -> BOOLEAN]
      BY <2>2, <3>1 DEF TypeOK
    <3> QED
      BY <1>2, <2>2, <3>2, <1>same, GotoType DEF Begin, Steps, broker
  <2> QED
    BY <1>2, <2>1, <2>2 DEF Begin
<1>3. CASE BeginFails(p)
  BY <1>3, <1>same, GotoType DEF BeginFails, Steps, store, broker
<1>4. CASE Gate(p)
  <2>1. CASE Stop(p, "Refused") \/ Stop(p, "FailedClosed") \/ Stop(p, "Completed")
    BY <1>4, <2>1, <1>same, StopType DEF Gate, Kinds, store, broker
  <2>2. CASE Become(p, [run[p] EXCEPT !.pc = "read", !.planned = Pending])
    <3>1. Pending \in BOOLEAN
      BY DEF Pending
    <3>2. [run[p] EXCEPT !.pc = "read", !.planned = Pending] \in Local
      BY <1>0, <3>1 DEF Local, Steps
    <3> QED
      BY <1>4, <2>2, <3>2, <1>same, BecomeType DEF Gate, store, broker
  <2> QED
    BY <1>4, <2>1, <2>2 DEF Gate, FailClosed
<1>5. CASE ReadAccount(p)
  <2> DEFINE pc == IF acct.halted THEN "finish" ELSE IF OpenOrders # {} THEN "cleanup" ELSE "recon_pre"
             kind == IF acct.halted THEN "Refused" ELSE "Completed"
  <2>1. pc \in Steps /\ kind \in Kinds
    BY DEF Steps, Kinds
  <2>2. CASE FailClosed(p)
    BY <1>5, <2>2, <1>same, StopType DEF ReadAccount, FailClosed, Kinds, store, broker
  <2>3. CASE Become(p, [run[p] EXCEPT !.pre = snapshot, !.version = acct.version, !.pc = pc, !.kind = kind])
    <3> HIDE DEF pc, kind
    <3>1. acct.version \in Nat /\ snapshot \in Optional(Views)
      BY ViewType DEF TypeOK, Optional
    <3>2. [run[p] EXCEPT !.pre = snapshot, !.version = acct.version, !.pc = pc, !.kind = kind] \in Local
      BY <1>0, <2>1, <3>1 DEF Local
    <3> QED
      BY <1>5, <2>3, <3>2, <1>same, BecomeType DEF ReadAccount, store, broker
  <2> QED
    BY <1>5, <2>2, <2>3 DEF ReadAccount
<1>6. CASE Cleanup(p)
  <2>1. CASE FailClosed(p) /\ UNCHANGED orders
    BY <1>6, <2>1, <1>same, StopType DEF Cleanup, FailClosed, Kinds, store
  <2>2. CASE /\ orders' = [i \in OrderIds |-> IF i \in OpenOrders THEN [orders[i] EXCEPT !.status = "cancelled"]
                                              ELSE orders[i]]
             /\ Goto(p, "reread")
    <3>1. ASSUME NEW i \in OrderIds
          PROVE  orders[i] \in Order /\ [orders[i] EXCEPT !.status = "cancelled"] \in Order
      BY OrdersType DEF Order
    <3>2. orders' \in [1..Len(orders) -> Order]
      BY <2>2, <3>1, OrdersType
    <3>3. orders' \in Seq(Order)
      BY <3>2, OrdersType
    <3> QED
      BY <1>6, <2>2, <3>3, <1>same, GotoType DEF Cleanup, Steps, store
  <2> QED
    BY <1>6, <2>1, <2>2 DEF Cleanup
<1>7. CASE Reread(p)
  <2>1. CASE FailClosed(p)
    BY <1>7, <2>1, <1>same, StopType DEF Reread, FailClosed, Kinds, store, broker
  <2>2. CASE Become(p, [run[p] EXCEPT !.pc = "recon_pre", !.pre = snapshot])
    <3>1. [run[p] EXCEPT !.pc = "recon_pre", !.pre = snapshot] \in Local
      BY <1>0, ViewType DEF Local, Steps, Optional
    <3> QED
      BY <1>7, <2>2, <3>1, <1>same, BecomeType DEF Reread, store, broker
  <2> QED
    BY <1>7, <2>1, <2>2 DEF Reread
<1>8. CASE ReconPre(p)
  <2> DEFINE base == IF pre_baseline = None THEN run[p].pre ELSE pre_baseline
             local == [run[p] EXCEPT !.applied = in_flight_orders, !.base = base]
  <2>1. CASE FailClosed(p) /\ UNCHANGED acct
    BY <1>8, <2>1, <1>same, StopType DEF ReconPre, FailClosed, Kinds, store, broker
  <2>2. local \in Local
    <3>1. in_flight_orders \in SUBSET Nat /\ base \in Optional(Views)
      BY <1>0, BaselineType, OrdersType DEF Local, Optional
    <3> HIDE DEF base
    <3> QED
      BY <1>0, <3>1 DEF Local
  <2>3. CASE Become(p, [local EXCEPT !.pc = "risk"]) /\ UNCHANGED acct
    <3>1. [local EXCEPT !.pc = "risk"] \in Local
      <4> HIDE DEF local
      <4> QED
        BY <2>2 DEF Local, Steps
    <3> QED
      BY <1>8, <2>3, <3>1, <1>same, BecomeType DEF ReconPre, store, broker
  <2>4. CASE HaltReconciliation(p, local)
    <3> HIDE DEF local
    <3> QED
      BY <1>8, <2>2, <2>4, <1>same, HaltReconciliationType DEF ReconPre, store, broker
  <2> QED
    BY <1>8, <2>1, <2>3, <2>4 DEF ReconPre
<1>9. CASE Risk(p)
  <2>1. CASE Stop(p, "FailedClosed") /\ UNCHANGED acct
    BY <1>9, <2>1, <1>same, StopType DEF Risk, Kinds, store, broker
  <2>2. CASE /\ acct' = [acct EXCEPT !.version = @ + 1]
             /\ Become(p, [run[p] EXCEPT !.pc = "plan", !.version = @ + 1])
    <3>1. acct' \in [halted : BOOLEAN, version : Nat]
      <4>1. acct \in [halted : BOOLEAN, version : Nat]
        BY DEF TypeOK
      <4> QED
        BY <2>2, <4>1
    <3>2. [run[p] EXCEPT !.pc = "plan", !.version = @ + 1] \in Local
      <4>1. run[p].version + 1 \in Nat
        BY <1>0 DEF Local
      <4> QED
        BY <1>0, <4>1 DEF Local, Steps
    <3> QED
      BY <1>9, <2>2, <3>1, <3>2, <1>same, BecomeType DEF Risk, store, broker
  <2> QED
    BY <1>9, <2>1, <2>2 DEF Risk, FailClosed
<1>10. CASE Plan(p)
  <2> DEFINE legs == IF ~run[p].planned THEN {}
                     ELSE {l \in Legs : IF l = "Sell" THEN run[p].pre.sold = 0 ELSE run[p].pre.bought = 0}
             first == IF "Sell" \in legs THEN "look_up" ELSE IF "Buy" \in legs THEN "replan" ELSE "last_look"
  <2>1. CASE FailClosed(p)
    BY <1>10, <2>1, <1>same, StopType DEF Plan, FailClosed, Kinds, store, broker
  <2>2. CASE Become(p, [run[p] EXCEPT !.plan = legs, !.leg = "Sell", !.pc = first])
    <3>1. legs \in SUBSET Legs /\ first \in Steps /\ "Sell" \in Legs
      BY DEF Steps, Legs
    <3> HIDE DEF legs, first
    <3>2. [run[p] EXCEPT !.plan = legs, !.leg = "Sell", !.pc = first] \in Local
      BY <1>0, <3>1 DEF Local
    <3> QED
      BY <1>10, <2>2, <3>2, <1>same, BecomeType DEF Plan, store, broker
  <2> QED
    BY <1>10, <2>1, <2>2 DEF Plan
<1>11. CASE LookUp(p)
  <2>1. CASE NotSent(p)
    BY <1>11, <2>1, <1>same, EndLegType, LegPlacedType DEF LookUp, NotSent, Outcomes, Optional, store, broker
  <2>2. CASE Goto(p, "intent")
    BY <1>11, <2>2, <1>same, GotoType DEF LookUp, Steps, store, broker
  <2>3. CASE /\ find_by_tag(tag(p)) # {}
             /\ Follow(p, "AdoptedExisting", Min(find_by_tag(tag(p))), "journal")
    BY <1>11, <2>3, <1>same, FollowType, LegPlacedType, FoundType
       DEF LookUp, Follow, Outcomes, Optional, Steps, store, broker
  <2> QED
    BY <1>11, <2>1, <2>2, <2>3 DEF LookUp
<1>j. ASSUME NEW e \in {"no", "intent", "id"}, Journals(p, e) PROVE runs' \in [Slots -> RunRow]
  <2>1. [runs[run[p].key].journal EXCEPT ![run[p].leg] = e] \in [Legs -> {"no", "intent", "id"}]
    BY <1>0 DEF RunRow
  <2>2. [runs[run[p].key] EXCEPT !.journal[run[p].leg] = e] \in RunRow
    BY <1>0, <2>1 DEF RunRow
  <2> QED
    BY <1>j, <2>2 DEF Journals, TypeOK
<1>12. CASE JournalIntent(p)
  <2>1. CASE NotSent(p) /\ UNCHANGED runs
    BY <1>12, <2>1, <1>same, EndLegType, LegPlacedType DEF JournalIntent, NotSent, Outcomes, Optional, broker
  <2>2. CASE Journals(p, "intent") /\ Goto(p, "place")
    BY <1>12, <1>j, <2>2, <1>same, GotoType DEF JournalIntent, Steps, broker
  <2> QED
    BY <1>12, <2>1, <2>2 DEF JournalIntent
<1>13. CASE Place(p)
  <2>1. CASE /\ orders' = Append(orders, NewOrder(tag(p)))
             /\ Follow(p, "NotSent", Len(orders) + 1, "journal")
             /\ UNCHANGED transit
    <3>1. orders' \in Seq(Order)
      BY <1>0, <2>1, AppendType
    <3>2. LegPlaced("NotSent", Len(orders) + 1) \in Placed
      BY OrdersType, LegPlacedType DEF Outcomes, Optional
    <3>3. run' \in [Procs -> Local]
      BY <2>1, <3>2, FollowType DEF Follow, Steps
    <3> QED
      BY <1>13, <2>1, <3>1, <3>3, <1>same DEF Place, store
  <2>2. CASE (EndLeg(p, LegPlaced("Rejected", None)) \/ NotSent(p)) /\ UNCHANGED broker
    BY <1>13, <2>2, <1>same, EndLegType, LegPlacedType DEF Place, NotSent, Outcomes, Optional, store, broker
  <2>3. CASE /\ Goto(p, "look_again")
             /\ \/ orders' = Append(orders, NewOrder(tag(p))) /\ UNCHANGED transit
                \/ transit' = transit \cup {tag(p)} /\ UNCHANGED orders
    <3>1. orders' \in Seq(Order) /\ transit' \subseteq Tags
      BY <1>0, <2>3, <1>same, AppendType DEF TypeOK
    <3> QED
      BY <1>13, <2>3, <3>1, <1>same, GotoType DEF Place, Steps, store
  <2> QED
    BY <1>13, <2>1, <2>2, <2>3 DEF Place
<1>14. CASE JournalId(p)
  <2>1. CASE Become(p, [run[p] EXCEPT !.placed[run[p].leg].anomaly = TRUE, !.pc = "settle"]) /\ UNCHANGED runs
    <3>1. [run[p].placed[run[p].leg] EXCEPT !.anomaly = TRUE] \in Placed
      BY <1>0, <1>14 DEF JournalId, Following, Local, Optional, Placed
    <3>2. Become(p, [run[p] EXCEPT !.placed[run[p].leg] = [run[p].placed[run[p].leg] EXCEPT !.anomaly = TRUE],
                                   !.pc = "settle"])
      BY <2>1
    <3> QED
      BY <1>14, <2>1, <3>1, <3>2, <1>same, FollowType DEF JournalId, Steps, broker
  <2>2. CASE Journals(p, "id") /\ Goto(p, "settle")
    BY <1>14, <1>j, <2>2, <1>same, GotoType DEF JournalId, Steps, broker
  <2> QED
    BY <1>14, <2>1, <2>2 DEF JournalId
<1>15. CASE LookAgain(p)
  <2>1. CASE EndLeg(p, LegPlaced("UnknownNotFound", None))
    BY <1>15, <2>1, <1>same, EndLegType, LegPlacedType DEF LookAgain, Outcomes, Optional, store, broker
  <2>2. CASE /\ find_by_tag(tag(p)) # {}
             /\ Follow(p, "AdoptedExisting", Min(find_by_tag(tag(p))), "journal")
    BY <1>15, <2>2, <1>same, FollowType, LegPlacedType, FoundType
       DEF LookAgain, Follow, Outcomes, Optional, Steps, store, broker
  <2> QED
    BY <1>15, <2>1, <2>2 DEF LookAgain
<1>16. CASE Settle(p)
  <2> DEFINE placed == run[p].placed[run[p].leg]
  <2>1. placed \in Placed /\ placed.id \in OrderIds
    BY <1>0, <1>16 DEF Settle, Following, Local, Optional
  <2> HIDE DEF placed
  <2>2. ASSUME NEW outcome \in {placed.outcome, "Unsettled"},
               EndLeg(p, [placed EXCEPT !.outcome = outcome, !.anomaly = TRUE]), UNCHANGED orders
        PROVE  Kept
    <3>1. [placed EXCEPT !.outcome = outcome, !.anomaly = TRUE] \in Placed
      BY <2>1, <2>2 DEF Placed, Outcomes
    <3> QED
      BY <1>16, <2>2, <3>1, <1>same, EndLegType DEF Settle, store
  <2>3. CASE /\ orders' = IF orders[placed.id].status = "open"
                          THEN [orders EXCEPT ![placed.id].status = "cancelled"] ELSE orders
             /\ EndLeg(p, Finalized(placed, orders'[placed.id].status))
    <3>1. Finalized(placed, orders'[placed.id].status) \in Placed
      BY <2>1 DEF Finalized, Placed, Outcomes
    <3>2. orders' \in Seq(Order)
      <4>1. [orders[placed.id] EXCEPT !.status = "cancelled"] \in Order
        BY <2>1, OrdersType DEF Order
      <4>2. [orders EXCEPT ![placed.id] = [orders[placed.id] EXCEPT !.status = "cancelled"]] \in Seq(Order)
        BY <1>0, <2>1, <4>1 DEF OrderIds
      <4> QED
        BY <1>0, <2>3, <4>2
    <3> QED
      BY <1>16, <2>3, <3>1, <3>2, <1>same, EndLegType DEF Settle, store
  <2> QED
    BY <1>16, <2>2, <2>3 DEF Settle, placed
<1>17. CASE Replan(p)
  <2>1. CASE FailClosed(p)
    BY <1>17, <2>1, <1>same, StopType DEF Replan, FailClosed, Kinds, store, broker
  <2>2. ASSUME NEW pc \in {"look_up", "last_look"}, Become(p, [run[p] EXCEPT !.leg = "Buy", !.pc = pc])
        PROVE  Kept
    <3>1. [run[p] EXCEPT !.leg = "Buy", !.pc = pc] \in Local
      BY <1>0, <2>2 DEF Local, Steps, Legs
    <3> QED
      BY <1>17, <2>2, <3>1, <1>same, BecomeType DEF Replan, store, broker
  <2> QED
    BY <1>17, <2>1, <2>2 DEF Replan
<1>18. CASE LastLookUp(p)
  <2>1. CASE Goto(p, "recon_post")
    BY <1>18, <2>1, <1>same, GotoType DEF LastLookUp, Steps, store, broker
  <2> DEFINE looked == [l \in Legs |-> IF l \in PlacedLegs(p) /\ run[p].placed[l].outcome = "UnknownNotFound"
                                THEN [run[p].placed[l] EXCEPT !.late = FilledByTag(<<run[p].key, l>>)]
                                ELSE run[p].placed[l]]
  <2>2. CASE run' = [run EXCEPT ![p] = [run[p] EXCEPT !.pc = "recon_post", !.placed = looked]]
    <3>1. looked \in [Legs -> Optional(Placed)]
      <4>1. ASSUME NEW l \in Legs PROVE FilledByTag(<<run[p].key, l>>) \in SUBSET Nat
        BY OrdersType DEF FilledByTag, find_by_tag
      <4>2. ASSUME NEW l \in Legs PROVE looked[l] \in Optional(Placed)
        <5>1. run[p].placed[l] \in Optional(Placed)
          BY <1>0 DEF Local
        <5> QED
          BY <4>1, <5>1 DEF PlacedLegs, Optional, Placed
      <4> QED
        BY <4>2
    <3> HIDE DEF looked
    <3>2. [run[p] EXCEPT !.pc = "recon_post", !.placed = looked] \in Local
      BY <1>0, <3>1 DEF Local, Steps
    <3> QED
      BY <1>18, <2>2, <3>2, <1>same, BecomeType DEF LastLookUp, Become, store, broker
  <2> QED
    BY <1>18, <2>1, <2>2 DEF LastLookUp
<1>19. CASE ReconPost(p)
  <2> DEFINE local == [run[p] EXCEPT !.post = snapshot]
  <2>1. CASE HaltReconciliation(p, run[p])
    BY <1>0, <1>19, <2>1, <1>same, HaltReconciliationType DEF ReconPost, store, broker
  <2>2. local \in Local
    BY <1>0, ViewType DEF Local, Optional
  <2>3. CASE HaltReconciliation(p, local)
    <3> HIDE DEF local
    <3> QED
      BY <1>19, <2>2, <2>3, <1>same, HaltReconciliationType DEF ReconPost, store, broker
  <2>4. CASE Become(p, [local EXCEPT !.pc = "finish", !.carried = AllCarried(p)]) /\ UNCHANGED acct
    <3>1. AllCarried(p) \in BOOLEAN
      BY DEF AllCarried
    <3>2. [local EXCEPT !.pc = "finish", !.carried = AllCarried(p)] \in Local
      <4> HIDE DEF local
      <4> QED
        BY <2>2, <3>1 DEF Local, Steps
    <3> QED
      BY <1>19, <2>4, <3>2, <1>same, BecomeType DEF ReconPost, store, broker
  <2> QED
    BY <1>19, <2>1, <2>3, <2>4 DEF ReconPost
<1>20. CASE Finish(p)
  <2>1. CASE UNCHANGED store
    BY <1>20, <2>1, <1>same, GotoType DEF Finish, Steps, store, broker
  <2>2. CASE /\ runs' = [runs EXCEPT ![run[p].key] = Record(p, @)]
             /\ leased' = [leased EXCEPT ![run[p].key] = FALSE]
    <3>1. Record(p, runs[run[p].key]) \in RunRow
      BY <1>0 DEF Record, RunRow, Local, Optional
    <3>2. runs' \in [Slots -> RunRow] /\ leased' \in [Slots -> BOOLEAN]
      BY <2>2, <3>1 DEF TypeOK
    <3> QED
      BY <1>20, <3>2, <1>same, GotoType DEF Finish, Steps, broker
  <2> QED
    BY <1>20, <2>1, <2>2 DEF Finish
<1>21. CASE Unlock(p)
  BY <1>21, <1>i, <1>same, BecomeType DEF Unlock, Optional, store, broker, TypeOK
<1>22. CASE Crash(p)
  BY <1>22, <1>i, <1>same, BecomeType DEF Crash, store, broker
<1> QED
  BY <1>1, <1>2, <1>3, <1>4, <1>5, <1>6, <1>7, <1>8, <1>9, <1>10, <1>11, <1>12, <1>13, <1>14, <1>15,
     <1>16, <1>17, <1>18, <1>19, <1>20, <1>21, <1>22 DEF Step

\* What a move leaves of the local variables.
LEMMA GotoMoves ==
    ASSUME TypeOK, NEW p \in Procs, NEW pc, Goto(p, pc)
    PROVE  /\ run'[p].pc = pc
           /\ run'[p].key = run[p].key /\ run'[p].leg = run[p].leg /\ run'[p].plan = run[p].plan
           /\ run'[p].planned = run[p].planned /\ run'[p].placed = run[p].placed
           /\ run'[p].carried = run[p].carried /\ run'[p].kind = run[p].kind
           /\ run'[p].pre = run[p].pre
<1>1. run[p] \in Local /\ run'[p] = [run[p] EXCEPT !.pc = pc]
  BY DEF TypeOK, Goto
<1> QED
  BY <1>1 DEF Local

LEMMA StopMoves ==
    ASSUME TypeOK, NEW p \in Procs, NEW kind, Stop(p, kind)
    PROVE  /\ run'[p].pc = "finish" /\ run'[p].kind = kind
           /\ run'[p].key = run[p].key /\ run'[p].leg = run[p].leg /\ run'[p].plan = run[p].plan
           /\ run'[p].planned = run[p].planned /\ run'[p].placed = run[p].placed
           /\ run'[p].carried = run[p].carried /\ run'[p].pre = run[p].pre
<1>1. run[p] \in Local /\ run'[p] = [run[p] EXCEPT !.pc = "finish", !.kind = kind]
  BY DEF TypeOK, Stop
<1> QED
  BY <1>1 DEF Local

LEMMA EndLegMoves ==
    ASSUME TypeOK, NEW p \in Procs, NEW placed, EndLeg(p, placed)
    PROVE  /\ run'[p].pc = IF run[p].leg = "Sell" /\ "Buy" \in run[p].plan THEN "replan" ELSE "last_look"
           /\ run'[p].placed[run[p].leg] = placed
           /\ \A l \in Legs : l # run[p].leg => run'[p].placed[l] = run[p].placed[l]
           /\ run'[p].key = run[p].key /\ run'[p].leg = run[p].leg /\ run'[p].plan = run[p].plan
           /\ run'[p].planned = run[p].planned /\ run'[p].pre = run[p].pre
           /\ run'[p].carried = run[p].carried /\ run'[p].kind = run[p].kind
<1> DEFINE pc == IF run[p].leg = "Sell" /\ "Buy" \in run[p].plan THEN "replan" ELSE "last_look"
<1>1. /\ run[p] \in Local
      /\ run'[p] = [run[p] EXCEPT !.placed = [run[p].placed EXCEPT ![run[p].leg] = placed], !.pc = pc]
  BY DEF TypeOK, EndLeg, Become
<1>2. run[p].placed \in [Legs -> Optional(Placed)] /\ run[p].leg \in Legs
  BY <1>1 DEF Local
<1> HIDE DEF pc
<1>3. /\ run'[p].pc = pc
      /\ run'[p].placed[run[p].leg] = placed
      /\ \A l \in Legs : l # run[p].leg => run'[p].placed[l] = run[p].placed[l]
      /\ run'[p].key = run[p].key /\ run'[p].leg = run[p].leg /\ run'[p].plan = run[p].plan
      /\ run'[p].planned = run[p].planned /\ run'[p].pre = run[p].pre
      /\ run'[p].carried = run[p].carried /\ run'[p].kind = run[p].kind
  BY <1>1, <1>2 DEF Local
<1> QED
  BY <1>3 DEF pc

LEMMA FollowMoves ==
    ASSUME TypeOK, NEW p \in Procs, NEW outcome, NEW id, NEW pc, Follow(p, outcome, id, pc)
    PROVE  /\ run'[p].pc = pc
           /\ run'[p].placed[run[p].leg] = LegPlaced(outcome, id)
           /\ \A l \in Legs : l # run[p].leg => run'[p].placed[l] = run[p].placed[l]
           /\ run'[p].key = run[p].key /\ run'[p].leg = run[p].leg /\ run'[p].plan = run[p].plan
           /\ run'[p].planned = run[p].planned /\ run'[p].pre = run[p].pre
           /\ run'[p].carried = run[p].carried /\ run'[p].kind = run[p].kind
<1> DEFINE placed == LegPlaced(outcome, id)
<1>1. /\ run[p] \in Local
      /\ run'[p] = [run[p] EXCEPT !.placed = [run[p].placed EXCEPT ![run[p].leg] = placed], !.pc = pc]
  BY DEF TypeOK, Follow, Become
<1>2. run[p].placed \in [Legs -> Optional(Placed)] /\ run[p].leg \in Legs
  BY <1>1 DEF Local
<1> HIDE DEF placed
<1>3. /\ run'[p].pc = pc
      /\ run'[p].placed[run[p].leg] = placed
      /\ \A l \in Legs : l # run[p].leg => run'[p].placed[l] = run[p].placed[l]
      /\ run'[p].key = run[p].key /\ run'[p].leg = run[p].leg /\ run'[p].plan = run[p].plan
      /\ run'[p].planned = run[p].planned /\ run'[p].pre = run[p].pre
      /\ run'[p].carried = run[p].carried /\ run'[p].kind = run[p].kind
  BY <1>1, <1>2 DEF Local
<1> QED
  BY <1>3 DEF placed

\* The id is journaled, or its journaling left as an anomaly of the same order.
LEMMA JournalIdMoves ==
    ASSUME TypeOK, Following, NEW p \in Procs, JournalId(p)
    PROVE  /\ run'[p].pc = "settle"
           /\ run'[p].placed[run[p].leg] # None
           /\ run'[p].placed[run[p].leg].id = run[p].placed[run[p].leg].id
           /\ run'[p].placed[run[p].leg].outcome = run[p].placed[run[p].leg].outcome
           /\ \A l \in Legs : l # run[p].leg => run'[p].placed[l] = run[p].placed[l]
           /\ run'[p].key = run[p].key /\ run'[p].leg = run[p].leg /\ run'[p].plan = run[p].plan
           /\ run'[p].planned = run[p].planned /\ run'[p].carried = run[p].carried
<1> DEFINE old == run[p].placed[run[p].leg]
           placed == [old EXCEPT !.anomaly = TRUE]
<1>1. old # None /\ old \in Placed
  BY DEF JournalId, Following, TypeOK, Local, Optional
<1>2. CASE Goto(p, "settle")
  BY <1>1, <1>2, GotoMoves
<1>3. CASE Become(p, [run[p] EXCEPT !.placed[run[p].leg].anomaly = TRUE, !.pc = "settle"])
  <2>1. placed \in Placed /\ placed.id = old.id /\ placed.outcome = old.outcome
    BY <1>1 DEF Placed
  <2>2. /\ run[p] \in Local
        /\ run'[p] = [run[p] EXCEPT !.placed = [run[p].placed EXCEPT ![run[p].leg] = placed], !.pc = "settle"]
    BY <1>3 DEF TypeOK, Become
  <2>3. run[p].placed \in [Legs -> Optional(Placed)] /\ run[p].leg \in Legs
    BY <2>2 DEF Local
  <2> HIDE DEF placed
  <2>4. /\ run'[p].pc = "settle"
        /\ run'[p].placed[run[p].leg] = placed
        /\ \A l \in Legs : l # run[p].leg => run'[p].placed[l] = run[p].placed[l]
        /\ run'[p].key = run[p].key /\ run'[p].leg = run[p].leg /\ run'[p].plan = run[p].plan
        /\ run'[p].planned = run[p].planned /\ run'[p].carried = run[p].carried
    BY <2>2, <2>3 DEF Local
  <2> QED
    BY <2>1, <2>4, NoneAssumption
<1> QED
  BY <1>2, <1>3 DEF JournalId

LEMMA HaltMoves ==
    ASSUME TypeOK, NEW p \in Procs, NEW local \in Local, HaltReconciliation(p, local)
    PROVE  /\ run'[p].pc = "finish" /\ run'[p].kind \in {"Halted", "FailedClosed"}
           /\ run'[p].key = local.key /\ run'[p].planned = local.planned /\ run'[p].carried = local.carried
<1>1. PICK kind \in {"Halted", "FailedClosed"} : Become(p, [local EXCEPT !.pc = "finish", !.kind = kind])
  BY DEF HaltReconciliation
<1>2. run'[p] = [local EXCEPT !.pc = "finish", !.kind = kind]
  BY <1>1 DEF TypeOK, Become
<1> QED
  BY <1>2 DEF Local

\* Where the steps that rewrite their local variables lead.
SameJob(p) == run'[p].key = run[p].key /\ run'[p].planned = run[p].planned

LEMMA IdleMoves ==
    ASSUME TypeOK, NEW p \in Procs
    PROVE  /\ Unlock(p) \/ Crash(p) => run'[p] = Idle /\ run'[p].pc = "idle"
           /\ TryLock(p) => run'[p] = [Idle EXCEPT !.pc = "begin", !.key = slot]
                            /\ run'[p].pc = "begin" /\ run'[p].key = slot /\ ~run'[p].carried
                            /\ run'[p].placed = Idle.placed
<1>0. run \in [Procs -> Local]
  BY DEF TypeOK
<1>1. Unlock(p) \/ Crash(p) => run'[p] = Idle
  BY <1>0 DEF Unlock, Crash, Become
<1>2. TryLock(p) => run'[p] = [Idle EXCEPT !.pc = "begin", !.key = slot]
  BY <1>0 DEF TryLock, Become
<1>3. Idle.pc = "idle"
  BY DEF Idle
<1> DEFINE first == [Idle EXCEPT !.pc = "begin", !.key = slot]
<1>4. first.pc = "begin" /\ first.key = slot /\ first.carried = FALSE /\ first.placed = Idle.placed
  BY DEF Idle
<1> HIDE DEF first
<1> QED
  BY <1>1, <1>2, <1>3, <1>4 DEF first

LEMMA GateMoves ==
    ASSUME TypeOK, NEW p \in Procs, Become(p, [run[p] EXCEPT !.pc = "read", !.planned = Pending])
    PROVE  /\ run'[p].pc = "read" /\ run'[p].planned = Pending /\ run'[p].key = run[p].key
           /\ run'[p].carried = run[p].carried /\ run'[p].placed = run[p].placed
<1>1. run[p] \in Local /\ run'[p] = [run[p] EXCEPT !.pc = "read", !.planned = Pending]
  BY DEF TypeOK, Become
<1> QED
  BY <1>1 DEF Local

LEMMA ReadAccountMoves ==
    ASSUME TypeOK, NEW p \in Procs, ReadAccount(p)
    PROVE  /\ SameJob(p) /\ run'[p].carried = run[p].carried /\ run'[p].placed = run[p].placed
           /\ \/ run'[p].pc = "finish"
              \/ /\ run'[p].pre = snapshot
                 /\ run'[p].pc = IF OpenOrders # {} THEN "cleanup" ELSE "recon_pre"
<1>1. CASE FailClosed(p)
  BY <1>1, StopMoves DEF FailClosed, SameJob
<1>2. CASE ~FailClosed(p)
  <2> DEFINE pc == IF acct.halted THEN "finish" ELSE IF OpenOrders # {} THEN "cleanup" ELSE "recon_pre"
             kind == IF acct.halted THEN "Refused" ELSE "Completed"
  <2>1. /\ run[p] \in Local
        /\ run'[p] = [run[p] EXCEPT !.pre = snapshot, !.version = acct.version, !.pc = pc, !.kind = kind]
    BY <1>2 DEF TypeOK, ReadAccount, Become
  <2> HIDE DEF pc, kind
  <2>2. /\ run'[p].pc = pc /\ run'[p].pre = snapshot /\ run'[p].key = run[p].key
        /\ run'[p].planned = run[p].planned /\ run'[p].carried = run[p].carried /\ run'[p].placed = run[p].placed
    BY <2>1 DEF Local
  <2> QED
    BY <2>2 DEF SameJob, pc
<1> QED
  BY <1>1, <1>2

LEMMA RereadMoves ==
    ASSUME TypeOK, NEW p \in Procs, Reread(p)
    PROVE  /\ SameJob(p) /\ run'[p].carried = run[p].carried /\ run'[p].placed = run[p].placed
           /\ \/ run'[p].pc = "finish"
              \/ run'[p].pc = "recon_pre" /\ run'[p].pre = snapshot
<1>1. CASE FailClosed(p)
  BY <1>1, StopMoves DEF FailClosed, SameJob
<1>2. CASE Become(p, [run[p] EXCEPT !.pc = "recon_pre", !.pre = snapshot])
  <2>1. run[p] \in Local /\ run'[p] = [run[p] EXCEPT !.pc = "recon_pre", !.pre = snapshot]
    BY <1>2 DEF TypeOK, Become
  <2> QED
    BY <2>1 DEF Local, SameJob
<1> QED
  BY <1>1, <1>2 DEF Reread

LEMMA ReconPreMoves ==
    ASSUME TypeOK, NEW p \in Procs, ReconPre(p)
    PROVE  /\ SameJob(p) /\ run'[p].carried = run[p].carried
           /\ \/ run'[p].pc = "finish"
              \/ run'[p].pc = "risk" /\ run'[p].pre = run[p].pre /\ run'[p].placed = run[p].placed
<1> DEFINE base == IF pre_baseline = None THEN run[p].pre ELSE pre_baseline
           local == [run[p] EXCEPT !.applied = in_flight_orders, !.base = base]
<1>1. /\ local \in Local /\ local.key = run[p].key /\ local.planned = run[p].planned
      /\ local.carried = run[p].carried /\ local.pre = run[p].pre /\ local.placed = run[p].placed
  <2>1. in_flight_orders \in SUBSET Nat /\ base \in Optional(Views)
    BY BaselineType, OrdersType DEF TypeOK, Local, Optional
  <2> HIDE DEF base
  <2>2. run[p] \in Local
    BY DEF TypeOK
  <2> QED
    BY <2>1, <2>2 DEF Local
<1>2. CASE FailClosed(p)
  BY <1>2, StopMoves DEF FailClosed, SameJob
<1>3. CASE Become(p, [local EXCEPT !.pc = "risk"])
  <2> HIDE DEF local
  <2>1. run'[p] = [local EXCEPT !.pc = "risk"]
    BY <1>3 DEF TypeOK, Become
  <2> QED
    BY <1>1, <2>1 DEF Local, SameJob
<1>4. CASE HaltReconciliation(p, local)
  <2> HIDE DEF local
  <2> QED
    BY <1>1, <1>4, HaltMoves DEF SameJob
<1> QED
  BY <1>2, <1>3, <1>4 DEF ReconPre

LEMMA RiskMoves ==
    ASSUME TypeOK, NEW p \in Procs, Risk(p)
    PROVE  /\ SameJob(p) /\ run'[p].carried = run[p].carried
           /\ \/ run'[p].pc = "finish"
              \/ run'[p].pc = "plan" /\ run'[p].pre = run[p].pre /\ run'[p].placed = run[p].placed
<1>1. CASE Stop(p, "FailedClosed")
  BY <1>1, StopMoves DEF SameJob
<1>2. CASE Become(p, [run[p] EXCEPT !.pc = "plan", !.version = @ + 1])
  <2>1. run[p] \in Local /\ run'[p] = [run[p] EXCEPT !.pc = "plan", !.version = @ + 1]
    BY <1>2 DEF TypeOK, Become
  <2> QED
    BY <2>1 DEF Local, SameJob
<1> QED
  BY <1>1, <1>2 DEF Risk, FailClosed

LEMMA PlanMoves ==
    ASSUME TypeOK, NEW p \in Procs, Plan(p)
    PROVE  /\ SameJob(p) /\ run'[p].carried = run[p].carried
           /\ \/ run'[p].pc = "finish"
              \/ /\ run'[p].leg = "Sell" /\ run'[p].placed = run[p].placed
                 /\ run'[p].plan = IF ~run[p].planned THEN {}
                                   ELSE {l \in Legs : IF l = "Sell" THEN run[p].pre.sold = 0
                                                      ELSE run[p].pre.bought = 0}
                 /\ run'[p].pc = IF "Sell" \in run'[p].plan THEN "look_up"
                                 ELSE IF "Buy" \in run'[p].plan THEN "replan" ELSE "last_look"
<1> DEFINE legs == IF ~run[p].planned THEN {}
                   ELSE {l \in Legs : IF l = "Sell" THEN run[p].pre.sold = 0 ELSE run[p].pre.bought = 0}
           first == IF "Sell" \in legs THEN "look_up" ELSE IF "Buy" \in legs THEN "replan" ELSE "last_look"
<1>1. CASE FailClosed(p)
  BY <1>1, StopMoves DEF FailClosed, SameJob
<1>2. CASE ~FailClosed(p)
  <2>1. run[p] \in Local /\ run'[p] = [run[p] EXCEPT !.plan = legs, !.leg = "Sell", !.pc = first]
    BY <1>2 DEF TypeOK, Plan, Become
  <2> HIDE DEF legs, first
  <2>2. /\ run'[p].plan = legs /\ run'[p].pc = first /\ run'[p].leg = "Sell" /\ run'[p].placed = run[p].placed
        /\ run'[p].key = run[p].key /\ run'[p].planned = run[p].planned /\ run'[p].carried = run[p].carried
    BY <2>1 DEF Local
  <2> QED
    BY <2>2 DEF SameJob, legs, first
<1> QED
  BY <1>1, <1>2

LEMMA ReplanMoves ==
    ASSUME TypeOK, NEW p \in Procs, Replan(p)
    PROVE  /\ SameJob(p) /\ run'[p].carried = run[p].carried
           /\ \/ run'[p].pc = "finish"
              \/ /\ run'[p].leg = "Buy" /\ run'[p].placed = run[p].placed /\ run'[p].plan = run[p].plan
                 /\ run'[p].pc = IF snapshot.bought = 0 /\ snapshot.sold > snapshot.bought
                                 THEN "look_up" ELSE "last_look"
<1> DEFINE pc == IF snapshot.bought = 0 /\ snapshot.sold > snapshot.bought THEN "look_up" ELSE "last_look"
<1>1. CASE FailClosed(p)
  BY <1>1, StopMoves DEF FailClosed, SameJob
<1>2. CASE ~FailClosed(p)
  <2>1. run[p] \in Local /\ run'[p] = [run[p] EXCEPT !.leg = "Buy", !.pc = pc]
    BY <1>2 DEF TypeOK, Replan, Become
  <2> HIDE DEF pc
  <2>2. /\ run'[p].plan = run[p].plan /\ run'[p].pc = pc /\ run'[p].leg = "Buy" /\ run'[p].placed = run[p].placed
        /\ run'[p].key = run[p].key /\ run'[p].planned = run[p].planned /\ run'[p].carried = run[p].carried
    BY <2>1 DEF Local
  <2> QED
    BY <2>2 DEF SameJob, pc
<1> QED
  BY <1>1, <1>2

LEMMA LastLookUpMoves ==
    ASSUME TypeOK, NEW p \in Procs, LastLookUp(p)
    PROVE  /\ SameJob(p) /\ run'[p].carried = run[p].carried /\ run'[p].pc = "recon_post"
           /\ \A l \in Legs :
                \/ run'[p].placed[l] = run[p].placed[l]
                \/ /\ run[p].placed[l] # None /\ run[p].placed[l].outcome = "UnknownNotFound"
                   /\ run'[p].placed[l] # None /\ run'[p].placed[l].outcome = "UnknownNotFound"
                   /\ run'[p].placed[l].anomaly = run[p].placed[l].anomaly
<1> DEFINE looked == [l \in Legs |-> IF l \in PlacedLegs(p) /\ run[p].placed[l].outcome = "UnknownNotFound"
                             THEN [run[p].placed[l] EXCEPT !.late = FilledByTag(<<run[p].key, l>>)]
                             ELSE run[p].placed[l]]
<1>1. CASE Goto(p, "recon_post")
  BY <1>1, GotoMoves DEF SameJob
<1>2. CASE run' = [run EXCEPT ![p] = [run[p] EXCEPT !.pc = "recon_post", !.placed = looked]]
  <2>1. ASSUME NEW l \in Legs
        PROVE  \/ looked[l] = run[p].placed[l]
               \/ /\ run[p].placed[l] # None /\ run[p].placed[l].outcome = "UnknownNotFound"
                  /\ looked[l] # None /\ looked[l].outcome = "UnknownNotFound"
                  /\ looked[l].anomaly = run[p].placed[l].anomaly
    <3> DEFINE placed == run[p].placed[l]
               found == FilledByTag(<<run[p].key, l>>)
    <3>1. placed \in Optional(Placed) /\ found \in SUBSET Nat
      BY OrdersType DEF TypeOK, Local, FilledByTag, find_by_tag
    <3>2. looked[l] = IF placed # None /\ placed.outcome = "UnknownNotFound"
                      THEN [placed EXCEPT !.late = found] ELSE placed
      BY DEF PlacedLegs
    <3> HIDE DEF placed, found
    <3>3. placed # None => [placed EXCEPT !.late = found] \in Placed
                           /\ [placed EXCEPT !.late = found].outcome = placed.outcome
                           /\ [placed EXCEPT !.late = found].anomaly = placed.anomaly
      BY <3>1 DEF Placed, Optional
    <3> QED
      BY <3>2, <3>3, NoneAssumption DEF placed
  <2> HIDE DEF looked
  <2>2. run[p] \in Local /\ run'[p] = [run[p] EXCEPT !.pc = "recon_post", !.placed = looked]
    BY <1>2 DEF TypeOK
  <2>3. /\ run'[p].pc = "recon_post" /\ run'[p].placed = looked /\ run'[p].key = run[p].key
        /\ run'[p].planned = run[p].planned /\ run'[p].carried = run[p].carried
    BY <2>2 DEF Local
  <2> QED
    BY <2>1, <2>3 DEF SameJob
<1> QED
  BY <1>1, <1>2 DEF LastLookUp

LEMMA ReconPostMoves ==
    ASSUME TypeOK, NEW p \in Procs, ReconPost(p)
    PROVE  /\ SameJob(p) /\ run'[p].pc = "finish"
           /\ \/ run'[p].carried = run[p].carried /\ run'[p].kind \in {"Halted", "FailedClosed"}
              \/ run'[p].carried = AllCarried(p) /\ ~Unsettled(p) /\ ~Anomalous(p)
<1> DEFINE local == [run[p] EXCEPT !.post = snapshot]
<1>0. run[p] \in Local
  BY DEF TypeOK
<1>1. /\ local \in Local /\ local.key = run[p].key /\ local.planned = run[p].planned
      /\ local.carried = run[p].carried
  BY <1>0, ViewType DEF Local, Optional
<1>2. CASE HaltReconciliation(p, run[p])
  BY <1>0, <1>2, HaltMoves DEF SameJob
<1>3. CASE HaltReconciliation(p, local)
  <2> HIDE DEF local
  <2> QED
    BY <1>1, <1>3, HaltMoves DEF SameJob
<1>4. CASE /\ Become(p, [local EXCEPT !.pc = "finish", !.carried = AllCarried(p)])
           /\ ~Unsettled(p) /\ ~Anomalous(p)
  <2> HIDE DEF local
  <2>1. run'[p] = [local EXCEPT !.pc = "finish", !.carried = AllCarried(p)]
    BY <1>4 DEF TypeOK, Become
  <2> QED
    BY <1>1, <1>4, <2>1 DEF Local, SameJob
<1> QED
  BY <1>2, <1>3, <1>4 DEF ReconPost

\* A step of a process changes no other process.
LEMMA OthersKept ==
    ASSUME TypeOK, NEW p \in Procs, Step(p) \/ Crash(p), NEW q \in Procs, q # p
    PROVE  run'[q] = run[q]
<1>0. run \in [Procs -> Local]
  BY DEF TypeOK
<1>b. ASSUME NEW r, Become(p, r) PROVE run'[q] = run[q]
  BY <1>0, <1>b DEF Become
<1>g. ASSUME NEW pc, Goto(p, pc) PROVE run'[q] = run[q]
  BY <1>0, <1>g DEF Goto
<1>s. ASSUME NEW kind, Stop(p, kind) PROVE run'[q] = run[q]
  BY <1>0, <1>s DEF Stop
<1>h. ASSUME NEW r, HaltReconciliation(p, r) PROVE run'[q] = run[q]
  BY <1>b, <1>h DEF HaltReconciliation
<1>e. ASSUME NEW placed, EndLeg(p, placed) PROVE run'[q] = run[q]
  BY <1>b, <1>e DEF EndLeg
<1>f. ASSUME NEW o, NEW id, NEW pc, Follow(p, o, id, pc) PROVE run'[q] = run[q]
  BY <1>b, <1>f DEF Follow
<1>1. CASE TryLock(p) \/ Begin(p) \/ BeginFails(p) \/ Gate(p) \/ ReadAccount(p) \/ Cleanup(p) \/ Reread(p)
  BY <1>1, <1>b, <1>g, <1>s DEF TryLock, Begin, BeginFails, Gate, ReadAccount, Cleanup, Reread, FailClosed
<1>2. CASE ReconPre(p) \/ Risk(p) \/ Plan(p) \/ LookUp(p) \/ JournalIntent(p)
  BY <1>2, <1>b, <1>g, <1>s, <1>h, <1>e, <1>f
     DEF ReconPre, Risk, Plan, LookUp, JournalIntent, FailClosed, NotSent
<1>3. CASE Place(p) \/ JournalId(p) \/ LookAgain(p) \/ Settle(p) \/ Replan(p)
  BY <1>3, <1>b, <1>g, <1>s, <1>e, <1>f DEF Place, JournalId, LookAgain, Settle, Replan, FailClosed, NotSent
<1>4. CASE LastLookUp(p)
  BY <1>0, <1>4, <1>g DEF LastLookUp
<1>5. CASE ReconPost(p) \/ Finish(p) \/ Unlock(p) \/ Crash(p)
  BY <1>5, <1>b, <1>g, <1>h DEF ReconPost, Finish, Unlock, Crash
<1> QED
  BY <1>1, <1>2, <1>3, <1>4, <1>5 DEF Step

\* Only four steps lead to recording or settling an order.
LEMMA ElsewhereMoves ==
    ASSUME TypeOK, NEW p \in Procs, Step(p) \/ Crash(p),
           ~LookUp(p), ~LookAgain(p), ~Place(p), ~JournalId(p)
    PROVE  run'[p].pc \notin {"journal", "settle"}
<1>0. run \in [Procs -> Local] /\ run[p] \in Local
  BY DEF TypeOK
<1>1. CASE TryLock(p) \/ Unlock(p) \/ Crash(p)
  BY <1>1, IdleMoves
<1>2. CASE Begin(p) \/ BeginFails(p) \/ Finish(p) \/ JournalIntent(p)
  BY <1>2, GotoMoves, EndLegMoves DEF Begin, BeginFails, Finish, JournalIntent, NotSent
<1>3. CASE Gate(p)
  BY <1>3, StopMoves, GateMoves DEF Gate, FailClosed
<1>4. CASE ReadAccount(p)
  BY <1>4, ReadAccountMoves
<1>5. CASE Cleanup(p)
  BY <1>5, GotoMoves, StopMoves DEF Cleanup, FailClosed
<1>5a. CASE Reread(p)
  BY <1>5a, RereadMoves
<1>6. CASE ReconPre(p)
  BY <1>6, ReconPreMoves
<1>7. CASE Risk(p)
  BY <1>7, RiskMoves
<1>8. CASE Plan(p)
  BY <1>8, PlanMoves
<1>9. CASE Settle(p)
  BY <1>9, EndLegMoves DEF Settle
<1>10. CASE Replan(p)
  BY <1>10, ReplanMoves
<1>11. CASE LastLookUp(p)
  BY <1>11, LastLookUpMoves
<1>12. CASE ReconPost(p)
  BY <1>12, ReconPostMoves
<1> QED
  BY <1>1, <1>2, <1>3, <1>4, <1>5, <1>5a, <1>6, <1>7, <1>8, <1>9, <1>10, <1>11, <1>12 DEF Step

\* The lock, the leases, the calendar and the broker touch no process.
LEMMA SystemKeepsRun ==
    ASSUME [Next]_vars, ~\E p \in Procs : Step(p) \/ Crash(p)
    PROVE  UNCHANGED run
BY DEF Next, LockExpires, RunLeaseExpires, NextSlot, Land, Execute, vars

\* What the broker never takes back: an order, its tag, and how it ended.
OrdersKept ==
    /\ OrderIds \subseteq OrderIds'
    /\ \A i \in OrderIds :
        /\ orders'[i].tag = orders[i].tag
        /\ orders'[i].status = orders[i].status \/ orders[i].status = "open"

\* Every step keeps the orders, and what is new at the broker or on its way to it
\* comes from an attempt about to send it, or was on its way.
LEMMA BrokerStep ==
    ASSUME TypeOK, Following, [Next]_vars
    PROVE  /\ OrdersKept
           /\ \A i \in OrderIds' \ OrderIds :
                /\ orders'[i].status = "open"
                /\ orders'[i].tag \in transit \cup {tag(p) : p \in {q \in Procs : Place(q)}}
           /\ \A t \in transit' \ transit : \E p \in Procs : Place(p) /\ t = tag(p)
<1> DEFINE Goal == /\ OrdersKept
                   /\ \A i \in OrderIds' \ OrderIds :
                        /\ orders'[i].status = "open"
                        /\ orders'[i].tag \in transit \cup {tag(p) : p \in {q \in Procs : Place(q)}}
                   /\ \A t \in transit' \ transit : \E p \in Procs : Place(p) /\ t = tag(p)
<1>1. ASSUME UNCHANGED orders, UNCHANGED transit PROVE Goal
  BY <1>1 DEF OrdersKept, OrderIds
<1>2. ASSUME NEW t \in Tags, orders' = Append(orders, NewOrder(t)), transit' \subseteq transit,
             t \in transit \cup {tag(p) : p \in {q \in Procs : Place(q)}}
      PROVE  Goal
  <2>1. /\ OrderIds' = OrderIds \cup {Len(orders) + 1}
        /\ orders'[Len(orders) + 1] = NewOrder(t)
        /\ \A i \in OrderIds : orders'[i] = orders[i]
    BY <1>2, AppendType
  <2>2. OrdersKept
    BY <2>1 DEF OrdersKept
  <2>3. \A i \in OrderIds' \ OrderIds : orders'[i].status = "open" /\ orders'[i].tag = t
    BY <2>1 DEF NewOrder
  <2> QED
    BY <1>2, <2>2, <2>3
<1>3. ASSUME NEW i \in OrderIds, NEW st, orders[i].status = "open",
             orders' = [orders EXCEPT ![i].status = st], UNCHANGED transit
      PROVE  Goal
  <2>1. OrderIds' = OrderIds /\ \A j \in OrderIds : j # i => orders'[j] = orders[j]
    BY <1>3, OrdersType DEF OrderIds
  <2>2. orders'[i].tag = orders[i].tag
    BY <1>3, OrdersType DEF Order
  <2> QED
    BY <1>3, <2>1, <2>2 DEF OrdersKept
<1>4. ASSUME NEW p \in Procs, Cleanup(p) PROVE Goal
  <2>1. CASE UNCHANGED orders
    BY <1>1, <1>4, <2>1 DEF Cleanup
  <2>2. CASE orders' = [i \in OrderIds |-> IF i \in OpenOrders THEN [orders[i] EXCEPT !.status = "cancelled"]
                                           ELSE orders[i]]
    <3>1. OrderIds' = OrderIds
      BY <2>2 DEF OrderIds
    <3>2. ASSUME NEW i \in OrderIds
          PROVE  /\ orders'[i].tag = orders[i].tag
                 /\ orders'[i].status = orders[i].status \/ orders[i].status = "open"
      BY <2>2, OrdersType DEF OpenOrders, Order
    <3> QED
      BY <1>4, <3>1, <3>2 DEF Cleanup, OrdersKept
  <2> QED
    BY <1>4, <2>1, <2>2 DEF Cleanup
<1>5. ASSUME NEW p \in Procs, Settle(p) PROVE Goal
  <2> DEFINE id == run[p].placed[run[p].leg].id
  <2>1. id \in OrderIds
    BY <1>5 DEF Settle, Following
  <2>2. \/ UNCHANGED orders
        \/ orders[id].status = "open" /\ orders' = [orders EXCEPT ![id].status = "cancelled"]
    BY <1>5 DEF Settle
  <2> QED
    BY <1>1, <1>3, <1>5, <2>1, <2>2 DEF Settle
<1>6. ASSUME NEW p \in Procs, Place(p) PROVE Goal
  <2>1. tag(p) \in Tags /\ tag(p) \in {tag(q) : q \in {r \in Procs : Place(r)}}
    BY <1>6 DEF TypeOK, Local, tag, Tags
  <2>2. CASE UNCHANGED broker
    BY <1>1, <2>2 DEF broker
  <2>3. CASE orders' = Append(orders, NewOrder(tag(p))) /\ UNCHANGED transit
    BY <1>2, <2>1, <2>3
  <2>4. CASE transit' = transit \cup {tag(p)} /\ UNCHANGED orders
    BY <1>6, <2>4 DEF OrdersKept, OrderIds
  <2> QED
    BY <1>6, <2>2, <2>3, <2>4 DEF Place
<1>7. ASSUME NEW t \in transit, Land(t) PROVE Goal
  <2>1. t \in Tags /\ transit' \subseteq transit
    BY <1>7 DEF Land, TypeOK
  <2>2. CASE orders' = Append(orders, NewOrder(t))
    BY <1>2, <2>1, <2>2
  <2>3. CASE UNCHANGED orders
    BY <2>1, <2>3 DEF OrdersKept, OrderIds
  <2> QED
    BY <1>7, <2>2, <2>3 DEF Land
<1>8. ASSUME NEW i \in OrderIds, Execute(i) PROVE Goal
  BY <1>3, <1>8 DEF Execute
<1>9. ASSUME NEW p \in Procs, Step(p) \/ Crash(p), ~Cleanup(p), ~Settle(p), ~Place(p) PROVE Goal
  <2>1. UNCHANGED broker
    BY <1>9 DEF Step, Crash, TryLock, Begin, BeginFails, Gate, ReadAccount, Reread, ReconPre, Risk, Plan, LookUp,
                JournalIntent, JournalId, LookAgain, Replan, LastLookUp, ReconPost, Finish, Unlock
  <2> QED
    BY <1>1, <2>1 DEF broker
<1>10. CASE LockExpires \/ (\E k \in Slots : RunLeaseExpires(k)) \/ NextSlot \/ UNCHANGED vars
  BY <1>1, <1>10 DEF LockExpires, RunLeaseExpires, NextSlot, vars, broker
<1> QED
  BY <1>4, <1>5, <1>6, <1>7, <1>8, <1>9, <1>10 DEF Next

\* Every step keeps the types.
LEMMA TypeStep == TypeOK /\ Following /\ [Next]_vars => TypeOK'
<1> SUFFICES ASSUME TypeOK, Following, [Next]_vars PROVE TypeOK'
  OBVIOUS
<1>1. ASSUME NEW p \in Procs, Step(p) \/ Crash(p) PROVE TypeOK'
  BY <1>1, ProcTypeStep
<1>2. CASE LockExpires
  BY <1>2 DEF LockExpires, TypeOK, Optional, store, broker
<1>3. ASSUME NEW k \in Slots, RunLeaseExpires(k) PROVE TypeOK'
  BY <1>3 DEF RunLeaseExpires, TypeOK, broker
<1>4. CASE NextSlot
  <2>1. world.days \in 1..MaxSlot
    BY PipelineAssumption DEF TypeOK, World
  <2>2. slot' \in Slots
    BY <1>4, <2>1, PipelineAssumption DEF NextSlot, TypeOK, Slots
  <2> QED
    BY <1>4, <2>2 DEF NextSlot, TypeOK, store, broker
<1>5. ASSUME NEW t \in transit, Land(t) PROVE TypeOK'
  <2>1. orders' \in Seq(Order) /\ transit' \subseteq Tags
    BY <1>5, AppendType DEF Land, TypeOK, Order
  <2> QED
    BY <1>5, <2>1 DEF Land, TypeOK, store, Order
<1>6. ASSUME NEW i \in OrderIds, Execute(i) PROVE TypeOK'
  <2>1. ASSUME NEW st \in {"filled", "cancelled"} PROVE [orders EXCEPT ![i].status = st] \in Seq(Order)
    <3>1. orders \in Seq(Order) /\ [orders[i] EXCEPT !.status = st] \in Order
      BY OrdersType DEF Order, TypeOK
    <3>2. [orders EXCEPT ![i] = [orders[i] EXCEPT !.status = st]] \in Seq(Order)
      BY <3>1 DEF OrderIds
    <3> QED
      BY <3>2
  <2>2. orders' \in Seq(Order)
    BY <1>6, <2>1 DEF Execute
  <2>3. faults' \in 0..world'.maxFaults /\ world' \in Worlds
    BY <1>6, FaultType DEF Execute, FaultKinds
  <2> QED
    BY <1>6, <2>2, <2>3 DEF Execute, TypeOK, store, Order
<1>7. CASE UNCHANGED vars
  BY <1>7 DEF vars, TypeOK
<1> QED
  BY <1>1, <1>2, <1>3, <1>4, <1>5, <1>6, <1>7 DEF Next

\* Every step keeps the attempts on orders of their own.
LEMMA FollowingStep == TypeOK /\ Following /\ [Next]_vars => Following'
<1> SUFFICES ASSUME TypeOK, Following, [Next]_vars PROVE Following'
  OBVIOUS
<1>0. OrdersKept /\ run \in [Procs -> Local]
  BY BrokerStep DEF TypeOK
<1> DEFINE Follows(q) == run[q].pc \in {"journal", "settle"} =>
              /\ run[q].placed[run[q].leg] # None /\ run[q].placed[run[q].leg].id \in OrderIds
              /\ orders[run[q].placed[run[q].leg].id].tag = tag(q)
<1>1. ASSUME NEW q \in Procs, run'[q] = run[q] PROVE Follows(q)'
  BY <1>0, <1>1 DEF Following, OrdersKept, tag
<1>2. ASSUME NEW p \in Procs, NEW outcome \in Outcomes, NEW id \in OrderIds', orders'[id].tag = tag(p),
             Follow(p, outcome, id, "journal")
      PROVE  Follows(p)'
  <2>3. /\ run'[p].leg = run[p].leg /\ run'[p].key = run[p].key
        /\ run'[p].placed[run[p].leg] = LegPlaced(outcome, id)
    BY <1>2, FollowMoves
  <2>4. LegPlaced(outcome, id).id = id /\ LegPlaced(outcome, id) # None
    <3>1. TypeOK'
      BY TypeStep
    <3>2. orders' \in Seq(Order)
      BY <3>1 DEF TypeOK, Order
    <3>3. id \in Nat
      BY <1>2, <3>2 DEF OrderIds
    <3>4. LegPlaced(outcome, id) \in Placed
      BY <3>3, LegPlacedType DEF Optional
    <3> QED
      BY <3>4, NoneAssumption DEF LegPlaced
  <2> QED
    BY <1>2, <2>3, <2>4 DEF tag
<1>3. ASSUME NEW p \in Procs, Step(p) \/ Crash(p) PROVE Follows(p)'
  <2>0. run[p] \in Local /\ tag(p) \in Tags
    BY <1>0 DEF Local, tag, Tags
  <2>1. CASE LookUp(p) \/ LookAgain(p)
    <3>1. CASE /\ find_by_tag(tag(p)) # {}
               /\ Follow(p, "AdoptedExisting", Min(find_by_tag(tag(p))), "journal")
      <4>1. Min(find_by_tag(tag(p))) \in OrderIds' /\ orders'[Min(find_by_tag(tag(p)))].tag = tag(p)
        BY <1>0, <3>1, FoundType DEF OrdersKept
      <4> QED
        BY <1>2, <3>1, <4>1 DEF Outcomes
    <3>2. CASE \/ Goto(p, "intent")
               \/ \E placed : EndLeg(p, placed)
      BY <3>2, GotoMoves, EndLegMoves
    <3> QED
      BY <2>1, <3>1, <3>2 DEF LookUp, LookAgain, NotSent
  <2>2. CASE Place(p)
    <3>1. CASE orders' = Append(orders, NewOrder(tag(p))) /\ Follow(p, "NotSent", Len(orders) + 1, "journal")
      <4>1. Len(orders) + 1 \in OrderIds' /\ orders'[Len(orders) + 1].tag = tag(p) /\ "NotSent" \in Outcomes
        BY <2>0, <3>1, AppendType DEF Outcomes, NewOrder
      <4> QED
        BY <1>2, <3>1, <4>1
    <3>2. CASE Goto(p, "look_again") \/ \E placed : EndLeg(p, placed)
      BY <3>2, GotoMoves, EndLegMoves
    <3> QED
      BY <2>2, <3>1, <3>2 DEF Place, NotSent
  <2>3. CASE JournalId(p)
    <3>1. /\ run[p].placed[run[p].leg].id \in OrderIds
          /\ orders[run[p].placed[run[p].leg].id].tag = tag(p)
      BY <2>3 DEF JournalId, Following
    <3>2. tag(p)' = tag(p)
      BY <2>3, JournalIdMoves DEF tag
    <3> QED
      BY <1>0, <2>3, <3>1, <3>2, JournalIdMoves DEF OrdersKept
  <2>4. CASE ~LookUp(p) /\ ~LookAgain(p) /\ ~Place(p) /\ ~JournalId(p)
    BY <1>3, <2>4, ElsewhereMoves
  <2> QED
    BY <2>1, <2>2, <2>3, <2>4
<1>4. ASSUME NEW q \in Procs PROVE Follows(q)'
  <2>1. CASE \E p \in Procs : Step(p) \/ Crash(p)
    BY <1>1, <1>3, <2>1, OthersKept
  <2>2. CASE UNCHANGED run
    BY <1>1, <2>2
  <2> QED
    BY <2>1, <2>2, SystemKeepsRun DEF Next
<1> QED
  BY <1>4 DEF Following

\* In the first state nothing runs and nothing was sent.
LEMMA TypeInit == Init => TypeOK /\ Following
<1> SUFFICES ASSUME Init PROVE TypeOK /\ Following
  OBVIOUS
<1>1. 1 \in Slots
  BY PipelineAssumption DEF Slots
<1>2. Idle \in Local
  BY <1>1 DEF Idle, Local, Steps, Kinds, Legs, Optional, Views
<1>3. NotStarted \in RunRow
  BY DEF NotStarted, RunRow, Optional
<1>4. world.maxFaults \in Nat
  BY PipelineAssumption DEF Init, World
<1>5. orders \in Seq([tag : Tags, status : {"open", "filled", "cancelled"}])
  BY DEF Init
<1>6. TypeOK
  BY <1>1, <1>2, <1>3, <1>4, <1>5 DEF Init, TypeOK, Optional
<1>7. Following
  BY DEF Init, Following, Idle
<1> QED
  BY <1>6, <1>7

\* An attempt that records or settles an order holds the id of an order with its own
\* tag, whatever crashes, lost answers and overrunning attempts there are.
LEMMA TypeInvariant == Spec => [](TypeOK /\ Following)
BY TypeInit, TypeStep, FollowingStep, PTL DEF Spec

\* Every reachable state is well typed: the run store's rows, the lock, the broker's
\* orders and the local variables of every attempt.
THEOREM TypeCorrect == Spec => []TypeOK
BY TypeInvariant, PTL

-----------------------------------------------------------------------------
(* The journal and the record. *)

\* What a step may do to the run store: nothing to a finished row but an entry of
\* its journal, no attempt number goes back, and no journal entry disappears.
RunsKept ==
    \A k \in Slots :
        /\ runs[k].status = "done" => runs'[k] = [runs[k] EXCEPT !.journal = runs'[k].journal]
        /\ runs'[k].attempt >= runs[k].attempt
        /\ \A l \in Legs : runs[k].journal[l] # "no" => runs'[k].journal[l] # "no"

LEMMA RunsStep ==
    ASSUME TypeOK, [Next]_vars
    PROVE  RunsKept
<1>0. /\ runs \in [Slots -> RunRow]
      /\ \A k \in Slots : runs[k] \in RunRow /\ runs[k].attempt \in Nat /\ runs[k].journal \in [Legs -> {"no", "intent", "id"}]
  BY DEF TypeOK, RunRow
<1>1. ASSUME UNCHANGED runs PROVE RunsKept
  <2>1. ASSUME NEW k \in Slots PROVE runs[k] = [runs[k] EXCEPT !.journal = runs[k].journal]
    BY <1>0 DEF RunRow
  <2>2. \A k \in Slots : runs[k].attempt >= runs[k].attempt
    BY <1>0
  <2> QED
    BY <1>1, <2>1, <2>2 DEF RunsKept
<1>2. ASSUME NEW k \in Slots, NEW row \in RunRow, runs' = [runs EXCEPT ![k] = row],
             runs[k].status # "done" \/ row = [runs[k] EXCEPT !.journal = row.journal],
             row.attempt >= runs[k].attempt,
             \A l \in Legs : runs[k].journal[l] # "no" => row.journal[l] # "no"
      PROVE  RunsKept
  <2>1. runs'[k] = row /\ \A j \in Slots : j # k => runs'[j] = runs[j]
    BY <1>0, <1>2
  <2>2. ASSUME NEW j \in Slots PROVE runs[j] = [runs[j] EXCEPT !.journal = runs[j].journal] /\ runs[j].attempt >= runs[j].attempt
    BY <1>0 DEF RunRow
  <2> QED
    BY <1>2, <2>1, <2>2 DEF RunsKept
<1>3. ASSUME NEW p \in Procs, NEW e \in {"intent", "id"}, Journals(p, e) PROVE RunsKept
  <2> DEFINE k == run[p].key
             row == [runs[k] EXCEPT !.journal = [runs[k].journal EXCEPT ![run[p].leg] = e]]
  <2>1. k \in Slots /\ run[p].leg \in Legs /\ runs[k] \in RunRow
    BY <1>0 DEF TypeOK, Local
  <2>2. runs' = [runs EXCEPT ![k] = row]
    BY <1>3 DEF Journals
  <2>3. [runs[k].journal EXCEPT ![run[p].leg] = e] \in [Legs -> {"no", "intent", "id"}]
    BY <1>0, <2>1
  <2>4. /\ row \in RunRow /\ row.journal = [runs[k].journal EXCEPT ![run[p].leg] = e]
        /\ row.attempt = runs[k].attempt
    BY <2>1, <2>3 DEF RunRow
  <2>5. row.attempt >= runs[k].attempt
    BY <1>0, <2>1, <2>4
  <2>6. row = [runs[k] EXCEPT !.journal = row.journal]
    BY <2>4
  <2>7. \A l \in Legs : runs[k].journal[l] # "no" => row.journal[l] # "no"
    BY <1>0, <2>1, <2>4
  <2> HIDE DEF row, k
  <2> QED
    BY <1>2, <2>1, <2>2, <2>4, <2>5, <2>6, <2>7
<1>4. ASSUME NEW p \in Procs, Begin(p) PROVE RunsKept
  <2> DEFINE k == run[p].key
             row == [runs[k] EXCEPT !.status = "in_progress", !.attempt = @ + 1]
  <2>1. k \in Slots /\ runs[k] \in RunRow
    BY <1>0 DEF TypeOK, Local
  <2>2. CASE UNCHANGED store
    BY <1>1, <2>2 DEF store
  <2>3. CASE runs[k].status # "done" /\ runs' = [runs EXCEPT ![k] = row]
    <3>1. runs[k].attempt + 1 \in Nat /\ runs[k].attempt + 1 >= runs[k].attempt
      BY <1>0, <2>1
    <3>2. row \in RunRow /\ row.attempt = runs[k].attempt + 1 /\ row.journal = runs[k].journal
      BY <2>1, <3>1 DEF RunRow
    <3> HIDE DEF row, k
    <3> QED
      BY <1>2, <2>1, <2>3, <3>1, <3>2
  <2> QED
    BY <1>4, <2>2, <2>3 DEF Begin
<1>5. ASSUME NEW p \in Procs, Finish(p) PROVE RunsKept
  <2> DEFINE k == run[p].key
             row == Record(p, runs[k])
  <2>1. k \in Slots /\ runs[k] \in RunRow /\ run[p] \in Local
    BY <1>0 DEF TypeOK, Local
  <2>2. CASE UNCHANGED store
    BY <1>1, <2>2 DEF store
  <2>3. CASE runs[k].status = "in_progress" /\ runs' = [runs EXCEPT ![k] = row]
    <3>1. row \in RunRow
      BY <2>1 DEF Record, RunRow, Local, Optional
    <3>2. row.attempt = runs[k].attempt /\ row.journal = runs[k].journal
      BY <2>1 DEF Record, RunRow
    <3>3. row.attempt >= runs[k].attempt
      BY <1>0, <2>1, <3>2
    <3> HIDE DEF row, k
    <3> QED
      BY <1>2, <2>1, <2>3, <3>1, <3>2, <3>3
  <2> QED
    BY <1>5, <2>2, <2>3 DEF Finish
<1>6. ASSUME NEW p \in Procs, JournalIntent(p) \/ JournalId(p) PROVE RunsKept
  BY <1>1, <1>3, <1>6 DEF JournalIntent, JournalId
<1>7. ASSUME NEW p \in Procs, Step(p) \/ Crash(p), ~Begin(p), ~Finish(p), ~JournalIntent(p), ~JournalId(p)
      PROVE  RunsKept
  <2>1. UNCHANGED runs
    BY <1>7 DEF Step, Crash, TryLock, BeginFails, Gate, ReadAccount, Cleanup, Reread, ReconPre, Risk, Plan, LookUp,
                Place, LookAgain, Settle, Replan, LastLookUp, ReconPost, Unlock, store
  <2> QED
    BY <1>1, <2>1
<1>8. CASE ~\E p \in Procs : Step(p) \/ Crash(p)
  <2>1. UNCHANGED runs
    BY <1>8 DEF Next, LockExpires, RunLeaseExpires, NextSlot, Land, Execute, vars, store
  <2> QED
    BY <1>1, <2>1
<1> QED
  BY <1>4, <1>5, <1>6, <1>7, <1>8

\* The record of a finished run is final and attempt numbers never go back, for any
\* number of attempts of one key alive at once (PgRunStore::finish writes only a row
\* in progress; begin counts up).
THEOREM RecordIsFinal == Spec => RecordFinal
<1>1. TypeOK /\ Following /\ [Next]_vars =>
        [\A k \in Slots :
            /\ runs[k].status = "done" => runs'[k] = [runs[k] EXCEPT !.journal = runs'[k].journal]
            /\ runs'[k].attempt >= runs[k].attempt]_runs
  BY RunsStep DEF RunsKept
<1> QED
  BY <1>1, TypeInvariant, PTL DEF Spec, RecordFinal

\* An attempt about to send an order has journaled the intent.
Journaled == \A p \in Procs : run[p].pc = "place" => runs[run[p].key].journal[run[p].leg] # "no"

\* Only a journaled intent leads to the placement.
LEMMA PlaceMoves ==
    ASSUME TypeOK, Following, NEW p \in Procs, Step(p) \/ Crash(p), run'[p].pc = "place"
    PROVE  JournalIntent(p) /\ Journals(p, "intent") /\ Goto(p, "place")
<1>1. CASE TryLock(p) \/ Unlock(p) \/ Crash(p)
  BY <1>1, IdleMoves
<1>2. CASE Begin(p) \/ BeginFails(p) \/ Finish(p)
  BY <1>2, GotoMoves DEF Begin, BeginFails, Finish
<1>3. CASE Gate(p)
  BY <1>3, StopMoves, GateMoves DEF Gate, FailClosed
<1>4. CASE Cleanup(p)
  BY <1>4, GotoMoves, StopMoves DEF Cleanup, FailClosed
<1>5. CASE ReadAccount(p) \/ Reread(p) \/ ReconPre(p) \/ Risk(p)
  BY <1>5, ReadAccountMoves, RereadMoves, ReconPreMoves, RiskMoves
<1>6. CASE Plan(p) \/ Replan(p) \/ LastLookUp(p) \/ ReconPost(p)
  BY <1>6, PlanMoves, ReplanMoves, LastLookUpMoves, ReconPostMoves
<1>7. CASE LookUp(p) \/ LookAgain(p) \/ Place(p)
  <2>1. \/ Goto(p, "intent") \/ Goto(p, "look_again") \/ \E placed : EndLeg(p, placed)
        \/ \E outcome, id : Follow(p, outcome, id, "journal")
    BY <1>7 DEF LookUp, LookAgain, Place, NotSent
  <2> QED
    BY <2>1, GotoMoves, EndLegMoves, FollowMoves
<1>8. CASE JournalId(p)
  BY <1>8, JournalIdMoves
<1>9. CASE Settle(p)
  BY <1>9, EndLegMoves DEF Settle
<1>10. CASE JournalIntent(p)
  BY <1>10, EndLegMoves DEF JournalIntent, NotSent
<1> QED
  BY <1>1, <1>2, <1>3, <1>4, <1>5, <1>6, <1>7, <1>8, <1>9, <1>10 DEF Step

\* The journal stays ahead of the broker.
LEMMA JournalStep ==
    TypeOK /\ Following /\ Journaled /\ JournalCoversOrders /\ [Next]_vars => Journaled' /\ JournalCoversOrders'
<1> SUFFICES ASSUME TypeOK, Following, Journaled, JournalCoversOrders, [Next]_vars
             PROVE  Journaled' /\ JournalCoversOrders'
  OBVIOUS
<1>0. RunsKept /\ run \in [Procs -> Local] /\ TypeOK'
  BY RunsStep, TypeStep DEF TypeOK
<1>1. Journaled'
  <2> SUFFICES ASSUME NEW q \in Procs, run'[q].pc = "place"
               PROVE  runs'[run'[q].key].journal[run'[q].leg] # "no"
    BY DEF Journaled
  <2>0. run[q].key \in Slots /\ run[q].leg \in Legs
    BY <1>0 DEF Local
  <2>1. CASE run'[q] = run[q]
    BY <1>0, <2>0, <2>1 DEF Journaled, RunsKept
  <2>2. CASE Step(q) \/ Crash(q)
    <3>1. Journals(q, "intent") /\ run'[q].key = run[q].key /\ run'[q].leg = run[q].leg
      BY <2>2, PlaceMoves, GotoMoves
    <3>2. runs[run[q].key] \in RunRow /\ runs[run[q].key].journal \in [Legs -> {"no", "intent", "id"}]
      BY <2>0 DEF TypeOK, RunRow
    <3>3. runs'[run[q].key].journal = [runs[run[q].key].journal EXCEPT ![run[q].leg] = "intent"]
      BY <2>0, <3>1, <3>2 DEF Journals, TypeOK, RunRow
    <3> QED
      BY <2>0, <3>1, <3>2, <3>3
  <2> QED
    BY <2>1, <2>2, OthersKept, SystemKeepsRun
<1>2. JournalCoversOrders'
  <2> SUFFICES ASSUME NEW t \in transit' \cup {orders'[i].tag : i \in OrderIds'}
               PROVE  runs'[t[1]].journal[t[2]] # "no"
    BY DEF JournalCoversOrders, OrderIds
  <2>1. t \in Tags
    <3>1. orders' \in Seq(Order) /\ transit' \subseteq Tags
      BY <1>0 DEF TypeOK, Order
    <3>2. \A i \in OrderIds' : orders'[i] \in Order
      BY <3>1 DEF OrderIds
    <3> QED
      BY <3>1, <3>2 DEF Order
  <2>2. t[1] \in Slots /\ t[2] \in Legs
    BY <2>1 DEF Tags
  <2>3. runs[t[1]].journal[t[2]] # "no"
    <3>1. CASE t \in transit \cup {orders[i].tag : i \in OrderIds}
      BY <3>1 DEF JournalCoversOrders
    <3>2. CASE \E p \in Procs : Place(p) /\ t = tag(p)
      BY <3>2 DEF Journaled, Place, tag
    <3> QED
      BY <3>1, <3>2, BrokerStep DEF OrdersKept
  <2> QED
    BY <1>0, <2>2, <2>3 DEF RunsKept
<1> QED
  BY <1>1, <1>2

\* Whatever reached the broker, or still may, was journaled first: the next attempt
\* finds every order of a crashed one (execute_order journals the intent before it
\* sends; no step of the run store takes an entry back).
THEOREM JournalIsAhead == Spec => []JournalCoversOrders
<1>1. Init => Journaled /\ JournalCoversOrders
  BY DEF Init, Journaled, JournalCoversOrders, Idle, OrderIds
<1> QED
  BY <1>1, JournalStep, TypeInvariant, PTL DEF Spec
=============================================================================
