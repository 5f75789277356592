-------------------------- MODULE RebalanceProofs --------------------------
(***************************************************************************)
(* RunPipeline implements Rebalance, for every set of processes, number of *)
(* slots and world: in the worlds that honour the account lock a tag is    *)
(* sent at most once, a leg executes at most once and a buy only after its *)
(* sell.  In the worlds whose only faults are crashes no reconciliation    *)
(* fails, so the account is never halted.                                  *)
(***************************************************************************)
EXTENDS RunPipelineProofs

-----------------------------------------------------------------------------
(* One attempt at a time: what the account lock gives. *)

\* Some order of the leg executed.
Done(l) == \E i \in OrderIds : orders[i].tag[2] = l /\ orders[i].status = "filled"

\* Nothing of the leg can still execute: no order of it is open or on its way.
Quiet(l) ==
    /\ \A i \in OrderIds : orders[i].tag[2] = l => orders[i].status # "open"
    /\ \A t \in transit : t[2] # l

\* A process at work holds the lock and runs today's slot; so do the requests.
OneAtATime ==
    /\ \A p \in Procs : run[p].pc # "idle" => lock = p /\ run[p].key = slot
    /\ \A t \in transit : t[1] = slot

\* A tag is at the broker or on its way to it at most once.
OncePerTag ==
    /\ NoDoublePlacement
    /\ \A t \in transit, i \in OrderIds : orders[i].tag # t

\* A leg executed, can execute or is on its way at most once, over all slots, and a
\* buy only after the sell.
OncePerLeg ==
    /\ \A i, j \in OrderIds :
        /\ orders[i].tag[2] = orders[j].tag[2]
        /\ orders[i].status # "cancelled" /\ orders[j].status # "cancelled"
        => i = j
    /\ \A t \in transit, i \in OrderIds : t[2] = orders[i].tag[2] => orders[i].status = "cancelled"
    /\ \A t, u \in transit : t[2] = u[2] => t = u
    /\ \A t \in transit : t[2] = "Buy" => Done("Sell")

\* What an attempt may rely on at each step, once the lock keeps others out.
Early == {"gate", "read", "cleanup"}
Looked == {"reread", "recon_pre", "risk", "plan"}
Sending == {"look_up", "intent", "place"}
Trading == Sending \cup {"journal", "look_again", "settle", "replan"}

Attempt(p) ==
    /\ run[p].pc \in Early => transit = {}
    /\ run[p].pc \in Looked => \A l \in Legs : Quiet(l)
    /\ run[p].pc \in Looked \ {"reread"} =>
        /\ run[p].pre.sold = 0 <=> ~Done("Sell")
        /\ run[p].pre.bought = 0 <=> ~Done("Buy")
    /\ run[p].pc \in Sending => Quiet(run[p].leg) /\ ~Done(run[p].leg)
    /\ run[p].pc \in {"intent", "place"} => find_by_tag(tag(p)) = {}
    /\ run[p].pc \in Trading /\ run[p].leg = "Sell" => Quiet("Buy")
    /\ run[p].pc \in Trading /\ run[p].leg = "Buy" => Done("Sell")
    /\ run[p].pc = "replan" => run[p].leg = "Sell"

Attempts == \A p \in Procs : Attempt(p)

\* The invariant of the worlds that honour the account lock.
FlowInv == ~world.overrun => OneAtATime /\ OncePerTag /\ OncePerLeg /\ Attempts

\* The order of the leg will never count as carried.
Hopeless(p, l) ==
    /\ run[p].placed[l] # None
    /\ \/ run[p].placed[l].anomaly
       \/ run[p].placed[l].outcome \in {"NotSent", "NothingExecuted", "Rejected", "Unsettled"}
       \/ /\ run[p].placed[l].outcome = "AdoptedExisting"
          /\ run[p].placed[l].id \in OrderIds /\ orders[run[p].placed[l].id].status = "cancelled"
LegOver(p, l) == Done(l) \/ Hopeless(p, l)

\* How an attempt gets to claim that it carried the plan out.
Claim(p) ==
    /\ run[p].pc # "look_again"
    /\ run[p].pc \notin {"finish", "unlock"} => ~run[p].carried
    /\ run[p].pc \in Trading /\ run[p].leg = "Sell" /\ "Buy" \notin run[p].plan => Done("Buy")
    /\ run[p].pc = "replan" => LegOver(p, "Sell")
    /\ run[p].pc \in {"last_look", "recon_post"} /\ run[p].planned =>
        Hopeless(p, "Sell") \/ (LegOver(p, "Sell") /\ LegOver(p, "Buy"))
    /\ run[p].pc = "finish" /\ run[p].planned /\ run[p].carried => Done("Sell") /\ Done("Buy")

\* The invariant of the worlds that also lose no answer.
ClaimInv == ~world.overrun /\ "unknown" \notin world.faults => \A p \in Procs : Claim(p)

-----------------------------------------------------------------------------
(* What stays so. *)

\* An executed order stays executed.
LEMMA DoneStays ==
    ASSUME OrdersKept, NEW l, Done(l)
    PROVE  Done(l)'
<1>1. PICK i \in OrderIds : orders[i].tag[2] = l /\ orders[i].status = "filled"
  BY DEF Done
<1>2. i \in OrderIds' /\ orders'[i].tag[2] = l /\ orders'[i].status = "filled"
  BY <1>1 DEF OrdersKept
<1> QED
  BY <1>2 DEF Done

\* A quiet leg stays quiet and executes nothing unless an attempt sends an order of it.
LEMMA QuietStays ==
    ASSUME TypeOK, Following, [Next]_vars, NEW l, Quiet(l), \A p \in Procs : Place(p) => run[p].leg # l
    PROVE  Quiet(l)' /\ (Done(l)' => Done(l))
<1>1. \A p \in Procs : Place(p) => tag(p)[2] # l
  BY DEF tag
<1>2. \A t \in transit' : t[2] # l
  BY <1>1, BrokerStep DEF Quiet
<1>3. ASSUME NEW i \in OrderIds' \ OrderIds PROVE orders'[i].tag[2] # l
  BY <1>1, <1>3, BrokerStep DEF Quiet
<1>4. ASSUME NEW i \in OrderIds' , orders'[i].tag[2] = l
      PROVE  i \in OrderIds /\ orders[i].tag[2] = l /\ orders'[i].status = orders[i].status /\ orders[i].status # "open"
  BY <1>3, <1>4, BrokerStep DEF OrdersKept, Quiet
<1>5. Quiet(l)'
  BY <1>2, <1>4 DEF Quiet
<1>6. Done(l)' => Done(l)
  BY <1>4 DEF Done
<1> QED
  BY <1>5, <1>6

\* A tag neither at the broker nor on its way stays away unless an attempt sends it.
LEMMA AbsentStays ==
    ASSUME TypeOK, Following, [Next]_vars, NEW t, find_by_tag(t) = {}, t \notin transit,
           \A p \in Procs : Place(p) => tag(p) # t
    PROVE  find_by_tag(t)' = {}
<1> SUFFICES ASSUME NEW i \in OrderIds', orders'[i].tag = t PROVE FALSE
  BY DEF find_by_tag
<1>1. CASE i \in OrderIds
  BY <1>1, BrokerStep DEF OrdersKept, find_by_tag
<1>2. CASE i \notin OrderIds
  BY <1>2, BrokerStep
<1> QED
  BY <1>1, <1>2

\* Nothing gets on its way but what an attempt sends.
LEMMA EmptyStays ==
    ASSUME TypeOK, Following, [Next]_vars, transit = {}, \A p \in Procs : ~Place(p)
    PROVE  transit' = {}
BY BrokerStep

\* The legs are two; an attempt works on one of them.
LEMMA LegType ==
    ASSUME TypeOK, NEW p \in Procs
    PROVE  run[p].leg \in {"Sell", "Buy"} /\ run[p].key \in Slots
BY DEF TypeOK, Local, Legs

\* An attempt that stands still keeps what it relies on while nobody sends.
LEMMA AttemptStays ==
    ASSUME TypeOK, Following, [Next]_vars, NEW q \in Procs, Attempt(q), run'[q] = run[q],
           \A p \in Procs : ~Place(p)
    PROVE  Attempt(q)'
<1>1. \A l \in Legs : Quiet(l) => Quiet(l)' /\ (Done(l)' <=> Done(l))
  BY QuietStays, DoneStays, BrokerStep
<1>2. \A l \in Legs : Done(l) => Done(l)'
  BY DoneStays, BrokerStep
<1>3. run[q].leg \in Legs /\ "Sell" \in Legs /\ "Buy" \in Legs
  BY LegType DEF Legs
<1>4. run[q].pc \in {"intent", "place"} => find_by_tag(tag(q))' = {}
  <2> SUFFICES ASSUME run[q].pc \in {"intent", "place"} PROVE find_by_tag(tag(q))' = {}
    OBVIOUS
  <2>1. find_by_tag(tag(q)) = {} /\ tag(q) \notin transit
    BY DEF Attempt, Quiet, Sending, tag
  <2>2. find_by_tag(tag(q))' = {i \in OrderIds' : orders'[i].tag = tag(q)}
    BY DEF find_by_tag, tag
  <2> QED
    BY <2>1, <2>2, AbsentStays DEF find_by_tag
<1>5. run[q].pc \in Early => transit' = {}
  BY EmptyStays DEF Attempt
<1> QED
  BY <1>1, <1>2, <1>3, <1>4, <1>5 DEF Attempt, Looked

-----------------------------------------------------------------------------
(* The lock keeps one attempt at work. *)

\* A process at work moves on or goes idle; it changes its slot only when it starts.
LEMMA KeyMoves ==
    ASSUME TypeOK, Following, NEW p \in Procs, Step(p) \/ Crash(p)
    PROVE  \/ TryLock(p)
           \/ run'[p].pc = "idle"
           \/ run[p].pc # "idle" /\ run'[p].key = run[p].key
<1>1. CASE Unlock(p) \/ Crash(p)
  BY <1>1, IdleMoves
<1>2. CASE Begin(p) \/ BeginFails(p) \/ Finish(p)
  BY <1>2, GotoMoves DEF Begin, BeginFails, Finish
<1>3. CASE Gate(p)
  BY <1>3, StopMoves, GateMoves DEF Gate, FailClosed
<1>4. CASE Cleanup(p)
  BY <1>4, GotoMoves, StopMoves DEF Cleanup, FailClosed
<1>5. CASE ReadAccount(p) \/ Reread(p) \/ ReconPre(p) \/ Risk(p)
  BY <1>5, ReadAccountMoves, RereadMoves, ReconPreMoves, RiskMoves DEF SameJob, ReadAccount, Reread, ReconPre, Risk
<1>6. CASE Plan(p) \/ Replan(p) \/ LastLookUp(p) \/ ReconPost(p)
  BY <1>6, PlanMoves, ReplanMoves, LastLookUpMoves, ReconPostMoves DEF SameJob, Plan, Replan, LastLookUp, ReconPost
<1>7. CASE LookUp(p) \/ LookAgain(p) \/ Place(p) \/ JournalIntent(p)
  <2>1. /\ run[p].pc # "idle"
        /\ \/ \E pc : Goto(p, pc)
           \/ \E placed : EndLeg(p, placed)
           \/ \E outcome, id : Follow(p, outcome, id, "journal")
    BY <1>7 DEF LookUp, LookAgain, Place, JournalIntent, NotSent
  <2> QED
    BY <2>1, GotoMoves, EndLegMoves, FollowMoves
<1>8. CASE JournalId(p)
  BY <1>8, JournalIdMoves DEF JournalId
<1>9. CASE Settle(p)
  BY <1>9, EndLegMoves DEF Settle
<1> QED
  BY <1>1, <1>2, <1>3, <1>4, <1>5, <1>6, <1>7, <1>8, <1>9 DEF Step

\* Only taking it and giving it back change the lock, and a step of a process never
\* changes the day.
LEMMA LockMoves ==
    ASSUME NEW p \in Procs, Step(p) \/ Crash(p)
    PROVE  /\ slot' = slot /\ world' = world
           /\ \/ UNCHANGED lock
              \/ TryLock(p) \/ Unlock(p)
BY DEF Step, Crash, TryLock, Begin, BeginFails, Gate, ReadAccount, Cleanup, Reread, ReconPre, Risk,
       Plan, LookUp, JournalIntent, Place, JournalId, LookAgain, Settle, Replan, LastLookUp, ReconPost,
       Finish, Unlock

LEMMA OneAtATimeStep ==
    ASSUME TypeOK, Following, [Next]_vars, ~world.overrun, OneAtATime
    PROVE  OneAtATime'
<1>0. None \notin Procs /\ run \in [Procs -> Local]
  BY PipelineAssumption DEF TypeOK
<1>1. ASSUME NEW p \in Procs, Step(p) \/ Crash(p) PROVE OneAtATime'
  <2>1. ASSUME NEW q \in Procs, run'[q].pc # "idle" PROVE lock' = q /\ run'[q].key = slot'
    <3>1. CASE q # p
      <4>1. run'[q] = run[q]
        BY <1>1, <3>1, OthersKept
      <4>2. lock = q /\ run[q].key = slot
        BY <2>1, <4>1 DEF OneAtATime
      <4>3. ~TryLock(p) /\ ~Unlock(p)
        BY <1>0, <3>1, <4>2 DEF TryLock, Unlock, OneAtATime
      <4> QED
        BY <1>1, <4>1, <4>2, <4>3, LockMoves
    <3>2. CASE q = p /\ TryLock(p)
      BY <3>2, IdleMoves DEF TryLock
    <3>3. CASE q = p /\ ~TryLock(p)
      <4>1. ~Unlock(p) /\ run[p].pc # "idle" /\ run'[p].key = run[p].key
        BY <1>1, <2>1, <3>3, KeyMoves, IdleMoves
      <4> QED
        BY <1>1, <3>3, <4>1, LockMoves DEF OneAtATime
    <3> QED
      BY <3>1, <3>2, <3>3
  <2>2. ASSUME NEW t \in transit' PROVE t[1] = slot'
    <3>1. CASE t \in transit
      BY <1>1, <3>1, LockMoves DEF OneAtATime
    <3>2. CASE t \notin transit
      <4>1. PICK r \in Procs : Place(r) /\ t = tag(r)
        BY <2>2, <3>2, BrokerStep
      <4>2. run[r].key = slot
        BY <4>1 DEF OneAtATime, Place
      <4> QED
        BY <1>1, <4>1, <4>2, LockMoves DEF tag
    <3> QED
      BY <3>1, <3>2
  <2> QED
    BY <2>1, <2>2 DEF OneAtATime
<1>2. CASE LockExpires
  BY <1>2 DEF LockExpires, OneAtATime, broker
<1>3. ASSUME NEW k \in Slots, RunLeaseExpires(k) PROVE OneAtATime'
  BY <1>3 DEF RunLeaseExpires, OneAtATime, broker
<1>4. CASE NextSlot
  BY <1>4 DEF NextSlot, OneAtATime, broker
<1>5. ASSUME NEW t \in transit, Land(t) PROVE OneAtATime'
  BY <1>5 DEF Land, OneAtATime
<1>6. ASSUME NEW i \in OrderIds, Execute(i) PROVE OneAtATime'
  BY <1>6 DEF Execute, OneAtATime
<1>7. CASE UNCHANGED vars
  BY <1>7 DEF vars, OneAtATime
<1> QED
  BY <1>1, <1>2, <1>3, <1>4, <1>5, <1>6, <1>7 DEF Next

\* Two processes are never at work together.
LEMMA Alone ==
    ASSUME TypeOK, OneAtATime, NEW p \in Procs, Step(p) \/ Crash(p), NEW q \in Procs, q # p
    PROVE  run[q].pc = "idle"
<1>1. run[p].pc # "idle" \/ lock = None
  BY DEF Step, Crash, TryLock, Begin, BeginFails, Gate, ReadAccount, Cleanup, Reread, ReconPre, Risk,
         Plan, LookUp, JournalIntent, Place, JournalId, LookAgain, Settle, Replan, LastLookUp, ReconPost,
         Finish, Unlock
<1> QED
  BY <1>1, PipelineAssumption DEF OneAtATime

-----------------------------------------------------------------------------
(* No tag and no leg twice. *)

\* An order that arrives is the only one of its tag and the only live one of its leg.
LEMMA ArrivalOnce ==
    ASSUME OncePerTag, OncePerLeg, NEW t, NEW n, n \notin OrderIds, OrderIds' = OrderIds \cup {n},
           orders'[n] = NewOrder(t), \A i \in OrderIds : orders'[i] = orders[i],
           transit' \subseteq transit, t \notin transit',
           \A i \in OrderIds : orders[i].tag # t /\ (orders[i].tag[2] = t[2] => orders[i].status = "cancelled"),
           \A u \in transit' : u[2] # t[2]
    PROVE  OncePerTag' /\ OncePerLeg'
<1>2. orders'[n].tag = t /\ orders'[n].status = "open"
  BY DEF NewOrder
<1>3. OncePerTag'
  <2>1. ASSUME NEW i \in OrderIds', NEW j \in OrderIds', orders'[i].tag = orders'[j].tag PROVE i = j
    BY <1>2, <2>1 DEF OncePerTag, NoDoublePlacement
  <2>2. ASSUME NEW u \in transit', NEW i \in OrderIds' PROVE orders'[i].tag # u
    BY <1>2 DEF OncePerTag
  <2> QED
    BY <2>1, <2>2 DEF OncePerTag, NoDoublePlacement
<1>4. Done("Sell") => Done("Sell")'
  BY <1>2 DEF Done
<1>5. OncePerLeg'
  <2>1. ASSUME NEW i \in OrderIds', NEW j \in OrderIds', orders'[i].tag[2] = orders'[j].tag[2],
               orders'[i].status # "cancelled", orders'[j].status # "cancelled"
        PROVE  i = j
    BY <1>2, <2>1 DEF OncePerLeg
  <2>2. ASSUME NEW u \in transit', NEW i \in OrderIds', u[2] = orders'[i].tag[2] PROVE orders'[i].status = "cancelled"
    BY <1>2, <2>2 DEF OncePerLeg
  <2>3. /\ \A u, v \in transit' : u[2] = v[2] => u = v
        /\ \A u \in transit' : u[2] = "Buy" => Done("Sell")'
    BY <1>4 DEF OncePerLeg
  <2> QED
    BY <2>1, <2>2, <2>3 DEF OncePerLeg
<1> QED
  BY <1>3, <1>5

\* Orders that only end, and requests that only get lost, keep both.
LEMMA EndingOnce ==
    ASSUME TypeOK, OncePerTag, OncePerLeg, OrdersKept, OrderIds' = OrderIds, transit' \subseteq transit,
           \A i \in OrderIds : orders'[i].status = "cancelled" \/ orders[i].status # "cancelled"
    PROVE  OncePerTag' /\ OncePerLeg'
<1>1. \A i \in OrderIds : orders'[i].tag = orders[i].tag /\ (orders[i].status = "cancelled" => orders'[i].status = "cancelled")
  BY DEF OrdersKept
<1>2. OncePerTag'
  <2>1. ASSUME NEW i \in OrderIds', NEW j \in OrderIds', orders'[i].tag = orders'[j].tag PROVE i = j
    BY <1>1, <2>1 DEF OncePerTag, NoDoublePlacement
  <2>2. ASSUME NEW u \in transit', NEW i \in OrderIds' PROVE orders'[i].tag # u
    BY <1>1 DEF OncePerTag
  <2> QED
    BY <2>1, <2>2 DEF OncePerTag, NoDoublePlacement
<1>3. Done("Sell") => Done("Sell")'
  BY DoneStays
<1>4. OncePerLeg'
  <2>1. ASSUME NEW i \in OrderIds', NEW j \in OrderIds', orders'[i].tag[2] = orders'[j].tag[2],
               orders'[i].status # "cancelled", orders'[j].status # "cancelled"
        PROVE  i = j
    BY <1>1, <2>1 DEF OncePerLeg
  <2>2. ASSUME NEW u \in transit', NEW i \in OrderIds', u[2] = orders'[i].tag[2] PROVE orders'[i].status = "cancelled"
    BY <1>1, <2>2 DEF OncePerLeg
  <2>3. /\ \A u, v \in transit' : u[2] = v[2] => u = v
        /\ \A u \in transit' : u[2] = "Buy" => Done("Sell")'
    BY <1>3 DEF OncePerLeg
  <2> QED
    BY <2>1, <2>2, <2>3 DEF OncePerLeg
<1> QED
  BY <1>2, <1>4

\* What a placement relies on.
LEMMA PlaceReady ==
    ASSUME TypeOK, Attempts, NEW p \in Procs, Place(p)
    PROVE  /\ tag(p) \in Tags /\ tag(p)[2] = run[p].leg
           /\ \A i \in OrderIds : orders[i].tag # tag(p)
           /\ \A i \in OrderIds : orders[i].tag[2] = run[p].leg => orders[i].status = "cancelled"
           /\ \A u \in transit : u[2] # run[p].leg
           /\ run[p].leg = "Buy" => Done("Sell")
<1>1. run[p].pc = "place" /\ Attempt(p)
  BY DEF Place, Attempts
<1>2. Quiet(run[p].leg) /\ ~Done(run[p].leg) /\ find_by_tag(tag(p)) = {} /\ (run[p].leg = "Buy" => Done("Sell"))
  BY <1>1 DEF Attempt, Sending, Trading
<1>3. tag(p) \in Tags /\ tag(p)[2] = run[p].leg
  BY DEF TypeOK, Local, tag, Tags
<1>4. \A i \in OrderIds : orders[i].status \in {"open", "filled", "cancelled"}
  BY OrdersType DEF Order
<1> QED
  BY <1>2, <1>3, <1>4 DEF Quiet, Done, find_by_tag

LEMMA OnceStep ==
    ASSUME TypeOK, Following, [Next]_vars, ~world.overrun, OneAtATime, OncePerTag, OncePerLeg, Attempts
    PROVE  OncePerTag' /\ OncePerLeg'
<1>0. OrdersKept
  BY BrokerStep
<1>1. ASSUME UNCHANGED broker PROVE OncePerTag' /\ OncePerLeg'
  BY <1>1 DEF broker, OncePerTag, OncePerLeg, NoDoublePlacement, Done, OrderIds
<1>2. ASSUME NEW p \in Procs, Place(p) PROVE OncePerTag' /\ OncePerLeg'
  <2>1. CASE UNCHANGED broker
    BY <1>1, <2>1
  <2>2. CASE orders' = Append(orders, NewOrder(tag(p))) /\ UNCHANGED transit
    <3>1. tag(p) \notin transit'
      BY <1>2, <2>2, PlaceReady
    <3> QED
      BY <1>2, <2>2, <3>1, PlaceReady, AppendType, ArrivalOnce
  <2>3. CASE transit' = transit \cup {tag(p)} /\ UNCHANGED orders
    <3>1. OncePerTag'
      BY <1>2, <2>3, PlaceReady DEF OncePerTag, NoDoublePlacement, OrderIds
    <3>2. Done("Sell") => Done("Sell")'
      BY <1>0, DoneStays
    <3>3. ASSUME NEW u \in transit', NEW i \in OrderIds', u[2] = orders'[i].tag[2] PROVE orders'[i].status = "cancelled"
      BY <1>2, <2>3, <3>3, PlaceReady DEF OncePerLeg, OrderIds
    <3>4. /\ \A u, v \in transit' : u[2] = v[2] => u = v
          /\ \A u \in transit' : u[2] = "Buy" => Done("Sell")'
      BY <1>2, <2>3, <3>2, PlaceReady DEF OncePerLeg
    <3>5. OncePerLeg'
      BY <2>3, <3>3, <3>4 DEF OncePerLeg, OrderIds
    <3> QED
      BY <3>1, <3>5
  <2> QED
    BY <1>2, <2>1, <2>2, <2>3 DEF Place
<1>3. ASSUME NEW t \in transit, Land(t) PROVE OncePerTag' /\ OncePerLeg'
  <2>1. t \in Tags /\ transit' = transit \ {t}
    BY <1>3 DEF Land, TypeOK
  <2>2. CASE orders' = Append(orders, NewOrder(t))
    <3>1. \A i \in OrderIds : orders[i].tag # t /\ (orders[i].tag[2] = t[2] => orders[i].status = "cancelled")
      BY DEF OncePerTag, OncePerLeg
    <3>2. \A u \in transit' : u[2] # t[2]
      BY <2>1 DEF OncePerLeg
    <3> QED
      BY <2>1, <2>2, <3>1, <3>2, AppendType, ArrivalOnce
  <2>3. CASE UNCHANGED orders
    BY <1>0, <2>1, <2>3, EndingOnce DEF OrderIds
  <2> QED
    BY <1>3, <2>2, <2>3 DEF Land
<1>4. ASSUME OrderIds' = OrderIds, transit' = transit PROVE OncePerTag' /\ OncePerLeg'
  <2>1. \A i \in OrderIds : orders'[i].status = "cancelled" \/ orders[i].status # "cancelled"
    BY <1>0 DEF OrdersKept
  <2> QED
    BY <1>0, <1>4, <2>1, EndingOnce
<1>5. ASSUME NEW p \in Procs, Cleanup(p) PROVE OrderIds' = OrderIds /\ transit' = transit
  BY <1>5 DEF Cleanup, OrderIds
<1>6. ASSUME NEW p \in Procs, Settle(p) PROVE OrderIds' = OrderIds /\ transit' = transit
  BY <1>6, OrdersType DEF Settle, OrderIds
<1>7. ASSUME NEW i \in OrderIds, Execute(i) PROVE OrderIds' = OrderIds /\ transit' = transit
  BY <1>7, OrdersType DEF Execute, OrderIds
<1>8. ASSUME NEW p \in Procs, Step(p) \/ Crash(p), ~Cleanup(p), ~Settle(p), ~Place(p) PROVE UNCHANGED broker
  BY <1>8 DEF Step, Crash, TryLock, Begin, BeginFails, Gate, ReadAccount, Reread, ReconPre, Risk, Plan, LookUp,
              JournalIntent, JournalId, LookAgain, Replan, LastLookUp, ReconPost, Finish, Unlock
<1>9. CASE LockExpires \/ (\E k \in Slots : RunLeaseExpires(k)) \/ NextSlot \/ UNCHANGED vars
  BY <1>1, <1>9 DEF LockExpires, RunLeaseExpires, NextSlot, vars, broker
<1> QED
  BY <1>1, <1>2, <1>3, <1>4, <1>5, <1>6, <1>7, <1>8, <1>9 DEF Next

-----------------------------------------------------------------------------
(* What an attempt relies on, step by step. *)

\* A snapshot tells whether the leg executed.
LEMMA SnapshotTells ==
    ASSUME TypeOK
    PROVE  /\ snapshot.sold \in Nat /\ snapshot.bought \in Nat
           /\ snapshot.sold = 0 <=> ~Done("Sell")
           /\ snapshot.bought = 0 <=> ~Done("Buy")
<1>1. ASSUME NEW l PROVE Executed(OrderIds, l) \in Nat /\ (Executed(OrderIds, l) = 0 <=> ~Done(l))
  <2> DEFINE S == {i \in OrderIds : orders[i].tag[2] = l /\ orders[i].status = "filled"}
  <2>1. IsFiniteSet(S) /\ Executed(OrderIds, l) \in Nat
    BY ExecutedType
  <2>2. Cardinality(S) = 0 <=> S = {}
    BY <2>1, FS_EmptySet
  <2>3. S = {} <=> ~Done(l)
    BY DEF Done
  <2> QED
    BY <2>1, <2>2, <2>3 DEF Executed
<1> QED
  BY <1>1 DEF snapshot

\* A step of an attempt keeps what it relies on, or gives what the next step relies on.
LEMMA AttemptMoves ==
    ASSUME TypeOK, Following, [Next]_vars, ~world.overrun, OneAtATime, Attempts, OneAtATime',
           NEW p \in Procs, Step(p) \/ Crash(p)
    PROVE  Attempt(p)'
<1>0. Attempt(p) /\ run[p].leg \in {"Sell", "Buy"} /\ "Sell" \in Legs /\ "Buy" \in Legs
  BY LegType DEF Attempts, Legs
<1>1. CASE Place(p)
  <2>1. \A r \in Procs : Place(r) => r = p
    BY <1>1, Alone DEF Place
  <2>2. \A l \in Legs : Done(l) => Done(l)'
    BY DoneStays, BrokerStep
  <2>3. run[p].leg = "Sell" => Quiet("Buy")'
    BY <1>0, <1>1, <2>1, QuietStays DEF Place, Attempt, Trading, Sending
  <2>4. run[p].leg = "Buy" => Done("Sell")'
    BY <1>0, <1>1, <2>2 DEF Place, Attempt, Trading, Sending
  <2>5. /\ run'[p].leg = run[p].leg
        /\ \/ run'[p].pc \in {"journal", "look_again", "last_look"}
           \/ run'[p].pc = "replan" /\ run[p].leg = "Sell"
    BY <1>1, EndLegMoves, FollowMoves, GotoMoves DEF Place, NotSent
  <2> QED
    BY <1>0, <2>3, <2>4, <2>5 DEF Attempt, Early, Looked, Sending
<1>2. CASE ~Place(p)
  <2>0. \A r \in Procs : ~Place(r)
    BY <1>2, Alone DEF Place
  <2>1. \A l \in Legs : Quiet(l) => Quiet(l)' /\ (Done(l)' <=> Done(l))
    BY <2>0, QuietStays, DoneStays, BrokerStep
  <2>2. \A l \in Legs : Done(l) => Done(l)'
    BY DoneStays, BrokerStep
  <2>3. transit = {} => transit' = {}
    BY <2>0, EmptyStays
  <2>4. CASE TryLock(p) \/ Unlock(p) \/ Crash(p)
    BY <2>4, IdleMoves DEF Attempt, Early, Looked, Sending, Trading
  <2>5. CASE Begin(p)
    <3>1. CASE Goto(p, "unlock")
      BY <3>1, GotoMoves DEF Attempt, Early, Looked, Sending, Trading
    <3>2. CASE Goto(p, "gate") /\ Settled(run[p].key)
      <4>1. transit = {}
        <5>1. run[p].key = slot
          BY <2>5 DEF Begin, OneAtATime
        <5>2. ASSUME NEW t \in transit PROVE FALSE
          <6>1. t \in Tags /\ t[1] = slot
            BY DEF TypeOK, OneAtATime
          <6>2. t = <<slot, t[2]>> /\ t[2] \in Legs
            BY <6>1 DEF Tags
          <6> QED
            BY <3>2, <5>1, <6>2 DEF Settled
        <5> QED
          BY <5>2
      <4> QED
        BY <2>3, <3>2, <4>1, GotoMoves DEF Attempt, Early, Looked, Sending, Trading
    <3> QED
      BY <2>5, <3>1, <3>2 DEF Begin
  <2>6. CASE BeginFails(p) \/ Finish(p)
    BY <2>6, GotoMoves DEF BeginFails, Finish, Attempt, Early, Looked, Sending, Trading
  <2>7. CASE Gate(p)
    <3>1. run'[p].pc \in {"read", "finish"}
      BY <2>7, StopMoves, GateMoves DEF Gate, FailClosed
    <3> QED
      BY <1>0, <2>3, <2>7, <3>1 DEF Gate, Attempt, Early, Looked, Sending, Trading
  <2>8. CASE ReadAccount(p)
    <3>1. transit = {}
      BY <1>0, <2>8 DEF ReadAccount, Attempt, Early
    <3>2. CASE run'[p].pc = "finish"
      BY <3>2 DEF Attempt, Early, Looked, Sending, Trading
    <3>3. CASE run'[p].pc = "cleanup"
      BY <2>3, <3>1, <3>3 DEF Attempt, Early, Looked, Sending, Trading
    <3>4. CASE run'[p].pc = "recon_pre" /\ OpenOrders = {} /\ run'[p].pre = snapshot
      <4>1. \A l \in Legs : Quiet(l)
        BY <3>1, <3>4 DEF Quiet, OpenOrders
      <4> QED
        BY <1>0, <2>1, <3>4, <4>1, SnapshotTells DEF Attempt, Early, Looked, Sending, Trading
    <3> QED
      BY <2>8, <3>2, <3>3, <3>4, ReadAccountMoves
  <2>9. CASE Cleanup(p)
    <3>1. CASE FailClosed(p)
      BY <3>1, StopMoves DEF FailClosed, Attempt, Early, Looked, Sending, Trading
    <3>2. CASE ~FailClosed(p)
      <4>1. Goto(p, "reread") /\ transit' = {} /\ OrderIds' = OrderIds
        BY <1>0, <2>3, <2>9, <3>2 DEF Cleanup, OrderIds, Attempt, Early
      <4>2. ASSUME NEW i \in OrderIds PROVE orders'[i].status # "open"
        BY <2>9, <3>2, OrdersType DEF Cleanup, OpenOrders, Order
      <4>3. \A l \in Legs : Quiet(l)'
        BY <4>1, <4>2 DEF Quiet
      <4> QED
        BY <4>1, <4>3, GotoMoves DEF Attempt, Early, Looked, Sending, Trading
    <3> QED
      BY <3>1, <3>2
  <2>10. CASE Reread(p)
    <3>1. \A l \in Legs : Quiet(l)
      BY <1>0, <2>10 DEF Reread, Attempt, Looked
    <3> QED
      BY <1>0, <2>1, <2>10, <3>1, RereadMoves, SnapshotTells DEF Attempt, Early, Looked, Sending, Trading
  <2>11. CASE ReconPre(p) \/ Risk(p)
    <3>1. run[p].pc \in {"recon_pre", "risk"}
      BY <2>11 DEF ReconPre, Risk
    <3>2. run'[p].pc = "finish" \/ (run'[p].pc \in {"risk", "plan"} /\ run'[p].pre = run[p].pre)
      BY <2>11, ReconPreMoves, RiskMoves
    <3> QED
      BY <1>0, <2>1, <3>1, <3>2 DEF Attempt, Early, Looked, Sending, Trading
  <2>12. CASE Plan(p)
    <3>1. /\ \A l \in Legs : Quiet(l)
          /\ run[p].pre.sold = 0 <=> ~Done("Sell")
      BY <1>0, <2>12 DEF Plan, Attempt, Looked
    <3>2. CASE run'[p].pc = "finish" \/ run'[p].pc = "last_look"
      BY <3>2 DEF Attempt, Early, Looked, Sending, Trading
    <3>3. CASE /\ run'[p].leg = "Sell"
               /\ \/ run'[p].pc = "look_up" /\ run[p].pre.sold = 0
                  \/ run'[p].pc = "replan"
      BY <1>0, <2>1, <3>1, <3>3 DEF Attempt, Early, Looked, Sending, Trading
    <3> QED
      BY <2>12, <3>2, <3>3, PlanMoves
  <2>13. CASE LookUp(p)
    <3>1. /\ Quiet(run[p].leg) /\ ~Done(run[p].leg) /\ run[p].pc = "look_up"
          /\ run[p].leg = "Sell" => Quiet("Buy")
          /\ run[p].leg = "Buy" => Done("Sell")
      BY <1>0, <2>13 DEF LookUp, Attempt, Sending, Trading
    <3>2. CASE Goto(p, "intent") /\ find_by_tag(tag(p)) = {}
      <4>1. tag(p)' = tag(p) /\ tag(p) \notin transit
        BY <3>1, <3>2, GotoMoves DEF tag, Quiet
      <4>2. find_by_tag(tag(p))' = {}
        <5>1. find_by_tag(tag(p))' = {i \in OrderIds' : orders'[i].tag = tag(p)}
          BY <4>1 DEF find_by_tag
        <5> QED
          BY <2>0, <3>2, <4>1, <5>1, AbsentStays DEF find_by_tag
      <4> QED
        BY <1>0, <2>1, <2>2, <3>1, <3>2, <4>2, GotoMoves DEF Attempt, Early, Looked, Sending, Trading
    <3>3. CASE \/ \E placed : EndLeg(p, placed)
               \/ \E outcome, id : Follow(p, outcome, id, "journal")
      <4>1. /\ run'[p].leg = run[p].leg
            /\ \/ run'[p].pc \in {"journal", "last_look"}
               \/ run'[p].pc = "replan" /\ run[p].leg = "Sell"
        BY <3>3, EndLegMoves, FollowMoves
      <4> QED
        BY <1>0, <2>1, <2>2, <3>1, <4>1 DEF Attempt, Early, Looked, Sending, Trading
    <3> QED
      BY <2>13, <3>2, <3>3 DEF LookUp, NotSent
  <2>14. CASE JournalIntent(p)
    <3>1. /\ Quiet(run[p].leg) /\ ~Done(run[p].leg) /\ run[p].pc = "intent" /\ find_by_tag(tag(p)) = {}
          /\ run[p].leg = "Sell" => Quiet("Buy")
          /\ run[p].leg = "Buy" => Done("Sell")
      BY <1>0, <2>14 DEF JournalIntent, Attempt, Sending, Trading
    <3>2. CASE Goto(p, "place")
      <4>1. tag(p)' = tag(p) /\ tag(p) \notin transit
        BY <3>1, <3>2, GotoMoves DEF tag, Quiet
      <4>2. find_by_tag(tag(p))' = {}
        <5>1. find_by_tag(tag(p))' = {i \in OrderIds' : orders'[i].tag = tag(p)}
          BY <4>1 DEF find_by_tag
        <5> QED
          BY <2>0, <3>1, <4>1, <5>1, AbsentStays DEF find_by_tag
      <4> QED
        BY <1>0, <2>1, <2>2, <3>1, <3>2, <4>2, GotoMoves DEF Attempt, Early, Looked, Sending, Trading
    <3>3. CASE \E placed : EndLeg(p, placed)
      <4>1. /\ run'[p].leg = run[p].leg
            /\ \/ run'[p].pc = "last_look"
               \/ run'[p].pc = "replan" /\ run[p].leg = "Sell"
        BY <3>3, EndLegMoves
      <4> QED
        BY <1>0, <2>1, <2>2, <3>1, <4>1 DEF Attempt, Early, Looked, Sending, Trading
    <3> QED
      BY <2>14, <3>2, <3>3 DEF JournalIntent, NotSent
  <2>15. CASE JournalId(p) \/ LookAgain(p) \/ Settle(p)
    <3>1. /\ run[p].leg = "Sell" => Quiet("Buy")
          /\ run[p].leg = "Buy" => Done("Sell")
      BY <1>0, <2>15 DEF JournalId, LookAgain, Settle, Attempt, Trading
    <3>2. /\ run'[p].leg = run[p].leg
          /\ \/ run'[p].pc \in {"journal", "settle", "last_look"}
             \/ run'[p].pc = "replan" /\ run[p].leg = "Sell"
      <4>1. \/ JournalId(p) \/ \E placed : EndLeg(p, placed)
            \/ \E outcome, id : Follow(p, outcome, id, "journal")
        BY <2>15 DEF LookAgain, Settle
      <4> QED
        BY <4>1, JournalIdMoves, EndLegMoves, FollowMoves
    <3> QED
      BY <1>0, <2>1, <2>2, <3>1, <3>2 DEF Attempt, Early, Looked, Sending, Trading
  <2>16. CASE Replan(p)
    <3>1. Quiet("Buy")
      BY <1>0, <2>16 DEF Replan, Attempt, Trading
    <3>2. CASE run'[p].pc = "finish" \/ run'[p].pc = "last_look"
      BY <3>2 DEF Attempt, Early, Looked, Sending, Trading
    <3>3. CASE run'[p].pc = "look_up" /\ run'[p].leg = "Buy" /\ snapshot.bought = 0 /\ snapshot.sold > snapshot.bought
      <4>1. ~Done("Buy") /\ Done("Sell")
        BY <3>3, SnapshotTells
      <4> QED
        BY <1>0, <2>1, <2>2, <3>1, <3>3, <4>1 DEF Attempt, Early, Looked, Sending, Trading
    <3> QED
      BY <2>16, <3>2, <3>3, ReplanMoves
  <2>17. CASE LastLookUp(p) \/ ReconPost(p)
    BY <2>17, LastLookUpMoves, ReconPostMoves DEF Attempt, Early, Looked, Sending, Trading
  <2> QED
    BY <1>2, <2>4, <2>5, <2>6, <2>7, <2>8, <2>9, <2>10, <2>11, <2>12, <2>13, <2>14, <2>15, <2>16, <2>17 DEF Step
<1> QED
  BY <1>1, <1>2

LEMMA AttemptsStep ==
    ASSUME TypeOK, Following, [Next]_vars, ~world.overrun, OneAtATime, Attempts, OneAtATime'
    PROVE  Attempts'
<1> SUFFICES ASSUME NEW q \in Procs PROVE Attempt(q)'
  BY DEF Attempts
<1>1. CASE Step(q) \/ Crash(q)
  BY <1>1, AttemptMoves
<1>2. ASSUME NEW p \in Procs, p # q, Step(p) \/ Crash(p) PROVE Attempt(q)'
  <2>1. run'[q].pc = "idle"
    BY <1>2, OthersKept, Alone
  <2> QED
    BY <2>1 DEF Attempt, Early, Looked, Sending, Trading
<1>3. CASE ~\E p \in Procs : Step(p) \/ Crash(p)
  <2>1. \A p \in Procs : ~Place(p)
    BY <1>3 DEF Step
  <2> QED
    BY <1>3, <2>1, SystemKeepsRun, AttemptStays DEF Attempts
<1> QED
  BY <1>1, <1>2, <1>3

LEMMA FlowStep == TypeOK /\ Following /\ FlowInv /\ [Next]_vars => FlowInv'
<1> SUFFICES ASSUME TypeOK, Following, FlowInv, [Next]_vars, ~world'.overrun
             PROVE  (OneAtATime /\ OncePerTag /\ OncePerLeg /\ Attempts)'
  BY DEF FlowInv
<1>1. world' = world
  <2>1. CASE \E p \in Procs : Step(p) \/ Crash(p)
    BY <2>1, LockMoves
  <2>2. CASE ~\E p \in Procs : Step(p) \/ Crash(p)
    BY <2>2 DEF Next, LockExpires, RunLeaseExpires, NextSlot, Land, Execute, vars
  <2> QED
    BY <2>1, <2>2
<1>2. OneAtATime /\ OncePerTag /\ OncePerLeg /\ Attempts /\ ~world.overrun
  BY <1>1 DEF FlowInv
<1>3. OneAtATime'
  BY <1>2, OneAtATimeStep
<1> QED
  BY <1>2, <1>3, OnceStep, AttemptsStep

LEMMA FlowInit == Init => FlowInv
<1> SUFFICES ASSUME Init PROVE OneAtATime /\ OncePerTag /\ OncePerLeg /\ Attempts
  BY DEF FlowInv
<1>1. OrderIds = {} /\ transit = {} /\ \A p \in Procs : run[p].pc = "idle"
  BY DEF Init, OrderIds, Idle
<1> QED
  BY <1>1 DEF OneAtATime, OncePerTag, OncePerLeg, NoDoublePlacement, Attempts, Attempt, Early, Looked, Sending, Trading

LEMMA FlowInvariant == Spec => []FlowInv
BY FlowInit, FlowStep, TypeInvariant, PTL DEF Spec

\* No order is sent twice while the account lock is honoured: whatever crashes, lost
\* answers, restarts and expired run leases there are, a tag never names two orders
\* (execute_order looks the tag up, begin waits for a lost request, the lock keeps
\* other attempts out).
THEOREM LockPreventsDoublePlacement == Spec => [](~world.overrun => NoDoublePlacement)
<1>1. FlowInv => (~world.overrun => NoDoublePlacement)
  BY DEF FlowInv, OncePerTag
<1> QED
  BY <1>1, FlowInvariant, PTL

-----------------------------------------------------------------------------
(* What a run may claim. *)

\* A leg that is over stays over.
LEMMA OverStays ==
    ASSUME OrdersKept, NEW q \in Procs, NEW l \in Legs, run'[q].placed[l] = run[q].placed[l]
    PROVE  /\ Hopeless(q, l) => Hopeless(q, l)'
           /\ LegOver(q, l) => LegOver(q, l)'
<1>1. Hopeless(q, l) => Hopeless(q, l)'
  BY DEF Hopeless, OrdersKept
<1>2. Done(l) => Done(l)'
  BY DoneStays
<1> QED
  BY <1>1, <1>2 DEF LegOver

\* An attempt that stands still keeps its claim.
LEMMA ClaimStays ==
    ASSUME OrdersKept, NEW q \in Procs, Claim(q), run'[q] = run[q]
    PROVE  Claim(q)'
<1>1. \A l \in Legs : Done(l) => Done(l)'
  BY DoneStays
<1>2. \A l \in Legs : (Hopeless(q, l) => Hopeless(q, l)') /\ (LegOver(q, l) => LegOver(q, l)')
  BY OverStays
<1>3. "Sell" \in Legs /\ "Buy" \in Legs
  BY DEF Legs
<1> QED
  BY <1>1, <1>2, <1>3 DEF Claim

\* An order that ended leaves its leg over: executed, or never to count as carried.
LEMMA SettleOver ==
    ASSUME TypeOK, Following, [Next]_vars, NEW p \in Procs, Settle(p), NEW l \in Legs, l = run[p].leg
    PROVE  LegOver(p, l)'
<1> DEFINE placed == run[p].placed[l]
<1>0. placed # None /\ placed \in Placed
  <2>1. run[p] \in Local
    BY DEF TypeOK
  <2>2. run[p].placed[l] \in Optional(Placed)
    BY <2>1 DEF Local
  <2>3. run[p].placed[l] # None
    BY DEF Settle, Following
  <2> QED
    BY <2>2, <2>3 DEF Optional
<1>1. placed.id \in OrderIds /\ orders[placed.id].tag = tag(p)
  BY DEF Settle, Following
<1>2. orders[placed.id].status \in {"open", "filled", "cancelled"} /\ orders[placed.id].tag[2] = l
  <2>1. orders[placed.id] \in Order
    BY <1>1, OrdersType
  <2>2. tag(p)[2] = l
    BY DEF tag
  <2> QED
    BY <1>1, <2>1, <2>2 DEF Order
<1> HIDE DEF placed
<1>3. ASSUME NEW outcome \in {placed.outcome, "Unsettled"},
             EndLeg(p, [placed EXCEPT !.outcome = outcome, !.anomaly = TRUE])
      PROVE  Hopeless(p, l)'
  <2>1. /\ [placed EXCEPT !.outcome = outcome, !.anomaly = TRUE].anomaly = TRUE
        /\ [placed EXCEPT !.outcome = outcome, !.anomaly = TRUE] \in Placed
    BY <1>0, <1>3 DEF Placed, Outcomes
  <2>2. run'[p].placed[l] = [placed EXCEPT !.outcome = outcome, !.anomaly = TRUE]
    BY <1>3, EndLegMoves
  <2> QED
    BY <2>1, <2>2, NoneAssumption DEF Hopeless
<1>4. CASE /\ orders' = IF orders[placed.id].status = "open"
                        THEN [orders EXCEPT ![placed.id].status = "cancelled"] ELSE orders
           /\ EndLeg(p, Finalized(placed, orders'[placed.id].status))
  <2>1. placed.id \in OrderIds' /\ orders'[placed.id].tag[2] = l
    BY <1>1, <1>2, BrokerStep DEF OrdersKept
  <2>2. orders'[placed.id].status \in {"filled", "cancelled"}
    BY <1>1, <1>2, <1>4, OrdersType DEF Order
  <2>3. CASE orders'[placed.id].status = "filled"
    BY <2>1, <2>3 DEF LegOver, Done
  <2>4. CASE orders'[placed.id].status = "cancelled"
    <3> DEFINE final == Finalized(placed, orders'[placed.id].status)
    <3>1. /\ final \in Placed /\ final.id = placed.id
          /\ final.outcome \in {"AdoptedExisting", "NothingExecuted"}
      BY <1>0, <2>4 DEF Finalized, Placed, Outcomes
    <3>2. run'[p].placed[l] = final
      BY <1>4, EndLegMoves
    <3> HIDE DEF final
    <3> QED
      BY <2>1, <2>4, <3>1, <3>2, NoneAssumption DEF LegOver, Hopeless
  <2> QED
    BY <2>2, <2>3, <2>4
<1> QED
  BY <1>3, <1>4 DEF Settle, LegOver, placed

\* A leg of which nothing was sent is over.
LEMMA NotSentOver ==
    ASSUME TypeOK, NEW p \in Procs, NEW outcome \in {"NotSent", "Rejected"},
           EndLeg(p, LegPlaced(outcome, None)), NEW l \in Legs, l = run[p].leg
    PROVE  Hopeless(p, l)'
<1>1. run'[p].placed[l] = LegPlaced(outcome, None)
  BY EndLegMoves
<1>2. LegPlaced(outcome, None) \in Placed
  BY LegPlacedType DEF Outcomes, Optional
<1>3. LegPlaced(outcome, None).outcome = outcome
  BY DEF LegPlaced
<1> QED
  BY <1>1, <1>2, <1>3, NoneAssumption DEF Hopeless

\* The end of a leg gives what the attempt claims next.
LEMMA EndLegClaim ==
    ASSUME TypeOK, OrdersKept, NEW p \in Procs, Attempt(p), Claim(p), run[p].pc \in Trading \ {"replan"},
           NEW placed, EndLeg(p, placed), LegOver(p, run[p].leg)'
    PROVE  Claim(p)'
<1>1. /\ run'[p].pc = IF run[p].leg = "Sell" /\ "Buy" \in run[p].plan THEN "replan" ELSE "last_look"
      /\ run'[p].leg = run[p].leg /\ run'[p].plan = run[p].plan /\ run'[p].carried = run[p].carried
  BY EndLegMoves
<1>2. \A l \in Legs : Done(l) => Done(l)'
  BY DoneStays
<1>3. run[p].leg \in {"Sell", "Buy"} /\ "Sell" \in Legs /\ "Buy" \in Legs
  BY LegType DEF Legs
<1>4. ~run'[p].carried
  BY <1>1 DEF Claim, Trading, Sending
<1>5. CASE run[p].leg = "Sell"
  <2>1. LegOver(p, "Sell")'
    BY <1>1, <1>5
  <2>2. "Buy" \notin run[p].plan => Done("Buy")'
    BY <1>2, <1>3, <1>5 DEF Claim
  <2> QED
    BY <1>1, <1>4, <1>5, <2>1, <2>2 DEF Claim, LegOver
<1>6. CASE run[p].leg = "Buy"
  <2>1. LegOver(p, "Buy")'
    BY <1>1, <1>6
  <2>2. Done("Sell")'
    BY <1>2, <1>3, <1>6 DEF Attempt
  <2> QED
    BY <1>1, <1>4, <1>6, <2>1, <2>2 DEF Claim, LegOver
<1> QED
  BY <1>3, <1>5, <1>6

\* A hopeless leg is not carried (PlacedOrder::carried, step_assess).
LEMMA HopelessNotCarried ==
    ASSUME TypeOK, NEW p \in Procs, NEW l \in Legs, Hopeless(p, l), ~Anomalous(p)
    PROVE  ~AllCarried(p)
<1> DEFINE placed == run[p].placed[l]
<1>1. l \in PlacedLegs(p) /\ ~placed.anomaly
  BY DEF Hopeless, PlacedLegs, Anomalous
<1>2. CASE placed.outcome \in {"NotSent", "NothingExecuted", "Rejected", "Unsettled"}
  BY <1>1, <1>2 DEF AllCarried, carried
<1>3. CASE /\ placed.outcome = "AdoptedExisting"
           /\ placed.id \in OrderIds /\ orders[placed.id].status = "cancelled"
  <2>1. Reports(p, l) = {placed.id}
    BY <1>3 DEF Reports
  <2>2. {i \in {placed.id} : orders[i].tag[2] = l /\ orders[i].status = "filled"} = {}
    BY <1>3
  <2>3. Executed(Reports(p, l), l) = 0
    BY <2>1, <2>2, FS_EmptySet DEF Executed
  <2>4. ~carried(p, l)
    BY <1>3, <2>3 DEF carried
  <2> QED
    BY <1>1, <2>4 DEF AllCarried
<1> QED
  BY <1>1, <1>2, <1>3 DEF Hopeless

\* A step of an attempt gives it no more to claim than what happened.
LEMMA ClaimMoves ==
    ASSUME TypeOK, Following, [Next]_vars, "unknown" \notin world.faults, NEW p \in Procs, Attempt(p), Claim(p),
           Step(p) \/ Crash(p)
    PROVE  Claim(p)'
<1>0. OrdersKept /\ run[p].leg \in Legs /\ "Sell" \in Legs /\ "Buy" \in Legs /\ run[p] \in Local
  BY BrokerStep, LegType DEF Legs, TypeOK
<1>1. \A l \in Legs : Done(l) => Done(l)'
  BY <1>0, DoneStays
<1>2. CASE TryLock(p) \/ Unlock(p) \/ Crash(p)
  <2>1. ~Idle.carried
    BY DEF Idle
  <2> QED
    BY <1>2, <2>1, IdleMoves DEF Claim, Trading, Sending
<1>3. CASE Begin(p) \/ BeginFails(p)
  BY <1>3, GotoMoves DEF Begin, BeginFails, Claim, Trading, Sending
<1>4. CASE Gate(p)
  <2>1. /\ run'[p].pc \in {"read", "finish"} /\ run'[p].carried = run[p].carried
        /\ run[p].pc = "gate"
    BY <1>4, StopMoves, GateMoves DEF Gate, FailClosed
  <2> QED
    BY <2>1 DEF Claim, Trading, Sending
<1>5. CASE Cleanup(p)
  <2>1. /\ run'[p].pc \in {"reread", "finish"} /\ run'[p].carried = run[p].carried
        /\ run[p].pc = "cleanup"
    BY <1>5, StopMoves, GotoMoves DEF Cleanup, FailClosed
  <2> QED
    BY <2>1 DEF Claim, Trading, Sending
<1>6. CASE ReadAccount(p) \/ Reread(p) \/ ReconPre(p) \/ Risk(p)
  <2>1. /\ run'[p].pc \in {"cleanup", "recon_pre", "risk", "plan", "finish"}
        /\ run'[p].carried = run[p].carried
        /\ run[p].pc \in {"read", "reread", "recon_pre", "risk"}
    BY <1>6, ReadAccountMoves, RereadMoves, ReconPreMoves, RiskMoves DEF ReadAccount, Reread, ReconPre, Risk
  <2> QED
    BY <2>1 DEF Claim, Trading, Sending
<1>7. CASE Plan(p)
  <2>1. /\ run[p].pre.sold = 0 <=> ~Done("Sell")
        /\ run[p].pre.bought = 0 <=> ~Done("Buy")
        /\ ~run[p].carried
    BY <1>7 DEF Plan, Attempt, Looked, Claim
  <2>2. SameJob(p) /\ run'[p].carried = run[p].carried
    BY <1>7, PlanMoves
  <2>3. CASE run'[p].pc = "finish"
    BY <2>1, <2>2, <2>3 DEF Claim, Trading, Sending
  <2>4. CASE ~run[p].planned /\ run'[p].plan = {} /\ run'[p].pc = "last_look"
    BY <2>1, <2>2, <2>4 DEF Claim, Trading, Sending, SameJob
  <2>5. CASE /\ run[p].planned /\ run'[p].leg = "Sell"
             /\ "Sell" \in run'[p].plan <=> run[p].pre.sold = 0
             /\ "Buy" \in run'[p].plan <=> run[p].pre.bought = 0
             /\ run'[p].pc = IF "Sell" \in run'[p].plan THEN "look_up"
                             ELSE IF "Buy" \in run'[p].plan THEN "replan" ELSE "last_look"
    BY <1>0, <1>1, <2>1, <2>2, <2>5 DEF Claim, LegOver
  <2>6. CASE ~run[p].planned /\ run'[p].pc # "finish"
    BY <1>7, <2>4, <2>6, PlanMoves
  <2>7. CASE run[p].planned /\ run'[p].pc # "finish"
    <3>1. /\ run'[p].plan = {l \in Legs : IF l = "Sell" THEN run[p].pre.sold = 0 ELSE run[p].pre.bought = 0}
          /\ run'[p].leg = "Sell"
          /\ run'[p].pc = IF "Sell" \in run'[p].plan THEN "look_up"
                          ELSE IF "Buy" \in run'[p].plan THEN "replan" ELSE "last_look"
      BY <1>7, <2>7, PlanMoves
    <3>2. /\ "Sell" \in run'[p].plan <=> run[p].pre.sold = 0
          /\ "Buy" \in run'[p].plan <=> run[p].pre.bought = 0
      BY <1>0, <3>1
    <3> QED
      BY <2>5, <2>7, <3>1, <3>2
  <2> QED
    BY <2>3, <2>6, <2>7
<1>8. CASE \/ Goto(p, "intent") /\ run[p].pc = "look_up"
           \/ Goto(p, "place") /\ run[p].pc = "intent"
  BY <1>0, <1>1, <1>8, GotoMoves DEF Claim, Trading, Sending
<1>9. CASE run[p].pc \in Sending /\ \E outcome, id : Follow(p, outcome, id, "journal")
  <2>1. /\ run'[p].pc = "journal" /\ run'[p].leg = run[p].leg /\ run'[p].plan = run[p].plan
        /\ run'[p].carried = run[p].carried
    BY <1>9, FollowMoves
  <2> QED
    BY <1>0, <1>1, <1>9, <2>1 DEF Claim, Trading, Sending
<1>10. ASSUME run[p].pc \in Sending, NEW outcome \in {"NotSent", "Rejected"}, EndLeg(p, LegPlaced(outcome, None))
       PROVE  Claim(p)'
  <2>1. LegOver(p, run[p].leg)'
    <3>1. PICK l \in Legs : l = run[p].leg
      BY <1>0
    <3>2. Hopeless(p, l)'
      BY <1>10, <3>1, NotSentOver
    <3>3. run'[p].leg = l
      BY <1>10, <3>1, EndLegMoves
    <3> QED
      BY <3>2, <3>3 DEF LegOver
  <2> QED
    BY <1>0, <1>10, <2>1, EndLegClaim DEF Trading, Sending
<1>11. CASE LookUp(p) \/ JournalIntent(p) \/ Place(p)
  <2>1. ~Fault("unknown")
    BY DEF Fault
  <2> QED
    BY <1>8, <1>9, <1>10, <1>11, <2>1 DEF LookUp, JournalIntent, Place, NotSent, Sending
<1>12. CASE JournalId(p)
  BY <1>0, <1>1, <1>12, JournalIdMoves DEF JournalId, Claim, Trading, Sending
<1>13. CASE LookAgain(p)
  BY <1>13 DEF LookAgain, Claim
<1>14. CASE Settle(p)
  <2>1. PICK placed : EndLeg(p, placed)
    BY <1>14 DEF Settle
  <2>2. LegOver(p, run[p].leg)'
    <3>1. PICK l \in Legs : l = run[p].leg
      BY <1>0
    <3>2. LegOver(p, l)'
      BY <1>14, <3>1, SettleOver
    <3>3. run'[p].leg = l
      BY <2>1, <3>1, EndLegMoves
    <3> QED
      BY <3>2, <3>3
  <2> QED
    BY <1>0, <1>14, <2>1, <2>2, EndLegClaim DEF Settle, Trading, Sending
<1>15. CASE Replan(p)
  <2>1. LegOver(p, "Sell") /\ ~run[p].carried
    BY <1>15 DEF Replan, Claim
  <2>2. SameJob(p) /\ run'[p].carried = run[p].carried
    BY <1>15, ReplanMoves
  <2>3. CASE run'[p].pc = "finish"
    BY <2>1, <2>2, <2>3 DEF Claim, Trading, Sending
  <2>4. CASE run'[p].pc = "look_up" /\ run'[p].leg = "Buy"
    BY <2>1, <2>2, <2>4 DEF Claim
  <2>5. CASE /\ run'[p].pc = "last_look" /\ run'[p].leg = "Buy" /\ run'[p].placed = run[p].placed
             /\ ~(snapshot.bought = 0 /\ snapshot.sold > snapshot.bought)
    <3>1. Hopeless(p, "Sell") \/ (LegOver(p, "Sell") /\ Done("Buy"))
      BY <2>1, <2>5, SnapshotTells DEF LegOver
    <3>2. /\ Hopeless(p, "Sell") => Hopeless(p, "Sell")'
          /\ LegOver(p, "Sell") => LegOver(p, "Sell")'
      BY <1>0, <2>5, OverStays
    <3> QED
      BY <1>0, <1>1, <2>1, <2>2, <2>5, <3>1, <3>2 DEF Claim, LegOver
  <2> QED
    BY <1>15, <2>3, <2>4, <2>5, ReplanMoves
<1>16. CASE LastLookUp(p)
  <2>1. \A l \in Legs : Hopeless(p, l) => Hopeless(p, l)'
    <3> SUFFICES ASSUME NEW l \in Legs, Hopeless(p, l) PROVE Hopeless(p, l)'
      OBVIOUS
    <3>1. CASE run'[p].placed[l] = run[p].placed[l]
      BY <1>0, <3>1, OverStays
    <3>2. CASE /\ run[p].placed[l].outcome = "UnknownNotFound" /\ run'[p].placed[l] # None
               /\ run'[p].placed[l].anomaly = run[p].placed[l].anomaly
      BY <3>2 DEF Hopeless
    <3> QED
      BY <1>16, <3>1, <3>2, LastLookUpMoves
  <2>2. \A l \in Legs : LegOver(p, l) => LegOver(p, l)'
    BY <1>1, <2>1 DEF LegOver
  <2>3. /\ run[p].pc = "last_look" /\ run'[p].pc = "recon_post" /\ run'[p].planned = run[p].planned
        /\ run'[p].carried = run[p].carried
    BY <1>16, LastLookUpMoves DEF LastLookUp, SameJob
  <2> QED
    BY <1>0, <2>1, <2>2, <2>3 DEF Claim, Trading, Sending
<1>17. CASE ReconPost(p)
  <2>1. /\ run[p].pc = "recon_post" /\ ~run[p].carried
        /\ run[p].planned => Hopeless(p, "Sell") \/ (LegOver(p, "Sell") /\ LegOver(p, "Buy"))
    BY <1>17 DEF ReconPost, Claim
  <2>2. SameJob(p) /\ run'[p].pc = "finish"
    BY <1>17, ReconPostMoves
  <2>3. CASE run'[p].carried = run[p].carried
    BY <2>1, <2>2, <2>3 DEF Claim, Trading, Sending
  <2>4. CASE run'[p].carried = AllCarried(p) /\ ~Anomalous(p)
    <3>1. run[p].planned /\ AllCarried(p) => Done("Sell") /\ Done("Buy")
      BY <1>0, <2>1, <2>4, HopelessNotCarried DEF LegOver
    <3> QED
      BY <1>0, <1>1, <2>2, <2>4, <3>1 DEF Claim, Trading, Sending, SameJob
  <2> QED
    BY <1>17, <2>3, <2>4, ReconPostMoves
<1>18. CASE Finish(p)
  BY <1>18, GotoMoves DEF Finish, Claim, Trading, Sending
<1> QED
  BY <1>2, <1>3, <1>4, <1>5, <1>6, <1>7, <1>11, <1>12, <1>13, <1>14, <1>15, <1>16, <1>17, <1>18 DEF Step

\* The settings of a behaviour never change.
LEMMA WorldKept ==
    ASSUME [Next]_vars
    PROVE  world' = world
<1>1. CASE \E p \in Procs : Step(p) \/ Crash(p)
  BY <1>1, LockMoves
<1>2. CASE ~\E p \in Procs : Step(p) \/ Crash(p)
  BY <1>2 DEF Next, LockExpires, RunLeaseExpires, NextSlot, Land, Execute, vars
<1> QED
  BY <1>1, <1>2

LEMMA ClaimStep == TypeOK /\ Following /\ FlowInv /\ ClaimInv /\ [Next]_vars => ClaimInv'
<1> SUFFICES ASSUME TypeOK, Following, FlowInv, ClaimInv, [Next]_vars, ~world'.overrun,
                    "unknown" \notin world'.faults, NEW q \in Procs
             PROVE  Claim(q)'
  BY DEF ClaimInv
<1>1. ~world.overrun /\ "unknown" \notin world.faults
  BY WorldKept
<1>2. Attempt(q) /\ Claim(q) /\ OrdersKept
  BY <1>1, BrokerStep DEF FlowInv, Attempts, ClaimInv
<1>3. CASE Step(q) \/ Crash(q)
  BY <1>1, <1>2, <1>3, ClaimMoves
<1>4. CASE run'[q] = run[q]
  BY <1>2, <1>4, ClaimStays
<1> QED
  BY <1>3, <1>4, OthersKept, SystemKeepsRun

LEMMA ClaimInvariant == Spec => []ClaimInv
<1>1. Init => ClaimInv
  <2> SUFFICES ASSUME Init, NEW p \in Procs PROVE Claim(p)
    BY DEF ClaimInv
  <2>1. run[p].pc = "idle" /\ ~run[p].carried
    BY DEF Init, Idle
  <2> QED
    BY <2>1 DEF Claim, Trading, Sending
<1> QED
  BY <1>1, ClaimStep, FlowInvariant, TypeInvariant, PTL DEF Spec

-----------------------------------------------------------------------------
(* The refinement. *)

\* The abstract counters in the worlds that honour the lock: 0 or 1.
Sent(t) == IF world.overrun \/ find_by_tag(t) = {} THEN 0 ELSE 1
Traded(l) == IF ~world.overrun /\ Done(l) THEN 1 ELSE 0

LEMMA Abstraction ==
    TypeOK /\ FlowInv =>
        /\ SentCount = [t \in Tags |-> Sent(t)]
        /\ TradedUnits = [l \in Legs |-> Traded(l)]
<1> SUFFICES ASSUME TypeOK, FlowInv
             PROVE  /\ SentCount = [t \in Tags |-> Sent(t)]
                    /\ TradedUnits = [l \in Legs |-> Traded(l)]
  OBVIOUS
<1>1. CASE world.overrun
  BY <1>1 DEF SentCount, TradedUnits, Sent, Traded
<1>2. CASE ~world.overrun
  <2>0. OncePerTag /\ OncePerLeg
    BY <1>2 DEF FlowInv
  <2>1. ASSUME NEW t \in Tags PROVE Cardinality(find_by_tag(t)) = Sent(t)
    <3>1. CASE find_by_tag(t) = {}
      BY <1>2, <3>1, FS_EmptySet DEF Sent
    <3>2. CASE find_by_tag(t) # {}
      <4>1. PICK i : find_by_tag(t) = {i}
        BY <2>0, <3>2 DEF OncePerTag, NoDoublePlacement, find_by_tag
      <4> QED
        BY <1>2, <3>2, <4>1, FS_Singleton DEF Sent
    <3> QED
      BY <3>1, <3>2
  <2>2. ASSUME NEW l \in Legs PROVE Executed(OrderIds, l) = Traded(l)
    <3> DEFINE S == {i \in OrderIds : orders[i].tag[2] = l /\ orders[i].status = "filled"}
    <3>1. CASE S = {}
      <4>1. ~Done(l)
        BY <3>1 DEF Done
      <4> QED
        BY <3>1, <4>1, FS_EmptySet DEF Traded, Executed
    <3>2. CASE S # {}
      <4>1. PICK i \in S : TRUE
        BY <3>2
      <4>2. \A j \in S : j = i
        BY <2>0, <4>1 DEF OncePerLeg
      <4>3. S = {i}
        BY <4>1, <4>2
      <4>4. Done(l)
        BY <4>1 DEF Done
      <4> QED
        BY <1>2, <4>3, <4>4, FS_Singleton DEF Traded, Executed
    <3> QED
      BY <3>1, <3>2
  <2> QED
    BY <1>2, <2>1, <2>2 DEF SentCount, TradedUnits
<1> QED
  BY <1>1, <1>2

\* Only a record that is written closes a slot or counts it as acted.
LEMMA RecordsSame ==
    ASSUME TypeOK, [Next]_vars, \A p \in Procs : ~Finish(p) \/ UNCHANGED store
    PROVE  ClosedSlots' = ClosedSlots /\ ActedSlots' = ActedSlots
<1>0. /\ runs \in [Slots -> RunRow] /\ world' = world
      /\ \A k \in Slots : runs[k] \in RunRow
  BY WorldKept DEF TypeOK
<1> SUFFICES ASSUME NEW k \in Slots
             PROVE  (runs'[k].status = "done" <=> runs[k].status = "done") /\ runs'[k].acted = runs[k].acted
  BY <1>0 DEF ClosedSlots, ActedSlots
<1>1. CASE UNCHANGED runs
  BY <1>1
<1>2. ASSUME NEW p \in Procs, Begin(p) PROVE (runs'[k].status = "done" <=> runs[k].status = "done") /\ runs'[k].acted = runs[k].acted
  BY <1>0, <1>1, <1>2 DEF Begin, store, RunRow
<1>3. ASSUME NEW p \in Procs, NEW e, Journals(p, e) PROVE (runs'[k].status = "done" <=> runs[k].status = "done") /\ runs'[k].acted = runs[k].acted
  BY <1>0, <1>3 DEF Journals, RunRow
<1>4. ASSUME NEW p \in Procs, Step(p) \/ Crash(p), ~Begin(p) PROVE UNCHANGED runs \/ \E e : Journals(p, e)
  BY <1>4 DEF Step, Crash, TryLock, BeginFails, Gate, ReadAccount, Cleanup, Reread, ReconPre, Risk, Plan, LookUp,
                Place, LookAgain, Settle, Replan, LastLookUp, ReconPost, Unlock, store, JournalIntent, JournalId
<1>5. CASE ~\E p \in Procs : Step(p) \/ Crash(p)
  BY <1>1, <1>5 DEF Next, LockExpires, RunLeaseExpires, NextSlot, Land, Execute, vars, store
<1> QED
  BY <1>1, <1>2, <1>3, <1>4, <1>5

\* Only a run with its record counts as having acted.
OnlyRecordsAct == \A k \in Slots : runs[k].acted => runs[k].status = "done"

LEMMA OnlyRecordsActInvariant == Spec => []OnlyRecordsAct
<1>1. Init => OnlyRecordsAct
  BY DEF Init, NotStarted, OnlyRecordsAct
<1>2. TypeOK /\ OnlyRecordsAct /\ [Next]_vars => OnlyRecordsAct'
  <2> SUFFICES ASSUME TypeOK, OnlyRecordsAct, [Next]_vars, NEW k \in Slots
               PROVE  runs'[k].acted => runs'[k].status = "done"
    BY DEF OnlyRecordsAct
  <2>0. runs \in [Slots -> RunRow] /\ runs[k] \in RunRow
    BY DEF TypeOK
  <2>1. CASE UNCHANGED runs
    BY <2>1 DEF OnlyRecordsAct
  <2>2. ASSUME NEW p \in Procs, Begin(p) PROVE runs'[k].acted => runs'[k].status = "done"
    BY <2>0, <2>1, <2>2 DEF Begin, store, RunRow, OnlyRecordsAct
  <2>3. ASSUME NEW p \in Procs, NEW e, Journals(p, e) PROVE runs'[k].acted => runs'[k].status = "done"
    BY <2>0, <2>3 DEF Journals, RunRow, OnlyRecordsAct
  <2>4. ASSUME NEW p \in Procs, Finish(p) PROVE runs'[k].acted => runs'[k].status = "done"
    <3>1. CASE runs' = [runs EXCEPT ![run[p].key] = Record(p, @)]
      <4>1. CASE k = run[p].key
        BY <2>0, <3>1, <4>1 DEF Record, RunRow
      <4>2. CASE k # run[p].key
        BY <2>0, <3>1, <4>2 DEF OnlyRecordsAct
      <4> QED
        BY <4>1, <4>2
    <3> QED
      BY <2>1, <2>4, <3>1 DEF Finish, store
  <2>5. ASSUME NEW p \in Procs, Step(p) \/ Crash(p), ~Begin(p), ~Finish(p) PROVE UNCHANGED runs \/ \E e : Journals(p, e)
    BY <2>5 DEF Step, Crash, TryLock, BeginFails, Gate, ReadAccount, Cleanup, Reread, ReconPre, Risk, Plan, LookUp,
                Place, LookAgain, Settle, Replan, LastLookUp, ReconPost, Unlock, store, JournalIntent, JournalId
  <2>6. CASE ~\E p \in Procs : Step(p) \/ Crash(p)
    BY <2>1, <2>6 DEF Next, LockExpires, RunLeaseExpires, NextSlot, Land, Execute, vars, store
  <2> QED
    BY <2>1, <2>2, <2>3, <2>4, <2>5, <2>6
<1> QED
  BY <1>1, <1>2, TypeInvariant, PTL DEF Spec

\* The slots and legs of the two modules are the same.
LEMMA SameTags == Promise!Legs = Legs /\ Promise!Tags = Tags
BY DEF Promise!Legs, Promise!Tags, Legs, Tags

\* An order that arrives is a Send.
LEMMA ArrivalSends ==
    ASSUME TypeOK, FlowInv, SentCount' = [t \in Tags |-> Sent(t)'], TradedUnits' = [l \in Legs |-> Traded(l)'],
           world' = world, ~world.overrun, NEW t \in Tags, orders' = Append(orders, NewOrder(t)),
           find_by_tag(t) = {}, t[2] = "Buy" => Done("Sell"),
           ClosedSlots' = ClosedSlots, ActedSlots' = ActedSlots
    PROVE  Promise!Send(t)
<1>1. /\ OrderIds' = OrderIds \cup {Len(orders) + 1} /\ Len(orders) + 1 \notin OrderIds
      /\ orders'[Len(orders) + 1] = NewOrder(t)
      /\ \A i \in OrderIds : orders'[i] = orders[i]
  BY AppendType
<1>2. NewOrder(t).tag = t /\ NewOrder(t).status = "open"
  BY DEF NewOrder
<1>3. ASSUME NEW u \in Tags PROVE Sent(u)' = IF u = t THEN 1 ELSE Sent(u)
  <2>1. u = t => find_by_tag(u)' # {}
    BY <1>1, <1>2 DEF find_by_tag
  <2>2. u # t => (find_by_tag(u)' = {} <=> find_by_tag(u) = {})
    BY <1>1, <1>2 DEF find_by_tag
  <2> QED
    BY <2>1, <2>2 DEF Sent
<1>4. ASSUME NEW l \in Legs PROVE Traded(l)' = Traded(l)
  <2>1. Done(l)' <=> Done(l)
    BY <1>1, <1>2 DEF Done
  <2> QED
    BY <2>1 DEF Traded
<1>5. SentCount' = [SentCount EXCEPT ![t] = 1] /\ SentCount[t] = 0
  BY <1>3, Abstraction DEF Sent
<1>6. TradedUnits' = TradedUnits /\ (Done("Sell") => TradedUnits["Sell"] = 1)
  BY <1>4, Abstraction DEF Traded, Legs
<1> QED
  BY <1>5, <1>6 DEF Promise!Send

\* Orders that end with nothing executed, or do not change, are a stutter.
LEMMA EndingStutters ==
    ASSUME TypeOK, FlowInv, SentCount' = [t \in Tags |-> Sent(t)'], TradedUnits' = [l \in Legs |-> Traded(l)'],
           world' = world, OrderIds' = OrderIds,
           \A i \in OrderIds : /\ orders'[i].tag = orders[i].tag
                               /\ orders'[i].status = "filled" <=> orders[i].status = "filled"
    PROVE  SentCount' = SentCount /\ TradedUnits' = TradedUnits
<1>1. ASSUME NEW u \in Tags PROVE Sent(u)' = Sent(u)
  BY DEF Sent, find_by_tag
<1>2. ASSUME NEW l \in Legs PROVE Traded(l)' = Traded(l)
  BY DEF Traded, Done
<1> QED
  BY <1>1, <1>2, Abstraction

\* An order that executes is a Trade.
LEMMA ExecutionTrades ==
    ASSUME TypeOK, FlowInv, SentCount' = [t \in Tags |-> Sent(t)'], TradedUnits' = [l \in Legs |-> Traded(l)'],
           world' = world, ~world.overrun, NEW i \in OrderIds, orders[i].status = "open",
           orders' = [orders EXCEPT ![i].status = "filled"],
           ClosedSlots' = ClosedSlots, ActedSlots' = ActedSlots
    PROVE  \E l \in Legs : Promise!Trade(l)
<1>0. PICK t \in Tags, leg \in Legs : t = orders[i].tag /\ leg = t[2]
  BY OrdersType DEF Order, Tags
<1>1. /\ OrderIds' = OrderIds /\ \A j \in OrderIds : j # i => orders'[j] = orders[j]
      /\ orders'[i].tag = t /\ orders'[i].status = "filled"
  BY <1>0, OrdersType DEF OrderIds, Order
<1>2. ASSUME NEW u \in Tags PROVE Sent(u)' = Sent(u)
  BY <1>0, <1>1 DEF Sent, find_by_tag
<1>3. ~Done(leg) /\ Done(leg)'
  BY <1>0, <1>1 DEF Done, FlowInv, OncePerLeg
<1>4. ASSUME NEW l \in Legs PROVE Traded(l)' = IF l = leg THEN 1 ELSE Traded(l)
  <2>1. l # leg => (Done(l)' <=> Done(l))
    BY <1>0, <1>1 DEF Done
  <2> QED
    BY <1>3, <2>1 DEF Traded
<1>5. SentCount' = SentCount /\ SentCount[t] = 1
  BY <1>0, <1>2, Abstraction DEF Sent, find_by_tag
<1>6. TradedUnits' = [TradedUnits EXCEPT ![leg] = 1] /\ TradedUnits[leg] = 0
  BY <1>0, <1>3, <1>4, Abstraction DEF Traded
<1> QED
  BY <1>0, <1>5, <1>6, SameTags DEF Promise!Trade

\* A record that is written closes the slot, and counts it as acted only at the target.
LEMMA RecordCloses ==
    ASSUME TypeOK, FlowInv, ClaimInv, OnlyRecordsAct, SentCount' = SentCount, TradedUnits' = TradedUnits, world' = world,
           NEW p \in Procs, run[p].pc = "finish", runs[run[p].key].status = "in_progress",
           runs' = [runs EXCEPT ![run[p].key] = Record(p, @)]
    PROVE  Promise!Close(run[p].key)
<1> DEFINE k == run[p].key
<1>0. k \in Slots /\ runs \in [Slots -> RunRow] /\ runs[k] \in RunRow
  BY LegType DEF TypeOK
<1>1. /\ Record(p, runs[k]).status = "done"
      /\ Record(p, runs[k]).acted = (run[p].planned /\ run[p].kind = "Completed" /\ run[p].carried)
  BY <1>0 DEF Record, RunRow
<1>2. runs'[k] = Record(p, runs[k]) /\ \A j \in Slots : j # k => runs'[j] = runs[j]
  BY <1>0
<1> HIDE DEF k
<1>3. k \notin ClosedSlots /\ ClosedSlots' = ClosedSlots \cup {k}
  BY <1>0, <1>1, <1>2 DEF ClosedSlots, k
<1>4. CASE world.overrun \/ "unknown" \in world.faults
  <2>1. ActedSlots' = ActedSlots
    BY <1>4 DEF ActedSlots
  <2> QED
    BY <1>3, <2>1 DEF Promise!Close, k
<1>5. CASE ~world.overrun /\ "unknown" \notin world.faults /\ Record(p, runs[k]).acted
  <2>1. Done("Sell") /\ Done("Buy")
    BY <1>1, <1>5 DEF ClaimInv, Claim
  <2>2. TradedUnits = [l \in Legs |-> 1]
    BY <1>5, <2>1, Abstraction DEF Traded, Legs
  <2>3. ActedSlots' = ActedSlots \cup {k}
    BY <1>0, <1>2, <1>5 DEF ActedSlots
  <2> QED
    BY <1>3, <2>2, <2>3, SameTags DEF Promise!Close, k
<1>6. CASE ~world.overrun /\ "unknown" \notin world.faults /\ ~Record(p, runs[k]).acted
  <2>1. ~runs[k].acted
    BY <1>0 DEF OnlyRecordsAct, k
  <2>2. ActedSlots' = ActedSlots
    BY <1>0, <1>2, <1>6, <2>1 DEF ActedSlots
  <2> QED
    BY <1>3, <2>2 DEF Promise!Close, k
<1> QED
  BY <1>4, <1>5, <1>6

\* The abstract counters, in the state a step leads to.
LEMMA AbstractionNext ==
    TypeOK' /\ FlowInv' =>
        /\ SentCount' = [t \in Tags |-> Sent(t)']
        /\ TradedUnits' = [l \in Legs |-> Traded(l)']
<1>1. (TypeOK /\ FlowInv => SentCount = [t \in Tags |-> Sent(t)] /\ TradedUnits = [l \in Legs |-> Traded(l)])'
  BY Abstraction, PTL
<1> QED
  BY <1>1

\* The initial state is the abstract one.
LEMMA RefineInit == Init => Promise!Init
<1> SUFFICES ASSUME Init PROVE Promise!Init
  OBVIOUS
<1>1. OrderIds = {}
  BY DEF Init, OrderIds
<1>2. \A t \in Tags : find_by_tag(t) = {}
  BY <1>1 DEF find_by_tag
<1>3. \A l \in Legs : Executed(OrderIds, l) = Cardinality({})
  BY <1>1 DEF Executed
<1>4. SentCount = [t \in Tags |-> 0] /\ TradedUnits = [l \in Legs |-> 0]
  BY <1>2, <1>3, FS_EmptySet DEF SentCount, TradedUnits
<1>5. ClosedSlots = {} /\ ActedSlots = {}
  BY DEF Init, NotStarted, ClosedSlots, ActedSlots
<1> QED
  BY <1>4, <1>5, SameTags DEF Promise!Init

\* Every step of the pipeline is a step of the abstract rebalance, or none.
LEMMA RefineStep ==
    TypeOK /\ Following /\ FlowInv /\ ClaimInv /\ OnlyRecordsAct /\ [Next]_vars => [Promise!Next]_(Promise!vars)
<1> SUFFICES ASSUME TypeOK, Following, FlowInv, ClaimInv, OnlyRecordsAct, [Next]_vars
             PROVE  [Promise!Next]_(Promise!vars)
  OBVIOUS
<1>0. /\ world' = world
      /\ SentCount' = [t \in Tags |-> Sent(t)'] /\ TradedUnits' = [l \in Legs |-> Traded(l)']
  BY TypeStep, FlowStep, WorldKept, AbstractionNext
<1>1. \/ \A p \in Procs : ~Finish(p) \/ UNCHANGED store
      \/ \E p \in Procs : Finish(p) /\ ~UNCHANGED store
  OBVIOUS
<1>2. ASSUME SentCount' = SentCount, TradedUnits' = TradedUnits PROVE [Promise!Next]_(Promise!vars)
  <2>1. CASE \A p \in Procs : ~Finish(p) \/ UNCHANGED store
    BY <1>2, <2>1, RecordsSame DEF Promise!vars
  <2>2. ASSUME NEW p \in Procs, Finish(p), ~UNCHANGED store PROVE \E k \in Slots : Promise!Close(k)
    <3>1. /\ run[p].pc = "finish" /\ runs[run[p].key].status = "in_progress"
          /\ runs' = [runs EXCEPT ![run[p].key] = Record(p, @)]
      BY <2>2 DEF Finish
    <3>2. run[p].key \in Slots
      BY LegType
    <3> QED
      BY <1>0, <1>2, <3>1, <3>2, RecordCloses
  <2> QED
    BY <1>1, <2>1, <2>2 DEF Promise!Next
<1>3. ASSUME OrderIds' = OrderIds,
             \A i \in OrderIds : /\ orders'[i].tag = orders[i].tag
                                 /\ orders'[i].status = "filled" <=> orders[i].status = "filled"
      PROVE  [Promise!Next]_(Promise!vars)
  BY <1>0, <1>2, <1>3, EndingStutters
<1>4. ASSUME UNCHANGED orders PROVE [Promise!Next]_(Promise!vars)
  BY <1>3, <1>4 DEF OrderIds
<1>5. CASE world.overrun
  <2>1. SentCount' = SentCount /\ TradedUnits' = TradedUnits
    BY <1>0, <1>5 DEF SentCount, TradedUnits
  <2> QED
    BY <1>2, <2>1
<1>6. ASSUME ~world.overrun, NEW t \in Tags, orders' = Append(orders, NewOrder(t)), find_by_tag(t) = {},
             t[2] = "Buy" => Done("Sell"), \A p \in Procs : ~Finish(p) \/ UNCHANGED store
      PROVE  [Promise!Next]_(Promise!vars)
  <2>1. ClosedSlots' = ClosedSlots /\ ActedSlots' = ActedSlots
    BY <1>6, RecordsSame
  <2>2. Promise!Send(t)
    BY <1>0, <1>6, <2>1, ArrivalSends
  <2> QED
    BY <2>2, SameTags DEF Promise!Next
<1>7. ASSUME ~world.overrun, NEW p \in Procs, Place(p) PROVE [Promise!Next]_(Promise!vars)
  <2>1. Attempts
    BY <1>7 DEF FlowInv
  <2>2. CASE UNCHANGED orders
    BY <1>4, <2>2
  <2>3. CASE orders' = Append(orders, NewOrder(tag(p)))
    <3>1. tag(p) \in Tags /\ find_by_tag(tag(p)) = {} /\ (tag(p)[2] = "Buy" => Done("Sell"))
      BY <1>7, <2>1, PlaceReady DEF find_by_tag
    <3>2. UNCHANGED store
      BY <1>7 DEF Place
    <3> QED
      BY <1>6, <1>7, <2>3, <3>1, <3>2
  <2> QED
    BY <1>7, <2>2, <2>3 DEF Place, broker
<1>8. ASSUME ~world.overrun, NEW t \in transit, Land(t) PROVE [Promise!Next]_(Promise!vars)
  <2>1. CASE UNCHANGED orders
    BY <1>4, <2>1
  <2>2. CASE orders' = Append(orders, NewOrder(t))
    <3>1. t \in Tags /\ find_by_tag(t) = {} /\ (t[2] = "Buy" => Done("Sell"))
      BY <1>8 DEF FlowInv, OncePerTag, OncePerLeg, find_by_tag, TypeOK
    <3>2. UNCHANGED store
      BY <1>8 DEF Land
    <3> QED
      BY <1>6, <1>8, <2>2, <3>1, <3>2
  <2> QED
    BY <1>8, <2>1, <2>2 DEF Land
<1>9. ASSUME ~world.overrun, NEW i \in OrderIds, Execute(i) PROVE [Promise!Next]_(Promise!vars)
  <2>1. CASE orders' = [orders EXCEPT ![i].status = "filled"]
    <3>1. UNCHANGED store
      BY <1>9 DEF Execute
    <3>2. ClosedSlots' = ClosedSlots /\ ActedSlots' = ActedSlots
      BY <3>1, RecordsSame
    <3>3. \E l \in Legs : Promise!Trade(l)
      BY <1>0, <1>9, <2>1, <3>2, ExecutionTrades DEF Execute
    <3> QED
      BY <3>3, SameTags DEF Promise!Next
  <2>2. CASE orders' = [orders EXCEPT ![i].status = "cancelled"]
    <3>1. OrderIds' = OrderIds /\ \A j \in OrderIds : j # i => orders'[j] = orders[j]
      BY <2>2, OrdersType DEF OrderIds
    <3>2. orders'[i].tag = orders[i].tag /\ orders'[i].status = "cancelled" /\ orders[i].status = "open"
      BY <1>9, <2>2, OrdersType DEF Order, Execute
    <3> QED
      BY <1>3, <3>1, <3>2
  <2> QED
    BY <1>9, <2>1, <2>2 DEF Execute
<1>10. ASSUME NEW p \in Procs, Cleanup(p) PROVE [Promise!Next]_(Promise!vars)
  <2>1. CASE UNCHANGED orders
    BY <1>4, <2>1
  <2>2. CASE orders' = [i \in OrderIds |-> IF i \in OpenOrders THEN [orders[i] EXCEPT !.status = "cancelled"]
                                           ELSE orders[i]]
    <3>1. OrderIds' = OrderIds
      BY <2>2 DEF OrderIds
    <3>2. ASSUME NEW i \in OrderIds
          PROVE  /\ orders'[i].tag = orders[i].tag
                 /\ orders'[i].status = "filled" <=> orders[i].status = "filled"
      BY <2>2, OrdersType DEF OpenOrders, Order
    <3> QED
      BY <1>3, <3>1, <3>2
  <2> QED
    BY <1>10, <2>1, <2>2 DEF Cleanup
<1>11. ASSUME NEW p \in Procs, Settle(p) PROVE [Promise!Next]_(Promise!vars)
  <2> DEFINE id == run[p].placed[run[p].leg].id
  <2>1. id \in OrderIds
    BY <1>11 DEF Settle, Following
  <2>2. \/ UNCHANGED orders
        \/ orders[id].status = "open" /\ orders' = [orders EXCEPT ![id].status = "cancelled"]
    BY <1>11 DEF Settle
  <2>3. CASE orders[id].status = "open" /\ orders' = [orders EXCEPT ![id].status = "cancelled"]
    <3> HIDE DEF id
    <3>1. OrderIds' = OrderIds /\ \A j \in OrderIds : j # id => orders'[j] = orders[j]
      BY <2>1, <2>3, OrdersType DEF OrderIds
    <3>2. orders'[id].tag = orders[id].tag /\ orders'[id].status = "cancelled"
      BY <2>1, <2>3, OrdersType DEF Order
    <3> QED
      BY <1>3, <2>3, <3>1, <3>2
  <2> QED
    BY <1>4, <2>2, <2>3
<1>12. ASSUME NEW p \in Procs, Step(p) \/ Crash(p), ~Cleanup(p), ~Settle(p), ~Place(p) PROVE UNCHANGED orders
  BY <1>12 DEF Step, Crash, TryLock, Begin, BeginFails, Gate, ReadAccount, Reread, ReconPre, Risk, Plan, LookUp,
               JournalIntent, JournalId, LookAgain, Replan, LastLookUp, ReconPost, Finish, Unlock, broker
<1>13. CASE LockExpires \/ (\E k \in Slots : RunLeaseExpires(k)) \/ NextSlot \/ UNCHANGED vars
  BY <1>4, <1>13 DEF LockExpires, RunLeaseExpires, NextSlot, vars, broker
<1> QED
  BY <1>4, <1>5, <1>7, <1>8, <1>9, <1>10, <1>11, <1>12, <1>13 DEF Next

\* The pipeline implements the abstract rebalance: over any number of processes,
\* slots, crashes, lost answers and expired run leases, a tag is sent at most once,
\* no leg executes twice, a buy is sent only after its sell executed, and a slot
\* closes for good and counts as acted only with the account at its target
\* (execute_order, journal_order, begin, finish, the account lock).
THEOREM PipelineImplementsRebalance == Spec => ImplementsRebalance
<1>1. Spec => [](TypeOK /\ Following /\ FlowInv /\ ClaimInv /\ OnlyRecordsAct)
  BY TypeInvariant, FlowInvariant, ClaimInvariant, OnlyRecordsActInvariant, PTL
<1> QED
  BY <1>1, RefineInit, RefineStep, PTL DEF Spec, ImplementsRebalance, Promise!Spec

\* A run recorded as having acted has both legs executed behind it.
ActedIsDone ==
    ~world.overrun /\ "unknown" \notin world.faults /\ acted_decision => Done("Sell") /\ Done("Buy")

LEMMA ActedStep ==
    TypeOK /\ Following /\ FlowInv /\ ClaimInv /\ ActedIsDone /\ [Next]_vars => ActedIsDone'
<1> SUFFICES ASSUME TypeOK, Following, FlowInv, ClaimInv, ActedIsDone, [Next]_vars, ~world'.overrun,
                    "unknown" \notin world'.faults, NEW k \in Slots, runs'[k].acted
             PROVE  Done("Sell")' /\ Done("Buy")'
  BY DEF ActedIsDone, acted_decision
<1>1. ~world.overrun /\ "unknown" \notin world.faults /\ OrdersKept
  BY WorldKept, BrokerStep
<1>2. ASSUME Done("Sell"), Done("Buy") PROVE Done("Sell")' /\ Done("Buy")'
  BY <1>1, <1>2, DoneStays
<1>3. CASE runs[k].acted
  BY <1>1, <1>2, <1>3 DEF ActedIsDone, acted_decision
<1>4. CASE ~runs[k].acted
  <2>1. ~(ActedSlots' = ActedSlots)
    BY <1>1, <1>4, WorldKept DEF ActedSlots
  <2>2. PICK p \in Procs : Finish(p) /\ ~UNCHANGED store
    BY <2>1, RecordsSame
  <2>3. /\ run[p].pc = "finish" /\ runs' = [runs EXCEPT ![run[p].key] = Record(p, @)]
        /\ runs \in [Slots -> RunRow]
    BY <2>2 DEF Finish, TypeOK
  <2>4. run[p].key = k
    BY <1>4, <2>3
  <2>5. run[p].planned /\ run[p].carried
    BY <2>3, <2>4 DEF Record, RunRow
  <2>6. Done("Sell") /\ Done("Buy")
    BY <1>1, <2>3, <2>5 DEF ClaimInv, Claim
  <2> QED
    BY <1>2, <2>6
<1> QED
  BY <1>3, <1>4

\* In the worlds that honour the lock and lose no answer, a decision counts as acted
\* on only with the account at its target (step_assess, finish).  MCPipelineLostSell
\* shows that a lost answer is enough to break it.
THEOREM ActedOnlyAtTarget == Spec => [](~world.overrun /\ "unknown" \notin world.faults => ActedAtTarget)
<1>1. Init => ActedIsDone
  BY DEF Init, NotStarted, ActedIsDone, acted_decision
<1>2. Spec => [](TypeOK /\ FlowInv /\ ActedIsDone)
  BY <1>1, ActedStep, TypeInvariant, FlowInvariant, ClaimInvariant, PTL DEF Spec
<1>3. TypeOK /\ FlowInv /\ ActedIsDone => (~world.overrun /\ "unknown" \notin world.faults => ActedAtTarget)
  <2> SUFFICES ASSUME TypeOK, FlowInv, ActedIsDone, ~world.overrun, "unknown" \notin world.faults, acted_decision
               PROVE  snapshot = [sold |-> 1, bought |-> 1]
    BY DEF ActedAtTarget
  <2>1. \A l \in Legs : TradedUnits[l] = 1
    BY Abstraction DEF ActedIsDone, Traded, Legs
  <2> QED
    BY <2>1 DEF TradedUnits, snapshot, Legs
<1> QED
  BY <1>2, <1>3, PTL

-----------------------------------------------------------------------------
(* Crashes alone never halt the account. *)

\* The worlds of the claim.
Calm == ~world.overrun /\ ~world.abandon /\ world.faults \subseteq {"crash"}

\* The account that these orders alone make, and the orders of the runs on record.
View(ids) == [sold |-> Executed(ids, "Sell"), bought |-> Executed(ids, "Buy")]
Closed == {i \in OrderIds : runs[orders[i].tag[1]].status = "done"}
Ended(ids) == \A i \in ids : orders[i].status # "open"

\* Only today's run may be in progress; what the runs on record left has ended, and the
\* last snapshot is exactly that.  An order not on record yet is of a pending decision.
CalmBooks ==
    /\ transit = {} /\ ~acct.halted
    /\ \A k \in Slots : /\ runs[k].status = "in_progress" => k = slot
                        /\ runs[k].status # "absent" => k <= slot
    /\ \A i \in OrderIds : runs[orders[i].tag[1]].status # "absent"
    /\ \A i \in OrderIds : orders[i].tag[2] = "Buy" /\ orders[i].status # "cancelled" => Done("Sell")
    /\ Ended(Closed)
    /\ Closed # OrderIds => Pending
    /\ IF last_snapshot = None THEN Closed = {} ELSE last_snapshot = View(Closed)

\* The baseline of an attempt is the account without the orders it will report, and it
\* will report every order that is neither on record nor in the baseline.
Based(p) ==
    /\ run[p].base = View(Closed \cup run[p].applied)
    /\ run[p].applied \subseteq OrderIds /\ Ended(run[p].applied)
    /\ \A i \in OrderIds \ (Closed \cup run[p].applied) :
          \E l \in Legs : run[p].placed[l] # None /\ run[p].placed[l].id = i

\* A leg that was sent names its order; only the order being followed may be open.
SentLeg(p, l) ==
    /\ run[p].placed[l].id \in OrderIds /\ orders[run[p].placed[l].id].tag = <<run[p].key, l>>
    /\ ~run[p].placed[l].anomaly
    /\ IF run[p].pc \in {"journal", "settle"} /\ l = run[p].leg
       THEN run[p].placed[l].outcome \in {"NotSent", "AdoptedExisting"}
       ELSE /\ run[p].placed[l].outcome \in {"Filled", "NothingExecuted", "AdoptedExisting"}
            /\ orders[run[p].placed[l].id].status # "open"

\* What the record of an attempt will say of the account.
FinalView(p) == IF run[p].post # None THEN run[p].post ELSE run[p].pre

Booked == {"risk", "plan", "journal", "settle", "replan", "last_look", "recon_post"} \cup Sending

CalmAttempt(p) ==
    /\ run[p].pc # "look_again"
    /\ run[p].pc \notin {"idle", "begin", "unlock"} => runs[run[p].key].status = "in_progress"
    /\ run[p].pc \notin {"idle", "begin", "gate", "finish", "unlock"} => Pending
    /\ run[p].pc \notin {"idle", "finish", "unlock"} => run[p].post = None
    /\ run[p].pc \in {"begin", "gate"} => run[p].pre = None
    /\ run[p].pc \in {"begin"} \cup Early \cup Looked => \A l \in Legs : run[p].placed[l] = None
    /\ run[p].pc \in Sending => run[p].placed[run[p].leg] = None
    /\ run[p].pc \in Trading /\ run[p].leg = "Sell" => run[p].placed["Buy"] = None
    /\ run[p].pc \in Looked \ {"reread"} => run[p].pre = snapshot
    /\ run[p].pc \in Booked => Based(p) /\ \A l \in Legs : run[p].placed[l] # None => SentLeg(p, l)
    /\ run[p].pc = "finish" =>
          IF FinalView(p) = None THEN Closed = OrderIds ELSE FinalView(p) = snapshot /\ OpenOrders = {}

\* The invariant of those worlds.
CalmInv == Calm => CalmBooks /\ \A p \in Procs : CalmAttempt(p)

\* None of the other faults happens in these worlds.
LEMMA CalmFaults ==
    ASSUME Calm
    PROVE  /\ ~Fault("down") /\ ~Fault("refuse") /\ ~Fault("reject") /\ ~Fault("unknown") /\ ~Fault("unfilled")
           /\ \A p : ~FailClosed(p)
<1>1. \A f : Fault(f) => f = "crash"
  BY DEF Calm, Fault
<1> QED
  BY <1>1 DEF FailClosed

\* A view is made order by order.
LEMMA ViewSplit ==
    ASSUME TypeOK, NEW S \in SUBSET OrderIds, NEW T \in SUBSET OrderIds, S \cap T = {}
    PROVE  View(S) \in Views /\ after_orders(View(S), T) = View(S \cup T)
<1> DEFINE F(ids, l) == {i \in ids : orders[i].tag[2] = l /\ orders[i].status = "filled"}
<1>1. ASSUME NEW l PROVE Executed(S \cup T, l) = Executed(S, l) + Executed(T, l) /\ Executed(S, l) \in Nat
  <2>1. /\ IsFiniteSet(F(S, l)) /\ IsFiniteSet(F(T, l))
        /\ Cardinality(F(S, l)) \in Nat /\ Cardinality(F(T, l)) \in Nat
    BY ExecutedType, FS_CardinalityType
  <2>2. F(S, l) \cap F(T, l) = {} /\ F(S, l) \cup F(T, l) = F(S \cup T, l)
    OBVIOUS
  <2>3. PICK A, B : A = F(S, l) /\ B = F(T, l)
    OBVIOUS
  <2>4. Cardinality(A \cup B) = Cardinality(A) + Cardinality(B) - Cardinality(A \cap B)
    BY <2>1, <2>3, FS_Union
  <2>5. Cardinality(A \cap B) = 0
    BY <2>2, <2>3, FS_EmptySet
  <2>6. PICK m \in Nat, n \in Nat : m = Cardinality(A) /\ n = Cardinality(B)
    BY <2>1, <2>3
  <2>7. Cardinality(A \cup B) = m + n
    BY <2>4, <2>5, <2>6
  <2>8. Executed(S, l) = m /\ Executed(T, l) = n /\ Executed(S \cup T, l) = Cardinality(A \cup B)
    BY <2>2, <2>3, <2>6 DEF Executed
  <2> QED
    BY <2>7, <2>8
<1>2. View(S).sold = Executed(S, "Sell") /\ View(S).bought = Executed(S, "Buy")
  BY DEF View
<1>3. View(S) \in Views
  BY <1>1 DEF View, Views
<1> QED
  BY <1>1, <1>2, <1>3 DEF View, after_orders

\* What has ended stays as it is, and so does the view of it.
LEMMA ViewStays ==
    ASSUME OrdersKept, NEW S \in SUBSET OrderIds, Ended(S)
    PROVE  /\ Ended(S)'
           /\ \A l : {i \in S : orders'[i].tag[2] = l /\ orders'[i].status = "filled"}
                     = {i \in S : orders[i].tag[2] = l /\ orders[i].status = "filled"}
<1>1. \A i \in S : orders'[i].tag = orders[i].tag /\ orders'[i].status = orders[i].status
  BY DEF OrdersKept, Ended
<1> QED
  BY <1>1 DEF Ended

\* The same of a set that the step may change, when it does not.
LEMMA SameView ==
    ASSUME OrdersKept, NEW S \in SUBSET OrderIds, Ended(S)
    PROVE  [sold |-> Executed(S, "Sell")', bought |-> Executed(S, "Buy")'] = View(S)
BY ViewStays DEF Executed, View

\* An account that holds the whole: no more was bought than sold.
LEMMA WholeView ==
    ASSUME TypeOK, FlowInv, Calm, CalmBooks
    PROVE  /\ snapshot = View(OrderIds) /\ snapshot.bought <= snapshot.sold
           /\ \A ids : ~(ids \subseteq OrderIds /\ DoubleFill(ids))
<1>1. ~world.overrun /\ OncePerTag
  BY DEF Calm, FlowInv
<1>2. \A l \in Legs : Executed(OrderIds, l) = Traded(l)
  BY <1>1, Abstraction DEF TradedUnits
<1>3. Executed(OrderIds, "Sell") = Traded("Sell") /\ Executed(OrderIds, "Buy") = Traded("Buy")
  BY <1>2 DEF Legs
<1>4. Done("Buy") => Done("Sell")
  BY DEF CalmBooks, Done
<1>5. Traded("Buy") <= Traded("Sell")
  BY <1>1, <1>4 DEF Traded
<1>6. snapshot.bought <= snapshot.sold
  BY <1>3, <1>5 DEF snapshot
<1> QED
  BY <1>1, <1>6 DEF snapshot, View, DoubleFill, OncePerTag, NoDoublePlacement

\* The orders not on record are those of the run in progress, all of them journaled.
LEMMA InFlight ==
    ASSUME TypeOK, JournalCoversOrders, CalmBooks
    PROVE  in_flight_orders = OrderIds \ Closed
<1>1. ASSUME NEW i \in OrderIds PROVE /\ orders[i].tag[1] \in Slots /\ runs[orders[i].tag[1]].status \in {"in_progress", "done"}
                                      /\ runs[orders[i].tag[1]].journal[orders[i].tag[2]] # "no"
  <2>1. orders[i].tag \in Tags
    BY OrdersType DEF Order
  <2>2. orders[i].tag[1] \in Slots
    BY <2>1 DEF Tags
  <2>3. runs[orders[i].tag[1]].status \in {"absent", "in_progress", "done"}
    BY <2>2 DEF TypeOK, RunRow
  <2> QED
    BY <2>2, <2>3 DEF JournalCoversOrders, CalmBooks
<1> QED
  BY <1>1 DEF in_flight_orders, Closed

\* The pre-trade baseline is the account itself, as far as there is one.
LEMMA PreBaseline ==
    ASSUME TypeOK, FlowInv, JournalCoversOrders, Calm, CalmBooks
    PROVE  /\ pre_baseline \in {None, snapshot}
           /\ snapshot = View(Closed \cup in_flight_orders)
           /\ Reconciles(snapshot, pre_baseline, in_flight_orders)
<1>1. in_flight_orders = OrderIds \ Closed /\ Closed \subseteq OrderIds
  BY InFlight DEF Closed
<1>2. Closed \cup in_flight_orders = OrderIds /\ Closed \cap in_flight_orders = {}
  BY <1>1
<1>3. snapshot = View(Closed \cup in_flight_orders)
  BY <1>2, WholeView
<1>4. after_orders(View(Closed), in_flight_orders) = View(Closed \cup in_flight_orders)
  BY <1>1, <1>2, ViewSplit
<1>5. pre_baseline \in {None, snapshot}
  BY <1>3, <1>4 DEF pre_baseline, CalmBooks
<1> QED
  BY <1>1, <1>3, <1>5, WholeView DEF Reconciles

\* After its last order has ended an attempt reports every order it added, and the
\* account is its baseline with them.
LEMMA PostReports ==
    ASSUME TypeOK, FlowInv, Calm, CalmBooks, NEW p \in Procs, CalmAttempt(p), run[p].pc = "recon_post"
    PROVE  /\ ~Unsettled(p) /\ ~Anomalous(p) /\ OpenOrders = {}
           /\ Reconciles(snapshot, after_orders(run[p].base, NewReports(p)), UNION {Reports(p, l) : l \in PlacedLegs(p)})
<1> DEFINE known == Closed \cup run[p].applied
<1>1. Based(p) /\ runs[run[p].key].status = "in_progress"
  BY DEF CalmAttempt, Booked
<1>2. ASSUME NEW l \in PlacedLegs(p)
      PROVE  /\ run[p].placed[l] # None /\ run[p].placed[l].id \in OrderIds
             /\ orders[run[p].placed[l].id].tag = <<run[p].key, l>> /\ ~run[p].placed[l].anomaly
             /\ run[p].placed[l].outcome \in {"Filled", "NothingExecuted", "AdoptedExisting"}
             /\ orders[run[p].placed[l].id].status # "open"
  BY <1>2 DEF CalmAttempt, Booked, PlacedLegs, SentLeg
<1>3. ASSUME NEW l \in PlacedLegs(p) PROVE Reports(p, l) = {run[p].placed[l].id} /\ run[p].placed[l].id \notin Closed
  <2>1. Reports(p, l) = {run[p].placed[l].id}
    BY <1>2, <1>3 DEF Reports
  <2>2. orders[run[p].placed[l].id].tag[1] = run[p].key
    BY <1>2, <1>3
  <2> QED
    BY <1>1, <2>1, <2>2 DEF Closed
<1>4. NewReports(p) = OrderIds \ known
  <2>1. ASSUME NEW i \in NewReports(p) PROVE i \in OrderIds \ known
    <3>1. PICK l \in PlacedLegs(p) : i \in Reports(p, l) /\ Reports(p, l) \cap run[p].applied = {}
      BY <2>1 DEF NewReports
    <3> QED
      BY <1>2, <1>3, <3>1
  <2>2. ASSUME NEW i \in OrderIds \ known PROVE i \in NewReports(p)
    <3>1. PICK l \in Legs : run[p].placed[l] # None /\ run[p].placed[l].id = i
      BY <1>1, <2>2 DEF Based
    <3>2. l \in PlacedLegs(p)
      BY <3>1 DEF PlacedLegs
    <3>3. Reports(p, l) = {i} /\ i \notin run[p].applied
      BY <1>3, <2>2, <3>1, <3>2
    <3> QED
      BY <3>2, <3>3 DEF NewReports
  <2> QED
    BY <2>1, <2>2
<1>5. known \in SUBSET OrderIds /\ known \cup (OrderIds \ known) = OrderIds
  BY <1>1 DEF Based, Closed
<1>6. after_orders(run[p].base, NewReports(p)) = View(OrderIds)
  <2>1. PICK S : S = known
    OBVIOUS
  <2>2. run[p].base = View(S)
    BY <1>1, <2>1 DEF Based
  <2>3. after_orders(View(S), OrderIds \ S) = View(S \cup (OrderIds \ S))
    BY <1>5, <2>1, ViewSplit
  <2> QED
    BY <1>4, <1>5, <2>1, <2>2, <2>3
<1>7. OpenOrders = {}
  <2>1. ASSUME NEW i \in OrderIds PROVE orders[i].status # "open"
    <3>1. CASE i \in known
      BY <1>1, <3>1 DEF Based, Ended, CalmBooks
    <3>2. CASE i \notin known
      <4>1. PICK l \in Legs : run[p].placed[l] # None /\ run[p].placed[l].id = i
        BY <1>1, <2>1, <3>2 DEF Based
      <4> QED
        BY <1>2, <4>1 DEF PlacedLegs
    <3> QED
      BY <3>1, <3>2
  <2> QED
    BY <2>1 DEF OpenOrders
<1>8. ~Unsettled(p) /\ ~Anomalous(p)
  BY <1>2 DEF Unsettled, Anomalous
<1>9. UNION {Reports(p, l) : l \in PlacedLegs(p)} \subseteq OrderIds
  BY <1>2, <1>3
<1> QED
  BY <1>6, <1>7, <1>8, <1>9, WholeView DEF Reconciles

\* What a step that writes no record does to the run rows.
RowsKept ==
    \A k \in Slots :
        /\ runs'[k].status = "done" <=> runs[k].status = "done"
        /\ runs'[k].acted = runs[k].acted /\ runs'[k].snapshot = runs[k].snapshot
        /\ runs'[k].status = runs[k].status \/ (k = slot /\ runs'[k].status = "in_progress")

LEMMA RowsStep ==
    ASSUME TypeOK, OneAtATime, [Next]_vars, \A p \in Procs : ~Finish(p) \/ UNCHANGED store
    PROVE  RowsKept
<1>0. /\ runs \in [Slots -> RunRow] /\ \A k \in Slots : runs[k] \in RunRow
  BY DEF TypeOK
<1> SUFFICES ASSUME NEW k \in Slots
             PROVE  /\ runs'[k].status = "done" <=> runs[k].status = "done"
                    /\ runs'[k].acted = runs[k].acted /\ runs'[k].snapshot = runs[k].snapshot
                    /\ runs'[k].status = runs[k].status \/ (k = slot /\ runs'[k].status = "in_progress")
  BY DEF RowsKept
<1>1. CASE UNCHANGED runs
  BY <1>1
<1>2. ASSUME NEW p \in Procs, Begin(p)
      PROVE  /\ runs'[k].status = "done" <=> runs[k].status = "done"
             /\ runs'[k].acted = runs[k].acted /\ runs'[k].snapshot = runs[k].snapshot
             /\ runs'[k].status = runs[k].status \/ (k = slot /\ runs'[k].status = "in_progress")
  <2>1. CASE UNCHANGED runs
    BY <1>1, <2>1
  <2>2. CASE ~UNCHANGED runs
    <3>1. run[p].key = slot /\ runs[run[p].key].status # "done"
      BY <1>2, <2>2 DEF Begin, OneAtATime, store
    <3>2. runs' = [runs EXCEPT ![run[p].key].status = "in_progress", ![run[p].key].attempt = @ + 1]
      BY <1>2, <2>2 DEF Begin, store
    <3> QED
      BY <1>0, <3>1, <3>2 DEF RunRow
  <2> QED
    BY <2>1, <2>2
<1>3. ASSUME NEW p \in Procs, NEW e, Journals(p, e)
      PROVE  /\ runs'[k].status = "done" <=> runs[k].status = "done"
             /\ runs'[k].acted = runs[k].acted /\ runs'[k].snapshot = runs[k].snapshot
             /\ runs'[k].status = runs[k].status \/ (k = slot /\ runs'[k].status = "in_progress")
  BY <1>0, <1>3 DEF Journals, RunRow
<1>4. ASSUME NEW p \in Procs, Step(p) \/ Crash(p), ~Begin(p) PROVE UNCHANGED runs \/ \E e : Journals(p, e)
  BY <1>4 DEF Step, Crash, TryLock, BeginFails, Gate, ReadAccount, Cleanup, Reread, ReconPre, Risk, Plan, LookUp,
                Place, LookAgain, Settle, Replan, LastLookUp, ReconPost, Unlock, store, JournalIntent, JournalId
<1>5. CASE ~\E p \in Procs : Step(p) \/ Crash(p)
  BY <1>1, <1>5 DEF Next, LockExpires, RunLeaseExpires, NextSlot, Land, Execute, vars, store
<1> QED
  BY <1>1, <1>2, <1>3, <1>4, <1>5

\* Without a new record, and without a new order of a run on record, the books of the
\* runs on record stay.
LEMMA RecordStays ==
    ASSUME TypeOK, world' = world, OrdersKept, RowsKept, CalmBooks,
           \A i \in OrderIds' \ OrderIds : orders'[i].tag[1] \in Slots /\ runs[orders'[i].tag[1]].status # "done"
    PROVE  /\ Closed' = Closed /\ Ended(Closed)' /\ View(Closed)' = View(Closed)
           /\ last_snapshot' = last_snapshot /\ (Pending' <=> Pending)
<1>0. \A i \in OrderIds : orders[i].tag[1] \in Slots
  <2>1. \A i \in OrderIds : orders[i].tag \in Tags
    BY OrdersType DEF Order
  <2> QED
    BY <2>1 DEF Tags
<1>1. Closed' = Closed
  <2>1. ASSUME NEW i \in Closed' PROVE i \in Closed
    <3>1. i \in OrderIds' /\ runs'[orders'[i].tag[1]].status = "done"
      BY <2>1 DEF Closed
    <3>2. i \in OrderIds
      BY <3>1 DEF RowsKept
    <3> QED
      BY <1>0, <3>1, <3>2 DEF Closed, OrdersKept, RowsKept
  <2>2. ASSUME NEW i \in Closed PROVE i \in Closed'
    BY <1>0, <2>2 DEF Closed, OrdersKept, RowsKept
  <2> QED
    BY <2>1, <2>2
<1>2. PICK S : S = Closed
  OBVIOUS
<1>3. S \in SUBSET OrderIds /\ Ended(S)
  BY <1>2 DEF Closed, CalmBooks
<1>4. Ended(Closed)' /\ View(Closed)' = View(Closed)
  BY <1>1, <1>2, <1>3, ViewStays DEF Ended, View, Executed
<1>5. last_snapshot' = last_snapshot
  <2> DEFINE withView == {k \in Slots : runs[k].status = "done" /\ runs[k].snapshot # None}
  <2>1. withView' = withView
    BY DEF RowsKept
  <2>2. withView # {} => Max(withView) \in Slots
    BY MaxInSet, PipelineAssumption DEF Slots
  <2>3. PICK W : W = withView
    OBVIOUS
  <2>4. W # {} => runs'[Max(W)].snapshot = runs[Max(W)].snapshot
    BY <2>2, <2>3 DEF RowsKept
  <2> QED
    BY <2>1, <2>3, <2>4 DEF last_snapshot
<1>6. Pending' <=> Pending
  <2>1. acted_decision' <=> acted_decision
    BY DEF acted_decision, RowsKept
  <2> QED
    BY <2>1 DEF Pending
<1> QED
  BY <1>1, <1>4, <1>5, <1>6

\* The books of the account stay through a step that writes no record, whose new orders
\* are of the run in progress, and that halts nothing.
LEMMA BooksStay ==
    ASSUME TypeOK, CalmBooks, world' = world, slot' = slot, OrdersKept, RowsKept, ~acct'.halted, transit' = {},
           \A i \in OrderIds' \ OrderIds :
              /\ orders'[i].tag[1] \in Slots /\ runs[orders'[i].tag[1]].status = "in_progress" /\ Pending
              /\ orders'[i].tag[2] = "Buy" => Done("Sell")
    PROVE  CalmBooks' /\ Closed' = Closed /\ View(Closed)' = View(Closed) /\ (Pending' <=> Pending)
<1>0. \A i \in OrderIds : orders[i].tag[1] \in Slots
  <2>1. \A i \in OrderIds : orders[i].tag \in Tags
    BY OrdersType DEF Order
  <2> QED
    BY <2>1 DEF Tags
<1>1. /\ Closed' = Closed /\ Ended(Closed)' /\ View(Closed)' = View(Closed)
      /\ last_snapshot' = last_snapshot /\ (Pending' <=> Pending)
  BY RecordStays
<1>2. \A k \in Slots : /\ runs'[k].status = "in_progress" => k = slot'
                       /\ runs'[k].status # "absent" => k <= slot'
  <2>1. slot \in Nat /\ \A k \in Slots : k \in Nat
    BY DEF TypeOK, Slots
  <2> QED
    BY <2>1 DEF CalmBooks, RowsKept
<1>3. \A i \in OrderIds' : runs'[orders'[i].tag[1]].status # "absent"
  <2> SUFFICES ASSUME NEW i \in OrderIds' PROVE runs'[orders'[i].tag[1]].status # "absent"
    OBVIOUS
  <2>1. orders'[i].tag[1] \in Slots /\ runs[orders'[i].tag[1]].status # "absent"
    BY <1>0 DEF OrdersKept, CalmBooks
  <2> QED
    BY <2>1 DEF RowsKept
<1>4. \A i \in OrderIds' : orders'[i].tag[2] = "Buy" /\ orders'[i].status # "cancelled" => Done("Sell")'
  <2> SUFFICES ASSUME NEW i \in OrderIds', orders'[i].tag[2] = "Buy", orders'[i].status # "cancelled" PROVE Done("Sell")'
    OBVIOUS
  <2>1. Done("Sell")
    BY DEF OrdersKept, CalmBooks
  <2> QED
    BY <2>1, DoneStays
<1>5. Closed' # OrderIds' => Pending'
  <2>1. CASE OrderIds' = OrderIds
    BY <1>1, <2>1 DEF CalmBooks
  <2>2. CASE OrderIds' # OrderIds
    BY <1>1, <2>2 DEF OrdersKept
  <2> QED
    BY <2>1, <2>2
<1>6. IF last_snapshot' = None THEN Closed' = {} ELSE last_snapshot' = View(Closed)'
  BY <1>1 DEF CalmBooks
<1>7. CalmBooks'
  BY <1>1, <1>2, <1>3, <1>4, <1>5, <1>6 DEF CalmBooks
<1> QED
  BY <1>1, <1>7

\* With nothing open, the account stays as it is until the next order.
LEMMA SnapshotStays ==
    ASSUME OrdersKept, OrderIds' = OrderIds, OpenOrders = {}
    PROVE  snapshot' = snapshot /\ OpenOrders' = {}
<1>1. PICK S : S = OrderIds
  OBVIOUS
<1>2. S \in SUBSET OrderIds /\ Ended(S)
  BY <1>1 DEF Ended, OpenOrders
<1>3. snapshot' = snapshot
  <2>1. snapshot' = [sold |-> Executed(S, "Sell")', bought |-> Executed(S, "Buy")']
    BY <1>1 DEF snapshot, Executed
  <2>2. snapshot = View(S)
    BY <1>1 DEF snapshot, View
  <2> QED
    BY <1>2, <2>1, <2>2, SameView
<1>4. OpenOrders' = {}
  <2>1. Ended(S)'
    BY <1>2, ViewStays
  <2> QED
    BY <1>1, <2>1 DEF OpenOrders, Ended
<1> QED
  BY <1>3, <1>4

\* What an attempt knows of its baseline stays while it only adds orders it follows.
LEMMA BasedStays ==
    ASSUME CalmBooks, OrdersKept, Closed' = Closed, NEW p \in Procs, Based(p),
           run'[p].base = run[p].base, run'[p].applied = run[p].applied,
           \A l \in Legs : run[p].placed[l] # None =>
              run'[p].placed[l] # None /\ run'[p].placed[l].id = run[p].placed[l].id,
           \A i \in OrderIds' \ OrderIds : \E l \in Legs : run'[p].placed[l] # None /\ run'[p].placed[l].id = i
    PROVE  Based(p)'
<1>1. PICK S, T : S = Closed \cup run[p].applied /\ T = run[p].applied
  OBVIOUS
<1>2. S \in SUBSET OrderIds /\ T \in SUBSET OrderIds /\ Ended(S) /\ Ended(T)
  BY <1>1 DEF Based, Ended, CalmBooks, Closed
<1>3. (Closed \cup run[p].applied)' = S /\ run'[p].applied = T
  BY <1>1
<1>4. run'[p].base = [sold |-> Executed(S, "Sell")', bought |-> Executed(S, "Buy")']
  BY <1>1, <1>2, SameView DEF Based
<1>5. Ended(T)' /\ T \subseteq OrderIds'
  BY <1>2, ViewStays DEF OrdersKept
<1>6. ASSUME NEW i \in OrderIds' \ S PROVE \E l \in Legs : run'[p].placed[l] # None /\ run'[p].placed[l].id = i
  <2>1. CASE i \in OrderIds
    <3>1. PICK l \in Legs : run[p].placed[l] # None /\ run[p].placed[l].id = i
      BY <1>1, <1>6, <2>1 DEF Based
    <3> QED
      BY <3>1
  <2>2. CASE i \notin OrderIds
    BY <1>6, <2>2
  <2> QED
    BY <2>1, <2>2
<1> QED
  BY <1>3, <1>4, <1>5, <1>6 DEF Based, View, Ended, Executed

\* A leg whose order has ended stays as it is.
LEMMA SentStays ==
    ASSUME OrdersKept, NEW p \in Procs, NEW l, SentLeg(p, l), run'[p].placed[l] = run[p].placed[l],
           run'[p].key = run[p].key,
           ~(run[p].pc \in {"journal", "settle"} /\ l = run[p].leg),
           ~(run'[p].pc \in {"journal", "settle"} /\ l = run'[p].leg)
    PROVE  SentLeg(p, l)'
BY DEF SentLeg, OrdersKept

\* An attempt that stands still keeps what it knows while the broker executes an order
\* and leases end.
LEMMA CalmStays ==
    ASSUME TypeOK, CalmBooks, OrdersKept, OrderIds' = OrderIds, RowsKept, Closed' = Closed, Pending' <=> Pending,
           NEW p \in Procs, Attempt(p), CalmAttempt(p), run'[p] = run[p], run[p].key \in Slots
    PROVE  CalmAttempt(p)'
<1>1. run[p].pc \in Looked => OpenOrders = {}
  <2>1. run[p].pc \in Looked => \A l \in Legs : Quiet(l)
    BY DEF Attempt
  <2>2. \A i \in OrderIds : orders[i].tag[2] \in Legs
    <3>1. \A i \in OrderIds : orders[i].tag \in Tags
      BY OrdersType DEF Order
    <3> QED
      BY <3>1 DEF Tags
  <2> QED
    BY <2>1, <2>2 DEF Quiet, OpenOrders
<1>2. OpenOrders = {} => snapshot' = snapshot /\ OpenOrders' = {}
  BY SnapshotStays
<1>3. runs[run[p].key].status = "in_progress" => runs'[run[p].key].status = "in_progress"
  BY DEF RowsKept
<1>4. Based(p) => Based(p)'
  BY BasedStays
<1>5. ASSUME NEW l \in Legs, SentLeg(p, l) PROVE SentLeg(p, l)'
  BY <1>5 DEF SentLeg, OrdersKept
<1>6. FinalView(p)' = FinalView(p)
  BY DEF FinalView
<1> QED
  BY <1>1, <1>2, <1>3, <1>4, <1>5, <1>6 DEF CalmAttempt, Looked

\* What stays of an attempt's local state in every step but the reconciliations.
SameBase(p) ==
    /\ run'[p].key = run[p].key /\ run'[p].post = run[p].post
    /\ run'[p].base = run[p].base /\ run'[p].applied = run[p].applied

LEMMA GotoBase ==
    ASSUME TypeOK, NEW p \in Procs, NEW pc, Goto(p, pc)
    PROVE  SameBase(p)
<1>1. run[p] \in Local /\ run'[p] = [run[p] EXCEPT !.pc = pc]
  BY DEF TypeOK, Goto
<1> QED
  BY <1>1 DEF Local, SameBase

LEMMA StopBase ==
    ASSUME TypeOK, NEW p \in Procs, NEW kind, Stop(p, kind)
    PROVE  SameBase(p)
<1>1. run[p] \in Local /\ run'[p] = [run[p] EXCEPT !.pc = "finish", !.kind = kind]
  BY DEF TypeOK, Stop
<1> QED
  BY <1>1 DEF Local, SameBase

LEMMA PlacedBase ==
    ASSUME TypeOK, NEW p \in Procs, NEW placed, NEW pc,
           Become(p, [run[p] EXCEPT !.placed[run[p].leg] = placed, !.pc = pc])
    PROVE  SameBase(p)
<1>1. run[p] \in Local
  BY DEF TypeOK
<1>2. run'[p] = [run[p] EXCEPT !.placed = [run[p].placed EXCEPT ![run[p].leg] = placed], !.pc = pc]
  BY <1>1 DEF TypeOK, Become, Local
<1>3. PICK q : q = [run[p].placed EXCEPT ![run[p].leg] = placed]
  OBVIOUS
<1>4. run'[p] = [run[p] EXCEPT !.placed = q, !.pc = pc]
  BY <1>2, <1>3
<1> QED
  BY <1>1, <1>4 DEF Local, SameBase

LEMMA EndLegBase ==
    ASSUME TypeOK, NEW p \in Procs, NEW placed, EndLeg(p, placed)
    PROVE  SameBase(p)
BY PlacedBase DEF EndLeg

LEMMA FollowBase ==
    ASSUME TypeOK, NEW p \in Procs, NEW outcome, NEW id, NEW pc, Follow(p, outcome, id, pc)
    PROVE  SameBase(p)
BY PlacedBase DEF Follow

\* The steps of these worlds, up to the plan.
LEMMA CalmStart ==
    ASSUME TypeOK, Calm, CalmBooks, NEW p \in Procs
    PROVE  /\ TryLock(p) => /\ run'[p].pc = "begin" /\ run'[p].pre = None /\ run'[p].post = None
                            /\ \A l \in Legs : run'[p].placed[l] = None
           /\ Gate(p) => /\ SameBase(p) /\ run'[p].placed = run[p].placed
                         /\ \/ Pending /\ run'[p].pc = "read"
                            \/ ~Pending /\ run'[p].pc = "finish" /\ run'[p].pre = run[p].pre
           /\ ReadAccount(p) => /\ SameBase(p) /\ run'[p].placed = run[p].placed
                                /\ run'[p].pre = snapshot
                                /\ run'[p].pc = IF OpenOrders # {} THEN "cleanup" ELSE "recon_pre"
           /\ Reread(p) => /\ SameBase(p) /\ run'[p].placed = run[p].placed
                           /\ run'[p].pre = snapshot /\ run'[p].pc = "recon_pre"
<1>0. run[p] \in Local /\ run \in [Procs -> Local]
  BY DEF TypeOK
<1>1. ASSUME TryLock(p)
      PROVE  /\ run'[p].pc = "begin" /\ run'[p].pre = None /\ run'[p].post = None
             /\ \A l \in Legs : run'[p].placed[l] = None
  <2>1. run'[p] = [Idle EXCEPT !.pc = "begin", !.key = slot]
    BY <1>0, <1>1 DEF TryLock, Become
  <2> QED
    BY <2>1 DEF Idle
<1>2. ASSUME Gate(p)
      PROVE  /\ SameBase(p) /\ run'[p].placed = run[p].placed
             /\ \/ Pending /\ run'[p].pc = "read"
                \/ ~Pending /\ run'[p].pc = "finish" /\ run'[p].pre = run[p].pre
  <2>1. ~acct.halted /\ ~Fault("refuse") /\ ~FailClosed(p) /\ ~Fault("down")
    BY CalmFaults DEF CalmBooks
  <2>2. CASE Become(p, [run[p] EXCEPT !.pc = "read", !.planned = Pending]) /\ Pending
    <3>1. PICK b : b = Pending
      OBVIOUS
    <3>2. run'[p] = [run[p] EXCEPT !.pc = "read", !.planned = b]
      BY <1>0, <2>2, <3>1 DEF Become
    <3>3. SameBase(p) /\ run'[p].placed = run[p].placed /\ run'[p].pc = "read"
      BY <1>0, <3>2 DEF Local, SameBase
    <3> QED
      BY <2>2, <3>3
  <2>3. CASE Stop(p, "Completed") /\ ~Pending
    BY <2>3, StopMoves, StopBase
  <2> QED
    BY <1>2, <2>1, <2>2, <2>3 DEF Gate
<1>3. ASSUME ReadAccount(p)
      PROVE  /\ SameBase(p) /\ run'[p].placed = run[p].placed /\ run'[p].pre = snapshot
             /\ run'[p].pc = IF OpenOrders # {} THEN "cleanup" ELSE "recon_pre"
  <2>1. PICK s, v, pc : s = snapshot /\ v = acct.version /\ pc = IF OpenOrders # {} THEN "cleanup" ELSE "recon_pre"
    OBVIOUS
  <2>2. ~acct.halted /\ ~FailClosed(p)
    BY CalmFaults DEF CalmBooks
  <2>3. run'[p] = [run[p] EXCEPT !.pre = s, !.version = v, !.pc = pc, !.kind = "Completed"]
    BY <1>0, <1>3, <2>1, <2>2 DEF ReadAccount, Become
  <2> QED
    BY <1>0, <2>1, <2>3 DEF Local, SameBase
<1>4. ASSUME Reread(p)
      PROVE  /\ SameBase(p) /\ run'[p].placed = run[p].placed
             /\ run'[p].pre = snapshot /\ run'[p].pc = "recon_pre"
  <2>1. PICK s : s = snapshot
    OBVIOUS
  <2>2. run'[p] = [run[p] EXCEPT !.pc = "recon_pre", !.pre = s]
    BY <1>0, <1>4, <2>1, CalmFaults DEF Reread, Become
  <2> QED
    BY <1>0, <2>1, <2>2 DEF Local, SameBase
<1> QED
  BY <1>1, <1>2, <1>3, <1>4

\* The steps from the reconciliation to the plan; nothing is halted.
LEMMA CalmPlan ==
    ASSUME TypeOK, FlowInv, JournalCoversOrders, Calm, CalmBooks, NEW p \in Procs, CalmAttempt(p)
    PROVE  /\ ReconPre(p) => /\ acct' = acct /\ run'[p].pc = "risk" /\ run'[p].key = run[p].key
                             /\ run'[p].pre = run[p].pre /\ run'[p].post = run[p].post
                             /\ run'[p].placed = run[p].placed
                             /\ run'[p].applied = in_flight_orders /\ run'[p].base = snapshot
           /\ Risk(p) => /\ ~acct'.halted /\ SameBase(p) /\ run'[p].pre = run[p].pre
                         /\ run'[p].placed = run[p].placed /\ run'[p].pc \in {"plan", "finish"}
           /\ Plan(p) => /\ SameBase(p) /\ run'[p].placed = run[p].placed
                         /\ run'[p].leg = "Sell" /\ run'[p].pc \in {"look_up", "replan", "last_look"}
           /\ Replan(p) => /\ SameBase(p) /\ run'[p].placed = run[p].placed
                           /\ run'[p].leg = "Buy" /\ run'[p].pc \in {"look_up", "last_look"}
<1>0. run[p] \in Local /\ run \in [Procs -> Local] /\ acct \in [halted : BOOLEAN, version : Nat] /\ ~acct.halted
  BY DEF TypeOK, CalmBooks
<1>1. ASSUME ReconPre(p)
      PROVE  /\ acct' = acct /\ run'[p].pc = "risk" /\ run'[p].key = run[p].key
             /\ run'[p].pre = run[p].pre /\ run'[p].post = run[p].post /\ run'[p].placed = run[p].placed
             /\ run'[p].applied = in_flight_orders /\ run'[p].base = snapshot
  <2>1. run[p].pc = "recon_pre" /\ run[p].pre = snapshot
    BY <1>1 DEF ReconPre, CalmAttempt, Looked
  <2>2. PICK a, b : a = in_flight_orders /\ b = IF pre_baseline = None THEN run[p].pre ELSE pre_baseline
    OBVIOUS
  <2>3. Reconciles(run[p].pre, pre_baseline, in_flight_orders) /\ b = snapshot
    BY <2>1, <2>2, PreBaseline
  <2>4. acct' = acct /\ Become(p, [[run[p] EXCEPT !.applied = a, !.base = b] EXCEPT !.pc = "risk"])
    BY <1>1, <2>2, <2>3, CalmFaults DEF ReconPre
  <2>5. run'[p] = [[run[p] EXCEPT !.applied = a, !.base = b] EXCEPT !.pc = "risk"]
    BY <1>0, <2>4 DEF Become
  <2> QED
    BY <1>0, <2>2, <2>3, <2>4, <2>5 DEF Local
<1>2. ASSUME Risk(p)
      PROVE  /\ ~acct'.halted /\ SameBase(p) /\ run'[p].pre = run[p].pre
             /\ run'[p].placed = run[p].placed /\ run'[p].pc \in {"plan", "finish"}
  <2>1. CASE Saves(p)
    <3>1. PICK v : v = run[p].version + 1
      OBVIOUS
    <3>2. run'[p] = [run[p] EXCEPT !.pc = "plan", !.version = v]
      BY <1>0, <1>2, <2>1, <3>1, CalmFaults DEF Risk, Become
    <3>3. acct' = [acct EXCEPT !.version = @ + 1]
      BY <1>2, <2>1, CalmFaults DEF Risk
    <3> QED
      BY <1>0, <3>2, <3>3 DEF Local, SameBase
  <2>2. CASE ~Saves(p)
    <3>1. Stop(p, "FailedClosed") /\ acct' = acct
      BY <1>2, <2>2, CalmFaults DEF Risk
    <3> QED
      BY <1>0, <3>1, StopMoves, StopBase
  <2> QED
    BY <2>1, <2>2
<1>3. ASSUME Plan(p)
      PROVE  /\ SameBase(p) /\ run'[p].placed = run[p].placed
             /\ run'[p].leg = "Sell" /\ run'[p].pc \in {"look_up", "replan", "last_look"}
  <2> DEFINE legs == IF ~run[p].planned THEN {}
                     ELSE {l \in Legs : IF l = "Sell" THEN run[p].pre.sold = 0 ELSE run[p].pre.bought = 0}
             first == IF "Sell" \in legs THEN "look_up" ELSE IF "Buy" \in legs THEN "replan" ELSE "last_look"
  <2>1. PICK ls, pc : ls = legs /\ pc = first
    OBVIOUS
  <2>2. pc \in {"look_up", "replan", "last_look"}
    BY <2>1
  <2>3. Become(p, [run[p] EXCEPT !.plan = ls, !.leg = "Sell", !.pc = pc])
    BY <1>3, <2>1, CalmFaults DEF Plan
  <2>4. run'[p] = [run[p] EXCEPT !.plan = ls, !.leg = "Sell", !.pc = pc]
    BY <1>0, <2>3 DEF Become
  <2> HIDE DEF legs, first
  <2> QED
    BY <1>0, <2>2, <2>4 DEF Local, SameBase
<1>4. ASSUME Replan(p)
      PROVE  /\ SameBase(p) /\ run'[p].placed = run[p].placed
             /\ run'[p].leg = "Buy" /\ run'[p].pc \in {"look_up", "last_look"}
  <2>1. PICK pc \in {"look_up", "last_look"} : Become(p, [run[p] EXCEPT !.leg = "Buy", !.pc = pc])
    BY <1>4, CalmFaults DEF Replan
  <2>2. run'[p] = [run[p] EXCEPT !.leg = "Buy", !.pc = pc]
    BY <1>0, <2>1 DEF Become
  <2> QED
    BY <1>0, <2>1, <2>2 DEF Local, SameBase
<1> QED
  BY <1>1, <1>2, <1>3, <1>4

\* The last look-up has nothing to look up, and the reconciliation succeeds.
LEMMA CalmEnd ==
    ASSUME TypeOK, FlowInv, Calm, CalmBooks, NEW p \in Procs, CalmAttempt(p)
    PROVE  /\ LastLookUp(p) => /\ SameBase(p) /\ run'[p].pc = "recon_post"
                               /\ \A l \in Legs : run'[p].placed[l] = run[p].placed[l]
           /\ ReconPost(p) => acct' = acct /\ run'[p].pc = "finish" /\ run'[p].key = run[p].key
                              /\ run'[p].post = snapshot /\ OpenOrders = {}
<1>0. run[p] \in Local /\ run \in [Procs -> Local]
  BY DEF TypeOK
<1>1. ASSUME LastLookUp(p)
      PROVE  /\ SameBase(p) /\ run'[p].pc = "recon_post" /\ \A l \in Legs : run'[p].placed[l] = run[p].placed[l]
  <2> DEFINE q == [l \in Legs |-> IF l \in PlacedLegs(p) /\ run[p].placed[l].outcome = "UnknownNotFound"
                         THEN [run[p].placed[l] EXCEPT !.late = FilledByTag(<<run[p].key, l>>)] ELSE run[p].placed[l]]
  <2>1. run'[p] = [run[p] EXCEPT !.pc = "recon_post", !.placed = q]
    BY <1>0, <1>1, CalmFaults DEF LastLookUp, Local
  <2>2. PICK r : r = q
    OBVIOUS
  <2>3. run'[p] = [run[p] EXCEPT !.pc = "recon_post", !.placed = r]
    BY <2>1, <2>2
  <2>4. SameBase(p) /\ run'[p].pc = "recon_post" /\ run'[p].placed = r
    BY <1>0, <2>3 DEF Local, SameBase
  <2>5. ASSUME NEW l \in Legs PROVE r[l] = run[p].placed[l]
    <3>1. l \in PlacedLegs(p) => run[p].placed[l].outcome # "UnknownNotFound"
      BY <1>1 DEF CalmAttempt, Booked, SentLeg, LastLookUp, PlacedLegs
    <3> QED
      BY <2>2, <3>1
  <2> QED
    BY <2>4, <2>5
<1>2. ASSUME ReconPost(p)
      PROVE  /\ acct' = acct /\ run'[p].pc = "finish" /\ run'[p].key = run[p].key
             /\ run'[p].post = snapshot /\ OpenOrders = {}
  <2>1. /\ ~Unsettled(p) /\ ~Anomalous(p) /\ OpenOrders = {}
        /\ Reconciles(snapshot, after_orders(run[p].base, NewReports(p)), UNION {Reports(p, l) : l \in PlacedLegs(p)})
    BY <1>2, PostReports DEF ReconPost
  <2>2. PICK s, c : s = snapshot /\ c = AllCarried(p)
    OBVIOUS
  <2>3. acct' = acct /\ Become(p, [[run[p] EXCEPT !.post = s] EXCEPT !.pc = "finish", !.carried = c])
    BY <1>2, <2>1, <2>2, CalmFaults DEF ReconPost
  <2>4. run'[p] = [[run[p] EXCEPT !.post = s] EXCEPT !.pc = "finish", !.carried = c]
    BY <1>0, <2>3 DEF Become
  <2> QED
    BY <1>0, <2>1, <2>2, <2>3, <2>4 DEF Local
<1> QED
  BY <1>1, <1>2

\* A step of an attempt that writes no record keeps the books of the account.
LEMMA ProcBooks ==
    ASSUME TypeOK, Following, FlowInv, JournalCoversOrders, Calm, CalmBooks, [Next]_vars,
           NEW p \in Procs, CalmAttempt(p), Step(p) \/ Crash(p), ~Finish(p)
    PROVE  CalmBooks' /\ OrdersKept /\ RowsKept /\ Closed' = Closed /\ View(Closed)' = View(Closed) /\ (Pending' <=> Pending)
<1>0. OneAtATime /\ OncePerTag /\ OncePerLeg /\ Attempts /\ ~world.overrun
  BY DEF Calm, FlowInv
<1>1. \A q \in Procs : q # p => ~Finish(q) /\ ~Place(q)
  BY <1>0, Alone DEF Finish, Place
<1>2. OrdersKept /\ RowsKept /\ world' = world /\ slot' = slot
  BY <1>0, <1>1, BrokerStep, RowsStep, LockMoves
<1>3. transit' = {}
  <2>1. CASE Place(p)
    BY <2>1, CalmFaults DEF Place, CalmBooks
  <2>2. CASE ~Place(p)
    BY <1>1, <2>2, EmptyStays DEF CalmBooks
  <2> QED
    BY <2>1, <2>2
<1>4. ~acct'.halted
  <2>1. ~acct.halted
    BY DEF CalmBooks
  <2>2. CASE ReconPre(p) \/ Risk(p)
    BY <2>1, <2>2, CalmPlan
  <2>3. CASE ReconPost(p)
    BY <2>1, <2>3, CalmEnd
  <2>4. CASE ~ReconPre(p) /\ ~Risk(p) /\ ~ReconPost(p)
    <3>1. acct' = acct
      BY <2>4 DEF Step, Crash, TryLock, Begin, BeginFails, Gate, ReadAccount, Cleanup, Reread, Plan, LookUp,
                JournalIntent, JournalId, Place, LookAgain, Settle, Replan, LastLookUp, Finish, Unlock
    <3> QED
      BY <2>1, <3>1
  <2> QED
    BY <2>2, <2>3, <2>4
<1>5. ASSUME NEW i \in OrderIds' \ OrderIds
      PROVE  /\ orders'[i].tag[1] \in Slots /\ runs[orders'[i].tag[1]].status = "in_progress" /\ Pending
             /\ orders'[i].tag[2] = "Buy" => Done("Sell")
  <2>1. Place(p) /\ orders'[i].tag = tag(p)
    BY <1>1, <1>5, BrokerStep DEF CalmBooks
  <2>2. orders'[i].tag[1] = run[p].key /\ orders'[i].tag[2] = run[p].leg
    BY <2>1 DEF tag
  <2>3. run[p].key \in Slots /\ runs[run[p].key].status = "in_progress" /\ Pending
    BY <2>1, LegType DEF Place, CalmAttempt
  <2>4. run[p].leg = "Buy" => Done("Sell")
    BY <1>0, <2>1, PlaceReady
  <2> QED
    BY <2>2, <2>3, <2>4
<1> QED
  BY <1>2, <1>3, <1>4, <1>5, BooksStay

\* Nothing is open once an attempt has looked.
LEMMA LookedEnded ==
    ASSUME TypeOK, NEW p \in Procs, Attempt(p), run[p].pc \in Looked
    PROVE  OpenOrders = {}
<1>1. \A l \in Legs : Quiet(l)
  BY DEF Attempt
<1>2. \A i \in OrderIds : orders[i].tag[2] \in Legs
  <2>1. \A i \in OrderIds : orders[i].tag \in Tags
    BY OrdersType DEF Order
  <2> QED
    BY <2>1 DEF Tags
<1> QED
  BY <1>1, <1>2 DEF Quiet, OpenOrders

\* The steps up to the reconciliation keep what an attempt knows.
LEMMA CalmEarlyStep ==
    ASSUME TypeOK, Following, FlowInv, JournalCoversOrders, Calm, CalmBooks, [Next]_vars,
           NEW p \in Procs, CalmAttempt(p),
           \/ TryLock(p) \/ Begin(p) \/ BeginFails(p) \/ Gate(p) \/ ReadAccount(p) \/ Cleanup(p) \/ Reread(p)
           \/ Unlock(p) \/ Crash(p)
    PROVE  CalmAttempt(p)'
<1>0. /\ CalmBooks' /\ OrdersKept /\ RowsKept /\ Closed' = Closed /\ (Pending' <=> Pending)
      /\ Attempt(p) /\ run[p].key \in Slots
  <2>1. ~Finish(p)
    <3>1. Finish(p) => run[p].pc = "finish" /\ run'[p].pc = "unlock"
      BY GotoMoves DEF Finish
    <3>2. CASE Crash(p)
      BY <3>1, <3>2, IdleMoves
    <3>3. CASE ~Crash(p)
      <4>1. run[p].pc \in {"idle", "begin", "gate", "read", "cleanup", "reread", "unlock"}
        BY <3>3 DEF TryLock, Begin, BeginFails, Gate, ReadAccount, Cleanup, Reread, Unlock
      <4> QED
        BY <3>1, <4>1
    <3> QED
      BY <3>2, <3>3
  <2>2. Step(p) \/ Crash(p)
    BY DEF Step
  <2>3. Attempt(p) /\ run[p].key \in Slots
    BY LegType DEF Calm, FlowInv, Attempts
  <2> QED
    BY <2>1, <2>2, <2>3, ProcBooks
<1>1. CASE Unlock(p) \/ Crash(p)
  <2>1. run'[p].pc = "idle"
    BY <1>1, IdleMoves
  <2> QED
    BY <2>1 DEF CalmAttempt, Early, Looked, Sending, Trading, Booked
<1>2. CASE TryLock(p)
  BY <1>2, CalmStart DEF CalmAttempt, Early, Looked, Sending, Trading, Booked
<1>3. CASE Begin(p)
  <2>1. run[p].pc = "begin" /\ runs \in [Slots -> RunRow]
    BY <1>3 DEF Begin, TypeOK
  <2>2. CASE Goto(p, "unlock")
    <3>1. run'[p].pc = "unlock"
      BY <2>2, GotoMoves
    <3> QED
      BY <3>1 DEF CalmAttempt, Early, Looked, Sending, Trading, Booked
  <2>3. CASE Goto(p, "gate") /\ runs' = [runs EXCEPT ![run[p].key].status = "in_progress", ![run[p].key].attempt = @ + 1]
    <3>1. runs'[run[p].key].status = "in_progress"
      BY <1>0, <2>1, <2>3 DEF RunRow
    <3>2. /\ run'[p].pc = "gate" /\ run'[p].key = run[p].key /\ run'[p].pre = run[p].pre
          /\ run'[p].placed = run[p].placed /\ run'[p].post = run[p].post
      BY <2>3, GotoMoves, GotoBase DEF SameBase
    <3>3. run[p].pre = None /\ run[p].post = None /\ \A l \in Legs : run[p].placed[l] = None
      BY <2>1 DEF CalmAttempt
    <3> QED
      BY <3>1, <3>2, <3>3 DEF CalmAttempt, Early, Looked, Sending, Trading, Booked
  <2> QED
    BY <1>3, <2>2, <2>3 DEF Begin
<1>4. CASE BeginFails(p)
  BY <1>4, CalmFaults DEF BeginFails
<1>5. CASE Gate(p)
  <2>1. /\ run[p].pc = "gate" /\ runs' = runs /\ OrderIds' = OrderIds
        /\ run[p].pre = None /\ run[p].post = None /\ \A l \in Legs : run[p].placed[l] = None
        /\ runs[run[p].key].status = "in_progress"
    BY <1>5 DEF Gate, CalmAttempt, Early, store, broker, OrderIds
  <2>2. SameBase(p) /\ run'[p].placed = run[p].placed
    BY <1>5, CalmStart
  <2>3. CASE Pending /\ run'[p].pc = "read"
    BY <1>0, <2>1, <2>2, <2>3 DEF SameBase, CalmAttempt, Early, Looked, Sending, Trading, Booked
  <2>4. CASE ~Pending /\ run'[p].pc = "finish" /\ run'[p].pre = run[p].pre
    <3>1. Closed = OrderIds
      BY <2>4 DEF CalmBooks
    <3>2. FinalView(p)' = None
      BY <2>1, <2>2, <2>4 DEF FinalView, SameBase
    <3> QED
      BY <1>0, <2>1, <2>2, <2>4, <3>1, <3>2 DEF SameBase, CalmAttempt, Early, Looked, Sending, Trading, Booked
  <2> QED
    BY <1>5, <2>3, <2>4, CalmStart
<1>6. CASE ReadAccount(p)
  <2>1. /\ run[p].pc = "read" /\ runs' = runs /\ orders' = orders /\ Pending
        /\ run[p].post = None /\ \A l \in Legs : run[p].placed[l] = None
        /\ runs[run[p].key].status = "in_progress"
    BY <1>6 DEF ReadAccount, CalmAttempt, Early, store, broker
  <2>2. /\ SameBase(p) /\ run'[p].placed = run[p].placed /\ run'[p].pre = snapshot
        /\ run'[p].pc \in {"cleanup", "recon_pre"}
    BY <1>6, CalmStart
  <2>3. snapshot' = snapshot
    BY <2>1 DEF snapshot, Executed, OrderIds
  <2> QED
    BY <1>0, <2>1, <2>2, <2>3 DEF SameBase, CalmAttempt, Early, Looked, Sending, Trading, Booked
<1>7. CASE Cleanup(p)
  <2>1. /\ run[p].pc = "cleanup" /\ runs' = runs /\ Pending
        /\ run[p].post = None /\ \A l \in Legs : run[p].placed[l] = None
        /\ runs[run[p].key].status = "in_progress" /\ Goto(p, "reread")
    BY <1>7, CalmFaults DEF Cleanup, CalmAttempt, Early, store
  <2>2. SameBase(p) /\ run'[p].placed = run[p].placed /\ run'[p].pc = "reread"
    BY <2>1, GotoMoves, GotoBase
  <2> QED
    BY <1>0, <2>1, <2>2 DEF SameBase, CalmAttempt, Early, Looked, Sending, Trading, Booked
<1>8. CASE Reread(p)
  <2>1. /\ run[p].pc = "reread" /\ runs' = runs /\ orders' = orders /\ Pending
        /\ run[p].post = None /\ \A l \in Legs : run[p].placed[l] = None
        /\ runs[run[p].key].status = "in_progress"
    BY <1>8 DEF Reread, CalmAttempt, Looked, store, broker
  <2>2. /\ SameBase(p) /\ run'[p].placed = run[p].placed /\ run'[p].pre = snapshot /\ run'[p].pc = "recon_pre"
    BY <1>8, CalmStart
  <2>3. snapshot' = snapshot
    BY <2>1 DEF snapshot, Executed, OrderIds
  <2> QED
    BY <1>0, <2>1, <2>2, <2>3 DEF SameBase, CalmAttempt, Early, Looked, Sending, Trading, Booked
<1> QED
  BY <1>1, <1>2, <1>3, <1>4, <1>5, <1>6, <1>7, <1>8

\* The steps from the reconciliation to the plan keep what an attempt knows.
LEMMA CalmPlanStep ==
    ASSUME TypeOK, Following, FlowInv, JournalCoversOrders, Calm, CalmBooks, [Next]_vars,
           NEW p \in Procs, CalmAttempt(p), ReconPre(p) \/ Risk(p) \/ Plan(p) \/ Replan(p)
    PROVE  CalmAttempt(p)'
<1>0. /\ CalmBooks' /\ OrdersKept /\ RowsKept /\ Closed' = Closed /\ View(Closed)' = View(Closed) /\ (Pending' <=> Pending)
      /\ Attempt(p) /\ run[p].key \in Slots /\ run[p].leg \in {"Sell", "Buy"}
  <2>1. ~Finish(p)
    BY DEF ReconPre, Risk, Plan, Replan, Finish
  <2>2. Step(p) \/ Crash(p)
    BY DEF Step
  <2>3. Attempt(p) /\ run[p].key \in Slots /\ run[p].leg \in {"Sell", "Buy"}
    BY LegType DEF Calm, FlowInv, Attempts
  <2> QED
    BY <2>1, <2>2, <2>3, ProcBooks
<1>1. /\ runs' = runs /\ orders' = orders /\ OrderIds' = OrderIds /\ snapshot' = snapshot /\ OpenOrders' = OpenOrders
  <2>1. runs' = runs /\ orders' = orders
    BY DEF ReconPre, Risk, Plan, Replan, store, broker
  <2> QED
    BY <2>1 DEF snapshot, Executed, OrderIds, OpenOrders
<1>2. /\ run[p].pc \in {"recon_pre", "risk", "plan", "replan"}
      /\ runs[run[p].key].status = "in_progress" /\ Pending /\ run[p].post = None
  BY DEF ReconPre, Risk, Plan, Replan, CalmAttempt
<1>3. ASSUME SameBase(p), run'[p].placed = run[p].placed, Based(p) PROVE Based(p)'
  BY <1>0, <1>1, <1>3, BasedStays DEF SameBase
<1>4. ASSUME SameBase(p), run'[p].placed = run[p].placed, run'[p].pc \notin {"journal", "settle"},
             run[p].pc \in Booked, NEW l \in Legs, run'[p].placed[l] # None
      PROVE  SentLeg(p, l)'
  <2>1. SentLeg(p, l)
    BY <1>4 DEF CalmAttempt
  <2> QED
    BY <1>0, <1>2, <1>4, <2>1, SentStays DEF SameBase
<1>5. CASE ReconPre(p)
  <2>1. run[p].pc = "recon_pre" /\ run[p].pre = snapshot /\ \A l \in Legs : run[p].placed[l] = None
    BY <1>5 DEF ReconPre, CalmAttempt, Looked
  <2>2. /\ run'[p].pc = "risk" /\ run'[p].key = run[p].key
        /\ run'[p].pre = run[p].pre /\ run'[p].post = run[p].post /\ run'[p].placed = run[p].placed
        /\ run'[p].applied = in_flight_orders /\ run'[p].base = snapshot
    BY <1>5, CalmPlan
  <2>3. in_flight_orders = OrderIds \ Closed /\ snapshot = View(Closed \cup in_flight_orders)
    BY InFlight, PreBaseline
  <2>4. OpenOrders = {}
    BY <1>0, <2>1, LookedEnded DEF Looked
  <2>5. Based(p)'
    <3>1. PICK S, T : S = Closed \cup in_flight_orders /\ T = in_flight_orders
      OBVIOUS
    <3>2. (Closed \cup run[p].applied)' = S /\ run'[p].applied = T /\ run'[p].base = View(S)
      BY <1>0, <2>2, <2>3, <3>1
    <3>3. View(S)' = View(S)
      BY <1>1 DEF View, Executed
    <3>4. T \subseteq OrderIds /\ S = OrderIds
      BY <2>3, <3>1 DEF Closed
    <3>5. Ended(T)'
      BY <1>1, <2>4, <3>4 DEF Ended, OpenOrders
    <3> QED
      BY <1>1, <3>2, <3>3, <3>4, <3>5 DEF Based, View, Ended, Executed
  <2> QED
    BY <1>0, <1>1, <1>2, <2>1, <2>2, <2>5 DEF CalmAttempt, Early, Looked, Sending, Trading
<1>6. CASE Risk(p)
  <2>1. /\ run[p].pc = "risk" /\ run[p].pre = snapshot /\ Based(p)
        /\ \A l \in Legs : run[p].placed[l] = None
    BY <1>6 DEF Risk, CalmAttempt, Looked, Booked
  <2>2. /\ SameBase(p) /\ run'[p].pre = run[p].pre
        /\ run'[p].placed = run[p].placed /\ run'[p].pc \in {"plan", "finish"}
    BY <1>6, CalmPlan
  <2>3. OpenOrders = {}
    BY <1>0, <2>1, LookedEnded DEF Looked
  <2>4. Based(p)'
    BY <1>3, <2>1, <2>2
  <2>5. CASE run'[p].pc = "plan"
    BY <1>0, <1>1, <1>2, <2>1, <2>2, <2>4, <2>5 DEF SameBase, CalmAttempt, Early, Looked, Sending, Trading
  <2>6. CASE run'[p].pc = "finish"
    <3>1. FinalView(p)' = snapshot
      BY <1>2, <2>1, <2>2 DEF FinalView, SameBase
    <3>2. snapshot # None
      BY ViewType, NoneAssumption
    <3> QED
      BY <1>0, <1>1, <1>2, <2>2, <2>3, <2>6, <3>1, <3>2 DEF SameBase, CalmAttempt, Early, Looked, Sending, Trading, Booked
  <2> QED
    BY <2>2, <2>5, <2>6
<1>7. CASE Plan(p)
  <2>1. run[p].pc = "plan" /\ Based(p) /\ \A l \in Legs : run[p].placed[l] = None
    BY <1>7 DEF Plan, CalmAttempt, Looked, Booked
  <2>2. /\ SameBase(p) /\ run'[p].placed = run[p].placed
        /\ run'[p].leg = "Sell" /\ run'[p].pc \in {"look_up", "replan", "last_look"}
    BY <1>7, CalmPlan
  <2>3. Based(p)' /\ "Sell" \in Legs /\ "Buy" \in Legs
    BY <1>3, <2>1, <2>2 DEF Legs
  <2> QED
    BY <1>0, <1>1, <1>2, <2>1, <2>2, <2>3 DEF SameBase, CalmAttempt, Early, Looked
<1>8. CASE Replan(p)
  <2>1. run[p].pc = "replan" /\ Based(p) /\ run[p].leg = "Sell" /\ run[p].placed["Buy"] = None
    BY <1>0, <1>8 DEF Replan, CalmAttempt, Booked, Trading, Attempt
  <2>2. /\ SameBase(p) /\ run'[p].placed = run[p].placed
        /\ run'[p].leg = "Buy" /\ run'[p].pc \in {"look_up", "last_look"}
    BY <1>8, CalmPlan
  <2>3. Based(p)'
    BY <1>3, <2>1, <2>2
  <2>4. \A l \in Legs : run'[p].placed[l] # None => SentLeg(p, l)'
    BY <1>4, <2>1, <2>2 DEF Booked
  <2> QED
    BY <1>0, <1>1, <1>2, <2>1, <2>2, <2>3, <2>4 DEF SameBase, CalmAttempt, Early, Looked
<1> QED
  BY <1>5, <1>6, <1>7, <1>8

\* The steps of an order, and the reconciliation, keep what an attempt knows.
LEMMA CalmTradeStep ==
    ASSUME TypeOK, Following, FlowInv, JournalCoversOrders, Calm, CalmBooks, [Next]_vars,
           NEW p \in Procs, CalmAttempt(p),
           LookUp(p) \/ JournalIntent(p) \/ Place(p) \/ JournalId(p) \/ Settle(p) \/ LastLookUp(p) \/ ReconPost(p)
    PROVE  CalmAttempt(p)'
<1>0. /\ CalmBooks' /\ OrdersKept /\ RowsKept /\ Closed' = Closed /\ View(Closed)' = View(Closed) /\ (Pending' <=> Pending)
      /\ run[p].key \in Slots /\ run[p].leg \in {"Sell", "Buy"} /\ run[p].leg \in Legs /\ tag(p) = <<run[p].key, run[p].leg>>
  <2>1. ~Finish(p)
    BY DEF LookUp, JournalIntent, Place, JournalId, Settle, LastLookUp, ReconPost, Finish
  <2>2. Step(p) \/ Crash(p)
    BY DEF Step
  <2>3. run[p].key \in Slots /\ run[p].leg \in {"Sell", "Buy"} /\ run[p].leg \in Legs /\ tag(p) = <<run[p].key, run[p].leg>>
    BY LegType DEF Legs, tag
  <2> QED
    BY <2>1, <2>2, <2>3, ProcBooks
<1>1. run[p].pc \in Sending \cup {"journal", "settle", "last_look", "recon_post"}
  BY DEF LookUp, JournalIntent, Place, JournalId, Settle, LastLookUp, ReconPost, Sending
<1>2. /\ runs'[run[p].key].status = "in_progress" /\ Pending' /\ run[p].post = None /\ Based(p)
      /\ \A l \in Legs : run[p].placed[l] # None => SentLeg(p, l)
  BY <1>0, <1>1 DEF CalmAttempt, RowsKept, Booked, Sending
<1>3. ASSUME SameBase(p), run'[p].pc \in Sending \cup {"journal", "settle", "replan", "last_look", "recon_post"},
             \A l \in Legs : run[p].placed[l] # None =>
                run'[p].placed[l] # None /\ run'[p].placed[l].id = run[p].placed[l].id,
             \A i \in OrderIds' \ OrderIds : \E l \in Legs : run'[p].placed[l] # None /\ run'[p].placed[l].id = i,
             run'[p].pc \in Sending => run'[p].placed[run'[p].leg] = None,
             run'[p].pc \in Trading /\ run'[p].leg = "Sell" => run'[p].placed["Buy"] = None,
             \A l \in Legs : run'[p].placed[l] # None => SentLeg(p, l)'
      PROVE  CalmAttempt(p)'
  <2>1. Based(p)'
    BY <1>0, <1>2, <1>3, BasedStays DEF SameBase
  <2>2. run'[p].pc \notin {"look_again", "idle", "begin", "unlock", "gate", "finish"} \cup Early \cup Looked
    BY <1>3 DEF Sending, Early, Looked
  <2> QED
    BY <1>2, <1>3, <2>1, <2>2 DEF CalmAttempt, SameBase
<1>4. ASSUME NEW pc, Goto(p, pc), pc \in Sending \/ (pc = "settle" /\ run[p].pc = "journal"), OrderIds' = OrderIds,
             run[p].pc \in Sending \/ run[p].pc = "journal", pc \in Sending => run[p].pc \in Sending
      PROVE  CalmAttempt(p)'
  <2>1. SameBase(p) /\ run'[p].pc = pc /\ run'[p].placed = run[p].placed /\ run'[p].leg = run[p].leg
    BY <1>4, GotoMoves, GotoBase
  <2>2. pc \in Sending => run[p].placed[run[p].leg] = None
    BY <1>4 DEF CalmAttempt
  <2>3. run[p].leg = "Sell" => run[p].placed["Buy"] = None
    BY <1>4 DEF CalmAttempt, Trading
  <2>4. ASSUME NEW l \in Legs, run[p].placed[l] # None PROVE SentLeg(p, l)'
    <3>1. SentLeg(p, l)
      BY <1>2, <2>4
    <3>2. CASE l = run[p].leg
      <4>1. pc = "settle" /\ run[p].pc = "journal"
        BY <1>4, <2>2, <2>4, <3>2
      <4> QED
        BY <1>0, <2>1, <3>1, <4>1 DEF SentLeg, OrdersKept, SameBase
    <3>3. CASE l # run[p].leg
      BY <1>0, <2>1, <3>1, <3>3, SentStays DEF SameBase
    <3> QED
      BY <3>2, <3>3
  <2> QED
    BY <1>3, <1>4, <2>1, <2>2, <2>3, <2>4
<1>5. ASSUME NEW outcome \in {"NotSent", "AdoptedExisting"}, NEW id \in Nat, id \in OrderIds', Follow(p, outcome, id, "journal"),
             orders'[id].tag = tag(p), run[p].pc \in Sending, OrderIds' \subseteq OrderIds \cup {id}
      PROVE  CalmAttempt(p)'
  <2>1. /\ SameBase(p) /\ run'[p].pc = "journal" /\ run'[p].leg = run[p].leg
        /\ run'[p].placed[run[p].leg] = LegPlaced(outcome, id)
        /\ \A l \in Legs : l # run[p].leg => run'[p].placed[l] = run[p].placed[l]
    BY <1>5, FollowMoves, FollowBase
  <2>2. run[p].placed[run[p].leg] = None /\ (run[p].leg = "Sell" => run[p].placed["Buy"] = None)
    BY <1>5 DEF CalmAttempt, Trading
  <2>3. /\ LegPlaced(outcome, id) # None /\ LegPlaced(outcome, id).id = id /\ ~LegPlaced(outcome, id).anomaly
        /\ LegPlaced(outcome, id).outcome = outcome
    <3>1. outcome \in Outcomes /\ id \in Nat
      BY <1>5 DEF Outcomes
    <3>2. LegPlaced(outcome, id) \in Placed
      BY <3>1, LegPlacedType DEF Optional
    <3> QED
      BY <3>2, NoneAssumption DEF LegPlaced
  <2>4. ASSUME NEW l \in Legs, run'[p].placed[l] # None PROVE SentLeg(p, l)'
    <3>1. CASE l = run[p].leg
      BY <1>0, <1>5, <2>1, <2>3, <3>1 DEF SentLeg, SameBase
    <3>2. CASE l # run[p].leg
      <4>1. SentLeg(p, l)
        BY <1>2, <2>1, <2>4, <3>2
      <4> QED
        BY <1>0, <2>1, <3>2, <4>1, SentStays DEF SameBase
    <3> QED
      BY <3>1, <3>2
  <2>5. \A l \in Legs : run[p].placed[l] # None =>
           run'[p].placed[l] # None /\ run'[p].placed[l].id = run[p].placed[l].id
    BY <2>1, <2>2
  <2>6. \A i \in OrderIds' \ OrderIds : \E l \in Legs : run'[p].placed[l] # None /\ run'[p].placed[l].id = i
    BY <1>0, <1>5, <2>1, <2>3
  <2>7. "Sell" \in Legs /\ "Buy" \in Legs /\ "journal" \notin Sending
    BY DEF Legs, Sending
  <2> QED
    BY <1>3, <2>1, <2>2, <2>4, <2>5, <2>6, <2>7
<1>6. CASE LookUp(p)
  <2>1. orders' = orders /\ OrderIds' = OrderIds /\ run[p].pc \in Sending /\ "intent" \in Sending
    BY <1>6 DEF LookUp, broker, OrderIds, Sending
  <2>2. CASE find_by_tag(tag(p)) = {}
    BY <1>4, <1>6, <2>1, <2>2, CalmFaults DEF LookUp
  <2>3. CASE find_by_tag(tag(p)) # {}
    <3>1. PICK id \in OrderIds : id = Min(find_by_tag(tag(p))) /\ orders[id].tag = tag(p)
      BY <2>3, FoundType
    <3>2. Follow(p, "AdoptedExisting", id, "journal")
      BY <1>6, <2>3, <3>1, CalmFaults DEF LookUp
    <3>3. id \in Nat /\ id \in OrderIds' /\ orders'[id].tag = tag(p)
      BY <2>1, <3>1, OrdersType
    <3> QED
      BY <1>5, <2>1, <3>1, <3>2, <3>3
  <2> QED
    BY <2>2, <2>3
<1>7. CASE JournalIntent(p)
  <2>1. OrderIds' = OrderIds /\ run[p].pc \in Sending /\ "place" \in Sending /\ Goto(p, "place")
    BY <1>7, CalmFaults DEF JournalIntent, broker, OrderIds, Sending
  <2> QED
    BY <1>4, <2>1
<1>8. CASE Place(p)
  <2>1. run[p].pc \in Sending /\ orders' = Append(orders, NewOrder(tag(p))) /\ Follow(p, "NotSent", Len(orders) + 1, "journal")
    BY <1>8, CalmFaults DEF Place, Sending
  <2>2. tag(p) \in Tags
    BY <1>0 DEF Tags
  <2>3. PICK n \in Nat : n = Len(orders) + 1
    BY OrdersType
  <2>4. OrderIds' = OrderIds \cup {n} /\ orders'[n] = NewOrder(tag(p))
    BY <2>1, <2>2, <2>3, AppendType
  <2>5. orders'[n].tag = tag(p)
    BY <2>4 DEF NewOrder
  <2>6. Follow(p, "NotSent", n, "journal") /\ n \in OrderIds' /\ OrderIds' \subseteq OrderIds \cup {n}
    BY <2>1, <2>3, <2>4
  <2> QED
    BY <1>5, <2>1, <2>3, <2>5, <2>6
<1>9. CASE JournalId(p)
  <2>1. OrderIds' = OrderIds /\ run[p].pc = "journal" /\ Goto(p, "settle") /\ "settle" \notin Sending
    BY <1>9, CalmFaults DEF JournalId, broker, OrderIds, Sending
  <2> QED
    BY <1>4, <2>1
<1>10. CASE Settle(p)
  <2> DEFINE placed == run[p].placed[run[p].leg]
             id == placed.id
  <2>1. run[p].pc = "settle" /\ placed # None
    BY <1>10 DEF Settle, Following
  <2>2. SentLeg(p, run[p].leg)
    BY <1>0, <1>2, <2>1
  <2>3. /\ id \in OrderIds /\ ~placed.anomaly /\ placed.outcome \in {"NotSent", "AdoptedExisting"}
        /\ orders[id].tag = <<run[p].key, run[p].leg>>
    BY <2>1, <2>2 DEF SentLeg
  <2>4. /\ orders' = IF orders[id].status = "open" THEN [orders EXCEPT ![id].status = "cancelled"] ELSE orders
        /\ EndLeg(p, Finalized(placed, orders'[id].status))
    BY <1>10, CalmFaults DEF Settle
  <2>5. orders'[id].status # "open" /\ orders'[id].tag = orders[id].tag /\ OrderIds' = OrderIds
    <3>1. orders \in [OrderIds -> Order]
      BY OrdersType
    <3> QED
      BY <2>3, <2>4, <3>1 DEF OrderIds, Order
  <2>6. PICK f : f = Finalized(placed, orders'[id].status)
    OBVIOUS
  <2>7. /\ f # None /\ f.id = id /\ ~f.anomaly /\ f.outcome \in {"Filled", "NothingExecuted", "AdoptedExisting"}
    <3>1. placed \in Placed
      <4>1. run[p] \in Local
        BY DEF TypeOK
      <4>2. run[p].placed \in [Legs -> Optional(Placed)]
        BY <4>1 DEF Local
      <4> QED
        BY <1>0, <2>1, <4>2 DEF Optional
    <3>2. PICK o : o = IF placed.outcome = "AdoptedExisting" THEN placed.outcome
                       ELSE IF orders'[id].status = "filled" THEN "Filled" ELSE "NothingExecuted"
      OBVIOUS
    <3>3. o \in {"Filled", "NothingExecuted", "AdoptedExisting"} /\ o \in Outcomes
      BY <3>2 DEF Outcomes
    <3>4. f = [placed EXCEPT !.outcome = o]
      BY <2>6, <3>2 DEF Finalized
    <3> HIDE DEF placed
    <3>5. f \in Placed /\ f.outcome = o /\ f.id = placed.id /\ f.anomaly = placed.anomaly
      BY <3>1, <3>3, <3>4 DEF Placed
    <3> QED
      BY <2>3, <3>3, <3>5, NoneAssumption DEF placed
  <2>8. /\ SameBase(p) /\ run'[p].pc \in {"replan", "last_look"} /\ run'[p].leg = run[p].leg
        /\ run'[p].placed[run[p].leg] = f
        /\ \A l \in Legs : l # run[p].leg => run'[p].placed[l] = run[p].placed[l]
    BY <2>4, <2>6, EndLegMoves, EndLegBase
  <2>9. ASSUME NEW l \in Legs, run'[p].placed[l] # None PROVE SentLeg(p, l)'
    <3>1. CASE l = run[p].leg
      BY <2>3, <2>5, <2>7, <2>8, <3>1 DEF SentLeg, SameBase
    <3>2. CASE l # run[p].leg
      <4>1. SentLeg(p, l)
        BY <1>2, <2>8, <2>9, <3>2
      <4> QED
        BY <1>0, <2>8, <3>2, <4>1, SentStays DEF SameBase
    <3> QED
      BY <3>1, <3>2
  <2>10. run[p].leg = "Sell" => run[p].placed["Buy"] = None
    BY <2>1 DEF CalmAttempt, Trading
  <2>11. "Buy" \in Legs /\ "replan" \notin Sending /\ "last_look" \notin Sending
    BY DEF Legs, Sending
  <2>12. \A l \in Legs : run[p].placed[l] # None =>
           run'[p].placed[l] # None /\ run'[p].placed[l].id = run[p].placed[l].id
    BY <2>7, <2>8
  <2> HIDE DEF placed, id
  <2> QED
    BY <1>3, <2>5, <2>8, <2>9, <2>10, <2>11, <2>12
<1>11. CASE LastLookUp(p)
  <2>1. /\ SameBase(p) /\ run'[p].pc = "recon_post" /\ \A l \in Legs : run'[p].placed[l] = run[p].placed[l]
    BY <1>11, CalmEnd
  <2>2. OrderIds' = OrderIds /\ run[p].pc = "last_look" /\ "recon_post" \notin Trading /\ "recon_post" \notin Sending
    BY <1>11 DEF LastLookUp, broker, OrderIds, Trading, Sending
  <2>3. ASSUME NEW l \in Legs, run'[p].placed[l] # None PROVE SentLeg(p, l)'
    BY <1>0, <1>2, <2>1, <2>2, <2>3, SentStays DEF SameBase
  <2> QED
    BY <1>3, <2>1, <2>2, <2>3
<1>12. CASE ReconPost(p)
  <2>1. run'[p].pc = "finish" /\ run'[p].key = run[p].key /\ run'[p].post = snapshot /\ OpenOrders = {}
    BY <1>12, CalmEnd
  <2>2. orders' = orders
    BY <1>12 DEF ReconPost, broker
  <2>3. snapshot' = snapshot /\ OpenOrders' = {}
    BY <2>1, <2>2 DEF snapshot, Executed, OrderIds, OpenOrders
  <2>4. snapshot # None
    BY ViewType, NoneAssumption
  <2>5. FinalView(p)' = snapshot
    BY <2>1, <2>4 DEF FinalView
  <2> QED
    BY <1>2, <2>1, <2>3, <2>4, <2>5 DEF CalmAttempt, Early, Looked, Sending, Trading, Booked
<1> QED
  BY <1>6, <1>7, <1>8, <1>9, <1>10, <1>11, <1>12

\* The record of a run puts all its orders on record, with the account they made.
LEMMA RecordBooks ==
    ASSUME TypeOK, FlowInv, Calm, CalmBooks, NEW p \in Procs, CalmAttempt(p), Finish(p), ~UNCHANGED store
    PROVE  CalmBooks'
<1>0. run[p].pc = "finish" /\ run[p].key = slot /\ slot \in Slots /\ ~world.overrun
  BY DEF Finish, Calm, FlowInv, OneAtATime, TypeOK
<1>1. /\ orders' = orders /\ transit' = transit /\ acct' = acct /\ slot' = slot /\ world' = world
      /\ runs[slot].status = "in_progress" /\ runs' = [runs EXCEPT ![slot] = Record(p, @)]
  BY <1>0, CalmFaults DEF Finish, broker, store
<1>2. /\ runs \in [Slots -> RunRow] /\ run[p] \in Local /\ runs[slot] \in RunRow
  BY <1>0 DEF TypeOK
<1>3. /\ runs'[slot].status = "done" /\ runs'[slot].snapshot = FinalView(p)
      /\ \A k \in Slots : k # slot => runs'[k] = runs[k]
  <2>1. PICK kd, ac, sn : /\ kd = run[p].kind /\ sn = FinalView(p)
                          /\ ac = (run[p].planned /\ run[p].kind = "Completed" /\ run[p].carried)
    OBVIOUS
  <2>2. runs'[slot] = [runs[slot] EXCEPT !.status = "done", !.kind = kd, !.acted = ac, !.snapshot = sn]
    BY <1>0, <1>1, <1>2, <2>1 DEF Record, FinalView
  <2> QED
    BY <1>0, <1>1, <1>2, <2>1, <2>2 DEF RunRow
<1>4. OrderIds' = OrderIds /\ \A i \in OrderIds : orders[i].tag[1] \in Slots
  <2>1. \A i \in OrderIds : orders[i].tag \in Tags
    BY OrdersType DEF Order
  <2> QED
    BY <1>1, <2>1 DEF Tags, OrderIds
<1>5. ASSUME NEW k \in Slots, runs[k].status # "absent" PROVE runs'[k].status = "done"
  <2>1. runs[k].status \in {"absent", "in_progress", "done"}
    BY <1>2 DEF RunRow
  <2> QED
    BY <1>3, <1>5, <2>1 DEF CalmBooks
<1>6. Closed' = OrderIds
  <2>1. \A i \in OrderIds : runs'[orders'[i].tag[1]].status = "done"
    BY <1>1, <1>4, <1>5 DEF CalmBooks
  <2> QED
    BY <1>4, <2>1 DEF Closed
<1>7. \A k \in Slots : /\ runs'[k].status = "in_progress" => k = slot'
                       /\ runs'[k].status # "absent" => k <= slot'
  <2>1. slot \in Nat /\ \A k \in Slots : k \in Nat
    BY <1>0 DEF Slots
  <2> QED
    BY <1>1, <1>3, <2>1 DEF CalmBooks
<1>8. Ended(OrderIds)
  <2>1. CASE FinalView(p) = None
    <3>1. Closed = OrderIds
      BY <1>0, <2>1 DEF CalmAttempt
    <3> QED
      BY <3>1 DEF CalmBooks
  <2>2. CASE FinalView(p) # None
    <3>1. OpenOrders = {}
      BY <1>0, <2>2 DEF CalmAttempt
    <3> QED
      BY <3>1 DEF OpenOrders, Ended
  <2> QED
    BY <2>1, <2>2
<1>9. View(Closed)' = View(OrderIds)
  BY <1>1, <1>6 DEF View, Executed
<1>10. IF last_snapshot' = None THEN Closed' = {} ELSE last_snapshot' = View(Closed)'
  <2> DEFINE withView == {k \in Slots : runs[k].status = "done" /\ runs[k].snapshot # None}
  <2>1. CASE FinalView(p) = None
    <3>1. Closed = OrderIds
      BY <1>0, <2>1 DEF CalmAttempt
    <3>2. withView' = withView
      BY <1>0, <1>1, <1>3, <2>1
    <3>3. withView # {} => Max(withView) \in withView
      BY MaxInSet, PipelineAssumption DEF Slots
    <3>4. PICK W : W = withView
      OBVIOUS
    <3>5. W # {} => runs'[Max(W)].snapshot = runs[Max(W)].snapshot
      BY <1>1, <1>3, <3>3, <3>4
    <3>6. last_snapshot' = last_snapshot
      BY <3>2, <3>4, <3>5 DEF last_snapshot
    <3> QED
      BY <1>6, <1>9, <3>1, <3>6 DEF CalmBooks
  <2>2. CASE FinalView(p) # None
    <3>1. FinalView(p) = snapshot
      BY <1>0, <2>2 DEF CalmAttempt
    <3>2. PICK W : W = withView'
      OBVIOUS
    <3>3. slot \in W /\ W \subseteq Slots
      BY <1>0, <1>3, <2>2, <3>2
    <3>4. \A k \in W : k <= slot
      BY <1>1, <1>7, <3>2, <3>3
    <3>5. Max(W) \in W /\ \A k \in W : Max(W) >= k
      <4>1. PICK n \in Nat : n = MaxSlot
        BY PipelineAssumption
      <4>2. W \in SUBSET (0..n) /\ W # {}
        BY <3>3, <4>1 DEF Slots
      <4> QED
        BY <4>2, MaxOfSet
    <3>6. Max(W) = slot
      <4>0. Slots \subseteq Nat
        BY DEF Slots
      <4>1. Max(W) \in Slots /\ slot \in Slots
        BY <1>0, <3>3, <3>5
      <4>2. PICK m \in Nat, s \in Nat : m = Max(W) /\ s = slot
        BY <4>0, <4>1
      <4>3. m <= s /\ m >= s
        BY <3>3, <3>4, <3>5, <4>2
      <4> QED
        BY <4>2, <4>3
    <3>7. last_snapshot' = FinalView(p)
      BY <1>3, <3>2, <3>3, <3>6 DEF last_snapshot
    <3> QED
      BY <1>9, <2>2, <3>1, <3>7, WholeView
  <2> QED
    BY <2>1, <2>2
<1>11. \A i \in OrderIds : orders[i].tag[2] = "Buy" /\ orders[i].status # "cancelled" => Done("Sell")'
  BY <1>1 DEF CalmBooks, Done, OrderIds
<1>12. \A i \in OrderIds : runs'[orders[i].tag[1]].status # "absent"
  BY <1>4, <1>5 DEF CalmBooks
<1>13. transit' = {} /\ ~acct'.halted /\ Ended(Closed)'
  BY <1>1, <1>6, <1>8 DEF CalmBooks, Ended
<1> QED
  BY <1>1, <1>4, <1>6, <1>7, <1>10, <1>11, <1>12, <1>13 DEF CalmBooks

\* A step that no attempt takes.
LEMMA CalmSystemStep ==
    ASSUME TypeOK, Following, FlowInv, Calm, CalmBooks, \A p \in Procs : CalmAttempt(p), [Next]_vars,
           ~\E p \in Procs : Step(p) \/ Crash(p)
    PROVE  CalmBooks' /\ \A p \in Procs : CalmAttempt(p)'
<1>0. OneAtATime /\ Attempts /\ ~world.overrun
  BY DEF Calm, FlowInv
<1>1. UNCHANGED run /\ world' = world /\ OrdersKept
  BY SystemKeepsRun, WorldKept, BrokerStep
<1>2. \A p \in Procs : ~Finish(p) /\ ~Place(p)
  BY DEF Step
<1>3. RowsKept
  BY <1>0, <1>2, RowsStep
<1>4. transit' = {} /\ acct' = acct /\ runs' = runs
  <2>1. transit' = {}
    BY <1>2, EmptyStays DEF CalmBooks
  <2>2. acct' = acct /\ runs' = runs
    BY DEF Next, LockExpires, RunLeaseExpires, NextSlot, Land, Execute, vars, store
  <2> QED
    BY <2>1, <2>2
<1>5. OrderIds' = OrderIds
  <2>1. \A i \in OrderIds' : i \in OrderIds
    BY <1>2, BrokerStep DEF CalmBooks
  <2> QED
    BY <1>1, <2>1 DEF OrdersKept
<1>6. CalmBooks' /\ Closed' = Closed /\ (Pending' <=> Pending)
  <2>1. CASE slot' = slot
    BY <1>1, <1>3, <1>4, <1>5, <2>1, BooksStay DEF CalmBooks
  <2>2. CASE slot' # slot
    <3>1. NextSlot
      BY <2>2 DEF Next, LockExpires, RunLeaseExpires, Land, Execute, vars
    <3>2. /\ runs[slot].status # "in_progress" /\ slot' = slot + 1 /\ orders' = orders /\ transit' = transit
      BY <3>1 DEF NextSlot, Calm, broker
    <3>3. slot \in Nat /\ \A k \in Slots : k \in Nat
      BY DEF TypeOK, Slots
    <3>4. \A k \in Slots : /\ runs'[k].status = "in_progress" => k = slot'
                           /\ runs'[k].status # "absent" => k <= slot'
      BY <1>4, <3>2, <3>3 DEF CalmBooks
    <3>5. /\ Closed' = Closed /\ View(Closed)' = View(Closed) /\ last_snapshot' = last_snapshot /\ (Pending' <=> Pending)
          /\ Ended(Closed)' /\ (Done("Sell")' <=> Done("Sell"))
      <4>1. Closed' = Closed /\ (Done("Sell")' <=> Done("Sell"))
        BY <1>4, <3>2 DEF Closed, OrderIds, Done
      <4>2. last_snapshot' = last_snapshot /\ (Pending' <=> Pending)
        BY <1>1, <1>4 DEF last_snapshot, Pending, acted_decision
      <4>3. View(Closed)' = View(Closed) /\ Ended(Closed)'
        BY <3>2, <4>1 DEF View, Executed, Ended, CalmBooks
      <4> QED
        BY <4>1, <4>2, <4>3
    <3> QED
      BY <1>4, <1>5, <3>2, <3>4, <3>5 DEF CalmBooks
  <2> QED
    BY <2>1, <2>2
<1>7. ASSUME NEW p \in Procs PROVE CalmAttempt(p)'
  <2>1. Attempt(p) /\ CalmAttempt(p) /\ run'[p] = run[p] /\ run[p].key \in Slots
    BY <1>0, <1>1, LegType DEF Attempts
  <2> QED
    BY <1>1, <1>3, <1>5, <1>6, <2>1, CalmStays
<1> QED
  BY <1>6, <1>7

\* An idle process knows nothing.
LEMMA IdleCalm ==
    ASSUME NEW p \in Procs, run[p].pc \in {"idle", "unlock"}
    PROVE  CalmAttempt(p)
BY DEF CalmAttempt, Early, Looked, Sending, Trading, Booked

LEMMA CalmStep ==
    TypeOK /\ Following /\ FlowInv /\ JournalCoversOrders /\ CalmInv /\ [Next]_vars => CalmInv'
<1> SUFFICES ASSUME TypeOK, Following, FlowInv, JournalCoversOrders, CalmInv, [Next]_vars, Calm'
             PROVE  CalmBooks' /\ \A p \in Procs : CalmAttempt(p)'
  BY DEF CalmInv
<1>1. Calm /\ CalmBooks /\ \A p \in Procs : CalmAttempt(p)
  <2>1. Calm
    BY WorldKept DEF Calm
  <2> QED
    BY <2>1 DEF CalmInv
<1>2. CASE ~\E p \in Procs : Step(p) \/ Crash(p)
  BY <1>1, <1>2, CalmSystemStep
<1>3. ASSUME NEW p \in Procs, Step(p) \/ Crash(p) PROVE CalmBooks' /\ \A q \in Procs : CalmAttempt(q)'
  <2>1. OneAtATime
    BY <1>1 DEF Calm, FlowInv
  <2>2. ASSUME NEW q \in Procs, q # p PROVE CalmAttempt(q)'
    <3>1. run'[q].pc = "idle"
      BY <1>3, <2>1, <2>2, Alone, OthersKept
    <3> QED
      BY <3>1 DEF CalmAttempt, Early, Looked, Sending, Trading, Booked
  <2>3. CASE Finish(p)
    <3>1. run'[p].pc = "unlock"
      BY <2>3, GotoMoves DEF Finish
    <3>2. CalmAttempt(p)'
      BY <3>1 DEF CalmAttempt, Early, Looked, Sending, Trading, Booked
    <3>3. CalmBooks'
      <4>1. CASE ~UNCHANGED store
        BY <1>1, <2>3, <4>1, RecordBooks
      <4>2. CASE UNCHANGED store
        <5>1. \A q \in Procs : ~Finish(q) \/ UNCHANGED store
          BY <4>2
        <5>2. /\ RowsKept /\ OrdersKept /\ orders' = orders /\ transit' = transit /\ acct' = acct
              /\ slot' = slot /\ world' = world
          BY <2>1, <2>3, <5>1, RowsStep, BrokerStep DEF Finish, broker
        <5>3. OrderIds' = OrderIds /\ ~acct'.halted /\ transit' = {}
          BY <1>1, <5>2 DEF OrderIds, CalmBooks
        <5> QED
          BY <1>1, <5>2, <5>3, BooksStay
      <4> QED
        BY <4>1, <4>2
    <3> QED
      BY <2>2, <3>2, <3>3
  <2>4. CASE ~Finish(p)
    <3>1. CalmBooks'
      BY <1>1, <1>3, <2>4, ProcBooks
    <3>2. CalmAttempt(p)'
      <4>1. ~LookAgain(p)
        BY <1>1 DEF LookAgain, CalmAttempt
      <4>2. CASE \/ TryLock(p) \/ Begin(p) \/ BeginFails(p) \/ Gate(p) \/ ReadAccount(p) \/ Cleanup(p) \/ Reread(p)
                 \/ Unlock(p) \/ Crash(p)
        BY <1>1, <4>2, CalmEarlyStep
      <4>3. CASE ReconPre(p) \/ Risk(p) \/ Plan(p) \/ Replan(p)
        BY <1>1, <4>3, CalmPlanStep
      <4>4. CASE LookUp(p) \/ JournalIntent(p) \/ Place(p) \/ JournalId(p) \/ Settle(p) \/ LastLookUp(p) \/ ReconPost(p)
        BY <1>1, <4>4, CalmTradeStep
      <4> QED
        BY <1>3, <2>4, <4>1, <4>2, <4>3, <4>4 DEF Step
    <3> QED
      BY <2>2, <3>1, <3>2
  <2> QED
    BY <2>3, <2>4
<1> QED
  BY <1>2, <1>3

LEMMA CalmInit == Init => CalmInv
<1> SUFFICES ASSUME Init PROVE CalmBooks /\ \A p \in Procs : CalmAttempt(p)
  BY DEF CalmInv
<1>1. OrderIds = {} /\ Closed = {}
  BY DEF Init, OrderIds, Closed
<1>2. \A k \in Slots : runs[k].status = "absent"
  BY DEF Init, NotStarted
<1>3. last_snapshot = None
  BY <1>2 DEF last_snapshot
<1>4. CalmBooks
  BY <1>1, <1>2, <1>3 DEF CalmBooks, Init, Ended
<1>5. \A p \in Procs : run[p].pc = "idle"
  BY DEF Init, Idle
<1> QED
  BY <1>4, <1>5, IdleCalm

\* With no fault but crashes, with the lock honoured and a crashed run taken over the same
\* day, the account is never halted: every reconciliation explains every fill of every
\* crashed attempt (pipeline.rs step_recon_pre, step_recon_post), for every number of
\* processes, days and crashes.
THEOREM CrashesNeverHalt == Spec => []CrashAloneNeverHalts
<1>1. CalmInv => CrashAloneNeverHalts
  BY DEF CalmInv, Calm, CalmBooks, CrashAloneNeverHalts, CrashNeverHalts
<1>2. Spec => []CalmInv
  BY CalmInit, CalmStep, TypeInvariant, FlowInvariant, JournalIsAhead, PTL DEF Spec
<1> QED
  BY <1>1, <1>2, PTL
=============================================================================
