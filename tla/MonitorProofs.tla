--------------------------- MODULE MonitorProofs ---------------------------
(***************************************************************************)
(* The monitor tells of every halt it found and alerts a failure streak    *)
(* once, for every number of passes and halts; the flatten a halt starts    *)
(* never turns a position round, for every position, lot and number of     *)
(* rounds, unless it read a quantity while an order could still execute;   *)
(* the delivery of the alerts, for every batch size, set of keys and       *)
(* channels and number of alerts, sends no second e-mail for a key but     *)
(* after a lost mark, and passes over no alert but a late or cut off one.  *)
(***************************************************************************)
EXTENDS Monitor, Flatten, AlertDelivery, SetLemmas, SequenceTheorems

HaltedNow == moAcct.status \in {"Flattening", "Halted"}

\* The state a pass works with is the stored one, or an older version of it.
LoadedIsOlder ==
    /\ moAcct \in [status : Statuses, version : Nat]
    /\ moPass \in [pc : {"idle", "gate", "read", "risk", "alert", "flatten", "complete", "report"},
                   status : Statuses, version : Nat, code : MonitorCodes]
    /\ moPass.pc \in {"read", "risk", "alert", "flatten", "complete"} =>
        /\ moPass.version <= moAcct.version
        /\ moPass.version = moAcct.version => moPass.status = moAcct.status
    /\ moPass.pc \in {"alert", "flatten", "complete"} => moPass.status = "Flattening"

\* Between the save of a halt and its alert nobody was told; at any other time
\* somebody was, unless the process died in that gap.
ToldOrLost == HaltedNow /\ moPass.pc # "alert" => moTold \/ moLost

MoInv == LoadedIsOlder /\ ToldOrLost

\* What a pass that ends with a code, or moves on, does to its own state.
LEMMA DoneType ==
    ASSUME LoadedIsOlder, NEW code \in MonitorCodes, Done(code), moAcct' \in [status : Statuses, version : Nat]
    PROVE  LoadedIsOlder' /\ moPass'.pc = "report"
BY DEF LoadedIsOlder, Done

LEMMA HaltInductive == MoInv /\ [MoNext]_moVars => MoInv'
<1> SUFFICES ASSUME MoInv, [MoNext]_moVars PROVE MoInv'
  OBVIOUS
<1> USE DEF MoInv
<1>0. \A s \in Statuses : MoSaved(s) => /\ moAcct' \in [status : Statuses, version : Nat]
                                        /\ moAcct'.status = s /\ moAcct'.version = moAcct.version + 1
  <2>1. moAcct.version + 1 \in Nat
    BY DEF LoadedIsOlder
  <2> QED
    BY <2>1 DEF MoSaved
<1>1. ASSUME NEW code \in MonitorCodes, Done(code), UNCHANGED <<moAcct, moTold, moLost>>, moPass.pc # "alert"
      PROVE  MoInv'
  BY <1>1, DoneType DEF LoadedIsOlder, ToldOrLost, HaltedNow
<1>2. CASE MonitorPass
  <2>1. CASE MoGoto("gate")
    BY <1>2, <2>1 DEF MonitorPass, MoGoto, MoHistory, LoadedIsOlder, ToldOrLost, HaltedNow
  <2> QED
    BY <1>1, <1>2, <2>1 DEF MonitorPass, MoHistory, MonitorCodes, Failures
<1>3. CASE MonitorGate
  <2>1. CASE moPass' = [moPass EXCEPT !.pc = "read", !.status = moAcct.status, !.version = moAcct.version]
    <3>1. /\ moPass'.pc = "read" /\ moPass'.status = moAcct.status /\ moPass'.version = moAcct.version
          /\ moPass' \in [pc : {"idle", "gate", "read", "risk", "alert", "flatten", "complete", "report"},
                          status : Statuses, version : Nat, code : MonitorCodes]
      BY <2>1 DEF LoadedIsOlder
    <3> QED
      BY <1>3, <3>1 DEF MonitorGate, MoHistory, LoadedIsOlder, ToldOrLost, HaltedNow
  <2> QED
    BY <1>1, <1>3, <2>1 DEF MonitorGate, MoHistory, MonitorCodes, Failures, Designed
<1>4. CASE MonitorRead
  <2>1. CASE moPass.status = "Flattening" /\ moPass' = [moPass EXCEPT !.pc = "flatten", !.code = "FlattenResumed"]
    <3>1. "FlattenResumed" \in MonitorCodes
      BY DEF MonitorCodes, Designed
    <3> QED
      BY <1>4, <2>1, <3>1 DEF MonitorRead, MoHistory, LoadedIsOlder, ToldOrLost, HaltedNow
  <2>2. CASE MoGoto("risk")
    BY <1>4, <2>2 DEF MonitorRead, MoGoto, MoHistory, LoadedIsOlder, ToldOrLost, HaltedNow
  <2>3. \/ Done("BrokerUnreachable") \/ Done("AccountHalted") \/ MoGoto("risk")
        \/ moPass.status = "Flattening" /\ moPass' = [moPass EXCEPT !.pc = "flatten", !.code = "FlattenResumed"]
    <3>1. CASE moPass.status = "Halted"
      BY <1>4, <3>1 DEF MonitorRead
    <3>2. CASE moPass.status = "Flattening" /\ moMode = "Live"
      BY <1>4, <3>2 DEF MonitorRead
    <3>3. CASE moPass.status = "Flattening" /\ moMode # "Live"
      BY <1>4, <3>3 DEF MonitorRead
    <3>4. CASE moPass.status \notin {"Flattening", "Halted"}
      BY <1>4, <3>4 DEF MonitorRead
    <3> QED
      BY <3>1, <3>2, <3>3, <3>4
  <2> QED
    BY <1>1, <1>4, <2>1, <2>2, <2>3 DEF MonitorRead, MoHistory, MonitorCodes, Failures, Designed
<1>5. CASE MonitorRisk
  <2>0. "Observed" \in MonitorCodes /\ "Halted" \in MonitorCodes /\ "StateStoreError" \in MonitorCodes
    BY DEF MonitorCodes, Designed, Failures
  <2>1. ASSUME NEW s \in {"Active", "Shrunk"}, MoSaved(s), Done("Observed"), MoHistory PROVE MoInv'
    <3>1. s \in Statuses
      BY DEF Statuses
    <3> QED
      BY <1>0, <2>0, <2>1, <3>1, DoneType DEF ToldOrLost, HaltedNow
  <2>2. CASE MoSaves /\ MoHalts("alert")
    <3>1. moPass.version + 1 \in Nat /\ "Flattening" \in Statuses
      BY DEF LoadedIsOlder, Statuses
    <3>2. /\ moPass'.pc = "alert" /\ moPass'.status = "Flattening" /\ moPass'.version = moPass.version + 1
          /\ moPass' \in [pc : {"idle", "gate", "read", "risk", "alert", "flatten", "complete", "report"},
                          status : Statuses, version : Nat, code : MonitorCodes]
      BY <2>0, <2>2, <3>1 DEF MoHalts, LoadedIsOlder
    <3>3. moAcct' \in [status : Statuses, version : Nat] /\ moAcct'.status = "Flattening" /\ moAcct'.version = moAcct.version + 1
      BY <1>0, <2>2, <3>1 DEF MoHalts
    <3>4. moPass'.version = moAcct'.version
      BY <2>2, <3>2, <3>3 DEF MoSaves
    <3> QED
      BY <3>1, <3>2, <3>3, <3>4 DEF LoadedIsOlder, ToldOrLost
  <2>3. CASE (Done("StateStoreError") \/ Done("Observed")) /\ UNCHANGED moAcct /\ MoHistory
    <3>1. moPass.pc # "alert" /\ UNCHANGED <<moAcct, moTold, moLost>>
      BY <1>5, <2>3 DEF MonitorRisk, MoHistory
    <3> QED
      BY <1>1, <2>0, <2>3, <3>1
  <2> QED
    BY <1>5, <2>1, <2>2, <2>3 DEF MonitorRisk
<1>6. CASE MonitorAlertHalt
  <2>1. PICK pc \in {"flatten", "complete"} : moPass' = [moPass EXCEPT !.pc = pc]
    BY <1>6 DEF MonitorAlertHalt, MoGoto
  <2>2. LoadedIsOlder'
    BY <1>6, <2>1 DEF MonitorAlertHalt, LoadedIsOlder
  <2> QED
    BY <1>6, <2>2 DEF MonitorAlertHalt, ToldOrLost
<1>7. CASE MonitorFlatten \/ MonitorComplete
  <2>0. /\ "RunStoreUnavailable" \in MonitorCodes /\ "StateStoreError" \in MonitorCodes /\ "Halted" \in MonitorCodes
        /\ moPass.code \in MonitorCodes
    BY DEF MonitorCodes, Failures, Designed, LoadedIsOlder
  <2>1. ASSUME NEW s \in {"Halted", "Flattening"}, NEW code \in MonitorCodes, MoSaves, MoSaved(s), Done(code)
        PROVE  MoInv'
    <3>1. s \in Statuses
      BY DEF Statuses
    <3>2. moPass.status = "Flattening" /\ moPass.version = moAcct.version /\ moPass.pc # "alert"
      BY <1>7, <2>1 DEF MonitorFlatten, MonitorComplete, MoSaves, LoadedIsOlder
    <3>3. moTold \/ moLost
      BY <1>7, <3>2 DEF MonitorFlatten, MonitorComplete, LoadedIsOlder, ToldOrLost, HaltedNow
    <3> QED
      BY <1>0, <1>7, <2>1, <3>1, <3>3, DoneType DEF MonitorFlatten, MonitorComplete, MoHistory, ToldOrLost
  <2> QED
    BY <1>1, <1>7, <2>0, <2>1 DEF MonitorFlatten, MonitorComplete, MoHistory
<1>8. CASE MonitorReport \/ MonitorCrash
  <2>1. moPass' = MoIdle /\ moAcct' = moAcct
    BY <1>8 DEF MonitorReport, MonitorCrash
  <2>2. MoIdle.pc = "idle" /\ MoIdle.status \in Statuses /\ MoIdle.version \in Nat /\ MoIdle.code \in MonitorCodes
        /\ MoIdle \in [pc : {"idle", "gate", "read", "risk", "alert", "flatten", "complete", "report"},
                       status : Statuses, version : Nat, code : MonitorCodes]
    BY DEF MoIdle, Statuses, MonitorCodes, Designed
  <2>3. moPass.pc # "alert" \/ moLost'
    BY <1>8 DEF MonitorReport, MonitorCrash
  <2>4. moTold \/ moLost => moTold' \/ moLost'
    BY <1>8 DEF MonitorReport, MonitorCrash, MoHistory
  <2> QED
    BY <2>1, <2>2, <2>3, <2>4 DEF LoadedIsOlder, ToldOrLost, HaltedNow
<1>9. CASE RunSaves
  <2>1. moAcct'.status \notin {"Flattening", "Halted"} /\ moAcct' \in [status : Statuses, version : Nat]
    BY <1>0, <1>9 DEF RunSaves, LoadedIsOlder
  <2> QED
    BY <1>9, <2>1 DEF RunSaves, LoadedIsOlder, ToldOrLost, HaltedNow
<1>10. CASE HumanResume
  <2>1. /\ moAcct'.status = "Active" /\ moAcct' \in [status : Statuses, version : Nat]
        /\ moAcct'.version = moAcct.version + 1
    BY <1>0, <1>10 DEF HumanResume, Statuses
  <2>2. moPass.version <= moAcct.version => moPass.version <= moAcct'.version /\ moPass.version # moAcct'.version
    <3>1. moPass.version \in Nat /\ moAcct.version \in Nat
      BY DEF LoadedIsOlder
    <3> QED
      BY <2>1, <3>1
  <2> QED
    BY <1>10, <2>1, <2>2 DEF HumanResume, LoadedIsOlder, ToldOrLost, HaltedNow
<1>11. CASE UNCHANGED moVars
  BY <1>11 DEF moVars, LoadedIsOlder, ToldOrLost, HaltedNow
<1> QED
  BY <1>2, <1>3, <1>4, <1>5, <1>6, <1>7, <1>8, <1>9, <1>10, <1>11 DEF MoNext

\* Whatever flatten, save or alert of a failing account goes wrong, a halt the monitor
\* found was alerted by the end of its reading, or the process died in between
\* (monitor.rs execute, step 9).
THEOREM EveryHaltIsTold == MoSpec => []HaltIsTold
<1>1. MoInit => MoInv
  BY DEF MoInit, MoInv, LoadedIsOlder, ToldOrLost, HaltedNow, MoIdle, Statuses, MonitorCodes, Designed
<1>2. MoInv => HaltIsTold
  BY DEF MoInv, ToldOrLost, HaltedNow, HaltIsTold
<1> QED
  BY <1>1, <1>2, HaltInductive, PTL DEF MoSpec

-----------------------------------------------------------------------------
(* Failure streaks. *)

\* The code kept in memory is the code of the last reading that was not busy, if that
\* reading failed, and then its alert was raised once.
StreakInv ==
    /\ moStreak.code \in Failures => moFailing = moStreak.code /\ moStreak.alerts = 1
    /\ moStreak.code \notin Failures => moFailing = MoNone

LEMMA StreakInductive == StreakInv /\ [MoNext]_moVars => StreakInv'
<1> SUFFICES ASSUME StreakInv, [MoNext]_moVars PROVE StreakInv'
  OBVIOUS
<1>0. MoNone \notin Failures /\ "LockBusy" \notin Failures
  BY MonitorAssumption DEF MonitorCodes, Failures
<1>1. CASE MonitorReport
  <2> DEFINE code == moPass.code
             raised == IF code \in Failures /\ moFailing # code THEN 1 ELSE 0
             before == IF moStreak.code = code THEN moStreak.alerts ELSE 0
  <2>1. CASE code = "LockBusy"
    BY <1>0, <1>1, <2>1 DEF MonitorReport, StreakAfter, StreakInv
  <2>2. CASE code \in Failures
    <3>1. raised + before = 1
      BY <1>0, <2>2 DEF StreakInv
    <3>2. moStreak' = [code |-> code, alerts |-> raised + before] /\ moFailing' = code
      BY <1>0, <1>1, <2>2 DEF MonitorReport, StreakAfter
    <3> QED
      BY <2>2, <3>1, <3>2 DEF StreakInv
  <2>3. CASE code # "LockBusy" /\ code \notin Failures
    BY <1>1, <2>3 DEF MonitorReport, StreakAfter, StreakInv
  <2> QED
    BY <2>1, <2>2, <2>3
<1>2. CASE MonitorCrash
  BY <1>0, <1>2 DEF MonitorCrash, NoStreak, StreakInv
<1>3. CASE ~MonitorReport /\ ~MonitorCrash
  BY <1>3 DEF MoNext, MonitorPass, MonitorGate, MonitorRead, MonitorRisk, MonitorAlertHalt, MonitorFlatten,
              MonitorComplete, RunSaves, HumanResume, MoStable, moVars, StreakInv
<1> QED
  BY <1>1, <1>2, <1>3

\* One alert per failure streak, over any number of repeats and busy locks, and no
\* streak without one (monitor.rs FailureStreaks::observe).
THEOREM OneAlertPerStreak == MoSpec => []StreakAlertedOnce
<1>1. MoInit => StreakInv
  BY MonitorAssumption DEF MoInit, NoStreak, StreakInv, MonitorCodes
<1>2. StreakInv => StreakAlertedOnce
  BY DEF StreakInv, StreakAlertedOnce
<1> QED
  BY <1>1, <1>2, StreakInductive, PTL DEF MoSpec

-----------------------------------------------------------------------------
(* The flatten. *)

FlRequests == [leg : FlLegs, k : Nat, qty : Nat, try : 1..2]
FlOrderSet == [req : FlRequests, done : Nat, live : BOOLEAN]
FlAttempts == [pc : {"idle", "cancel", "read", "tag", "place", "look", "settle", "verify", "save"},
               round : Nat, req : FlRequests, id : Nat, first : Nat, used : Nat,
               blocking : BOOLEAN, shortHeld : BOOLEAN, flat : BOOLEAN]

\* No order executed more than its quantity, and a halted account is not being
\* flattened.
FlShape ==
    /\ flStart \in Int /\ flPos \in Int
    /\ flOrders \in Seq(FlOrderSet)
    /\ \A i \in DOMAIN flOrders : flOrders[i].done <= flOrders[i].req.qty
    /\ flTransit \subseteq FlRequests
    /\ fl \in FlAttempts
    /\ fl.pc = "settle" => fl.id \in DOMAIN flOrders
    /\ flStatus = "Halted" => fl.pc = "idle"
    /\ flDoubt \in BOOLEAN

\* Trading the quantity on the leg does not turn the position round.
Fits(leg, n) == IF leg = "Sell" THEN n <= flPos ELSE flPos + n <= 0

Nothing == FlLive = {} /\ flTransit = {}

\* At most one order or request can still execute, and it fits the position.
OneActive ==
    /\ \A i \in FlLive : /\ Fits(flOrders[i].req.leg, flOrders[i].req.qty - flOrders[i].done)
                         /\ flTransit = {}
                         /\ \A j \in FlLive : i = j
    /\ \A r \in flTransit : Fits(r.leg, r.qty) /\ \A s \in flTransit : r = s

\* What the attempt believes at each of its steps.
StepKnows ==
    /\ fl.pc \in {"tag", "place"} => Nothing /\ Fits(fl.req.leg, fl.req.qty)
    /\ fl.pc = "look" =>
          /\ \A r \in flTransit : r.leg = fl.req.leg /\ r.k = fl.req.k
          /\ FlWithTag(fl.req.leg, fl.req.k) = {} => FlLive = {} /\ Fits(fl.req.leg, fl.req.qty)
    /\ (fl.pc = "save" /\ fl.flat) \/ flStatus = "Halted" =>
          Nothing /\ round_quantity(FlAbs(flPos)) = 0

SameSide == (flStart >= 0 => flPos >= 0) /\ (flStart <= 0 => flPos <= 0)

FlInv == FlShape /\ (~flDoubt => SameSide /\ OneActive /\ StepKnows)

\* What rounding to the lot leaves.
LEMMA RoundDown ==
    ASSUME NEW q \in Nat
    PROVE  /\ round_quantity(q) \in Nat
           /\ round_quantity(q) <= q /\ q < round_quantity(q) + FlLot
<1>1. PICK b \in Nat : b = FlLot /\ b > 0
  BY FlattenAssumption
<1>2. (q \div b) \in Nat
  BY <1>1
<1>3. (q \div b) * b \in Nat
  BY <1>1, <1>2
<1>4. (q \div b) * b <= q
  BY <1>1
<1>5. q < (q \div b) * b + b
  BY <1>1
<1> QED
  BY <1>1, <1>3, <1>4, <1>5 DEF round_quantity

LEMMA RequestTypes ==
    /\ FlNoRequest \in FlRequests /\ FlIdle \in FlAttempts
    /\ \A r \in FlRequests : FlOrder(r) \in FlOrderSet
BY DEF FlNoRequest, FlIdle, FlOrder, FlRequests, FlOrderSet, FlAttempts, FlLegs

\* An order that is over leads to another round or to the verification.
LEMMA EndOrderType ==
    ASSUME NEW local \in FlAttempts, FlEndOrder(local)
    PROVE  fl' \in FlAttempts /\ fl'.pc \in {"cancel", "verify"}
<1>1. local.round + 1 \in Nat
  BY DEF FlAttempts
<1> QED
  BY <1>1 DEF FlEndOrder, FlAttempts

LEMMA GotoType ==
    ASSUME FlShape, NEW pc \in {"idle", "cancel", "read", "tag", "place", "look", "settle", "verify", "save"}, FlGoto(pc)
    PROVE  fl' \in FlAttempts /\ fl'.pc = pc /\ fl'.id = fl.id /\ fl'.req = fl.req
BY DEF FlShape, FlGoto, FlAttempts

\* Appending an order.
LEMMA Appended ==
    ASSUME FlShape, NEW r \in FlRequests, flOrders' = Append(flOrders, FlOrder(r))
    PROVE  /\ flOrders' \in Seq(FlOrderSet)
           /\ DOMAIN flOrders' = DOMAIN flOrders \cup {Len(flOrders) + 1}
           /\ Len(flOrders) \in Nat /\ Len(flOrders) + 1 \notin DOMAIN flOrders
           /\ \A i \in DOMAIN flOrders : flOrders'[i] = flOrders[i]
           /\ flOrders'[Len(flOrders) + 1] = FlOrder(r)
           /\ \A i \in DOMAIN flOrders' : flOrders'[i].done <= flOrders'[i].req.qty
           /\ FlLive' = FlLive \cup {Len(flOrders) + 1}
<1>1. FlOrder(r) \in FlOrderSet
  BY RequestTypes
<1>2. flOrders \in Seq(FlOrderSet)
  BY DEF FlShape
<1>3. /\ flOrders' \in Seq(FlOrderSet)
      /\ DOMAIN flOrders' = DOMAIN flOrders \cup {Len(flOrders) + 1}
      /\ Len(flOrders) \in Nat /\ Len(flOrders) + 1 \notin DOMAIN flOrders
      /\ \A i \in DOMAIN flOrders : flOrders'[i] = flOrders[i]
      /\ flOrders'[Len(flOrders) + 1] = FlOrder(r)
  BY <1>1, <1>2
<1>4. FlOrder(r).done = 0 /\ FlOrder(r).req = r /\ FlOrder(r).live = TRUE /\ 0 <= r.qty
  BY DEF FlOrder, FlRequests
<1>5. \A i \in DOMAIN flOrders' : flOrders'[i].done <= flOrders'[i].req.qty
  BY <1>3, <1>4 DEF FlShape
<1>6. FlLive' = FlLive \cup {Len(flOrders) + 1}
  BY <1>3, <1>4 DEF FlLive
<1> QED
  BY <1>3, <1>5, <1>6

\* What a cover is sized to: not more than what is short.
LEMMA CoverFits ==
    ASSUME FlShape, NEW q \in Nat, FlCover(q).send
    PROVE  FlCover(q).qty \in Nat /\ FlCover(q).qty <= q
<1>1. PICK first \in Nat, used \in Nat : first = (IF fl.first = 0 THEN q ELSE fl.first) /\ used = fl.used
  BY DEF FlShape, FlAttempts
<1>2. FlCover(q) = [send |-> first - used > 0 /\ (IF q > first - used THEN round_quantity(first - used) ELSE q) > 0,
                    qty |-> IF q > first - used THEN round_quantity(first - used) ELSE q]
  BY <1>1 DEF FlCover
<1>3. first - used \in Nat
  <2> DEFINE sized == IF q > first - used THEN round_quantity(first - used) ELSE q
             allowed == first - used > 0 /\ sized > 0
  <2>1. allowed
    <3>1. FlCover(q) = [send |-> allowed, qty |-> sized]
      BY <1>2
    <3> HIDE DEF allowed, sized
    <3>2. FlCover(q).send = allowed
      BY <3>1
    <3> QED
      BY Zenon, <3>2
  <2> QED
    BY <2>1
<1>4. round_quantity(first - used) \in Nat /\ round_quantity(first - used) <= first - used
  BY <1>3, RoundDown
<1> QED
  BY <1>1, <1>2, <1>3, <1>4

\* A read of the position sizes an order that fits it.
LEMMA ReadFits ==
    ASSUME FlShape
    PROVE  LET q == round_quantity(FlAbs(flPos))
               size == IF FlLegOf(flPos) = "Cover" THEN FlCover(q) ELSE [send |-> TRUE, qty |-> q]
           IN  q \in Nat /\ (size.send => size.qty \in Nat /\ Fits(FlLegOf(flPos), size.qty))
<1> DEFINE q == round_quantity(FlAbs(flPos))
           size == IF FlLegOf(flPos) = "Cover" THEN FlCover(q) ELSE [send |-> TRUE, qty |-> q]
<1>1. flPos \in Int /\ FlAbs(flPos) \in Nat
  BY DEF FlShape, FlAbs
<1>2. q \in Nat /\ q <= FlAbs(flPos)
  BY <1>1, RoundDown
<1>3. CASE flPos < 0
  <2>1. FlLegOf(flPos) = "Cover" /\ size = FlCover(q)
    BY <1>3 DEF FlLegOf
  <2>2. size.send => size.qty \in Nat /\ size.qty <= q
    BY <1>2, <2>1, CoverFits
  <2>3. ASSUME NEW n \in Nat, n <= q PROVE Fits("Cover", n)
    <3> HIDE DEF q
    <3> QED
      BY <1>1, <1>2, <1>3, <2>3 DEF FlAbs, Fits
  <2> HIDE DEF q, size
  <2> QED
    BY <1>2, <2>1, <2>2, <2>3 DEF q, size
<1>4. CASE flPos >= 0
  <2>1. FlLegOf(flPos) = "Sell" /\ size = [send |-> TRUE, qty |-> q]
    BY <1>1, <1>4 DEF FlLegOf
  <2>2. q <= flPos
    <3> HIDE DEF q
    <3> QED
      BY <1>1, <1>2, <1>4 DEF FlAbs
  <2>3. size.send => size.qty \in Nat /\ Fits(FlLegOf(flPos), size.qty)
    <3> HIDE DEF q
    <3> QED
      BY <1>2, <2>1, <2>2 DEF Fits
  <2> QED
    BY <1>2, <2>3
<1> QED
  BY <1>1, <1>3, <1>4

\* A quantity is read without doubt only while nothing can execute.
LEMMA NoDoubt ==
    ASSUME FlShape, [FlNext]_flVars, ~flDoubt'
    PROVE  ~flDoubt /\ (SizesNow => Nothing)
<1>1. UNCHANGED flDoubt \/ SizesNow
  <2>1. FlRead => UNCHANGED flDoubt \/ SizesNow
    BY Zenon DEF FlRead
  <2>2. FlLook => UNCHANGED flDoubt \/ SizesNow
    BY DEF FlLook
  <2>3. FlVerify => UNCHANGED flDoubt \/ SizesNow
    BY Zenon DEF FlVerify
  <2>4. FlBegin \/ FlCancel \/ FlTag \/ FlPlace \/ FlSettle \/ FlSave \/ FlCrash => UNCHANGED flDoubt
    BY Zenon DEF FlBegin, FlCancel, FlTag, FlPlace, FlSettle, FlSave, FlCrash
  <2>5. (\E i \in DOMAIN flOrders : FlExecute(i)) \/ (\E r \in flTransit : FlLand(r)) => UNCHANGED flDoubt
    BY Zenon DEF FlExecute, FlLand
  <2>6. UNCHANGED flVars => UNCHANGED flDoubt
    BY DEF flVars
  <2> QED
    BY Zenon, <2>1, <2>2, <2>3, <2>4, <2>5, <2>6 DEF FlNext, FlStep
<1>2. SizesNow => ~flDoubt /\ Nothing
  BY Zenon DEF SizesNow, Nothing
<1>3. UNCHANGED flDoubt => ~flDoubt
  OBVIOUS
<1> QED
  BY <1>1, <1>2, <1>3

\* A read without a fault: verified, an order to place, or a cover held back.
LEMMA ReadResult ==
    ASSUME FlShape, FlRead
    PROVE  /\ fl' \in FlAttempts /\ fl'.pc \in {"verify", "tag", "cancel"}
           /\ fl'.pc = "tag" => SizesNow /\ Fits(fl'.req.leg, fl'.req.qty)
<1> DEFINE q == round_quantity(FlAbs(flPos))
           leg == FlLegOf(flPos)
           size == IF leg = "Cover" THEN FlCover(q) ELSE [send |-> TRUE, qty |-> q]
           first == IF leg = "Cover" /\ fl.first = 0 THEN q ELSE fl.first
           placing == [fl EXCEPT !.pc = "tag", !.first = first, !.req = [FlNoRequest EXCEPT !.leg = leg, !.qty = size.qty]]
           held == [fl EXCEPT !.shortHeld = TRUE, !.first = first,
                              !.pc = IF fl.round < FlMaxRounds THEN "cancel" ELSE "verify",
                              !.round = IF fl.round < FlMaxRounds THEN @ + 1 ELSE @]
<1>1. q \in Nat /\ (size.send => size.qty \in Nat /\ Fits(leg, size.qty))
  BY ReadFits
<1>2. leg \in FlLegs /\ fl \in FlAttempts /\ first \in Nat /\ fl.round + 1 \in Nat
  <2>1. fl \in FlAttempts
    BY DEF FlShape
  <2> HIDE DEF q
  <2> QED
    BY <1>1, <2>1 DEF FlLegOf, FlLegs, FlAttempts
<1>3. \/ FlGoto("verify")
      \/ SizesNow /\ fl' = IF q = 0 THEN [fl EXCEPT !.pc = "verify"] ELSE IF size.send THEN placing ELSE held
  BY Zenon DEF FlRead
<1> HIDE DEF q, leg, size, first
<1>4. size.send => placing \in FlAttempts /\ placing.pc = "tag" /\ placing.req.leg = leg /\ placing.req.qty = size.qty
  <2>1. size.send => [FlNoRequest EXCEPT !.leg = leg, !.qty = size.qty] \in FlRequests
    <3>1. FlNoRequest \in FlRequests
      BY RequestTypes
    <3>2. ASSUME NEW n \in Nat PROVE [FlNoRequest EXCEPT !.leg = leg, !.qty = n] \in FlRequests
      BY <1>2, <3>1 DEF FlRequests
    <3> QED
      BY <1>1, <3>2
  <2> QED
    BY <1>2, <2>1 DEF FlAttempts, FlNoRequest
<1>5. held \in FlAttempts /\ held.pc \in {"cancel", "verify"}
  BY <1>2 DEF FlAttempts
<1>6. [fl EXCEPT !.pc = "verify"] \in FlAttempts /\ [fl EXCEPT !.pc = "verify"].pc = "verify"
  BY <1>2 DEF FlAttempts
<1> HIDE DEF placing, held
<1>7. CASE FlGoto("verify")
  BY <1>7, GotoType
<1>8. CASE SizesNow /\ fl' = placing /\ size.send
  BY <1>1, <1>4, <1>8
<1>9. CASE fl' = held
  BY <1>5, <1>9
<1>10. CASE fl' = [fl EXCEPT !.pc = "verify"]
  BY <1>6, <1>10
<1> QED
  BY <1>3, <1>7, <1>8, <1>9, <1>10

\* The tag given to an order is free, and only the tag is given.
LEMMA TagResult ==
    ASSUME FlShape, FlTag
    PROVE  /\ fl' \in FlAttempts /\ fl'.pc \in {"verify", "place", "cancel"}
           /\ fl'.pc = "place" => fl'.req.leg = fl.req.leg /\ fl'.req.qty = fl.req.qty
<1>0. fl \in FlAttempts
  BY DEF FlShape
<1>1. CASE FlEndOrder(fl)
  BY <1>0, <1>1, EndOrderType
<1>2. CASE free_tag(fl.req.leg) # {} /\ fl' = [fl EXCEPT !.pc = "place", !.req.k = Min(free_tag(fl.req.leg))]
  <2>1. Min(free_tag(fl.req.leg)) \in Nat
    <3>1. free_tag(fl.req.leg) \in SUBSET Nat
      BY FlattenAssumption DEF free_tag
    <3> QED
      BY <1>2, <3>1, MinInSet
  <2> HIDE DEF free_tag
  <2> QED
    BY <1>0, <1>2, <2>1 DEF FlAttempts, FlRequests
<1> QED
  BY <1>1, <1>2 DEF FlTag

\* The look after a lost answer: over, adopted, or sized again.
LEMMA LookResult ==
    ASSUME FlShape, FlLook
    PROVE  /\ fl' \in FlAttempts /\ fl'.pc \in {"verify", "place", "cancel", "settle"}
           /\ fl'.pc = "settle" => fl'.id \in DOMAIN flOrders
           /\ fl'.pc = "place" => /\ SizesNow /\ FlWithTag(fl.req.leg, fl.req.k) = {}
                                  /\ fl'.req.leg = fl.req.leg /\ fl'.req.qty = fl.req.qty
<1> DEFINE found == FlWithTag(fl.req.leg, fl.req.k)
<1>0. fl \in FlAttempts
  BY DEF FlShape
<1>1. CASE FlEndOrder(fl)
  BY <1>0, <1>1, EndOrderType
<1>2. CASE found # {} /\ fl' = [fl EXCEPT !.pc = "settle", !.id = Min(found)]
  <2>1. found \in SUBSET Nat /\ found \subseteq DOMAIN flOrders
    BY DEF FlWithTag, FlShape
  <2>2. Min(found) \in found
    BY <1>2, <2>1, MinInSet
  <2> HIDE DEF found
  <2> QED
    BY <1>0, <1>2, <2>1, <2>2 DEF FlAttempts
<1>3. CASE found = {} /\ fl' = [fl EXCEPT !.pc = "place", !.req.try = 2] /\ SizesNow
  <2>1. fl' \in FlAttempts /\ fl'.pc = "place" /\ fl'.req.leg = fl.req.leg /\ fl'.req.qty = fl.req.qty
    <3>1. fl.req \in FlRequests
      BY <1>0 DEF FlAttempts
    <3>2. [fl.req EXCEPT !.try = 2] \in FlRequests
      BY <3>1 DEF FlRequests
    <3>3. [fl.req EXCEPT !.try = 2].leg = fl.req.leg /\ [fl.req EXCEPT !.try = 2].qty = fl.req.qty
      BY <3>1 DEF FlRequests
    <3>4. fl' = [fl EXCEPT !.pc = "place", !.req = [fl.req EXCEPT !.try = 2]]
      BY <1>0, <1>3 DEF FlAttempts
    <3> QED
      BY <1>0, <3>2, <3>3, <3>4 DEF FlAttempts
  <2> HIDE DEF found
  <2> QED
    BY <1>3, <2>1 DEF found
<1>4. \/ FlEndOrder(fl)
      \/ found # {} /\ fl' = [fl EXCEPT !.pc = "settle", !.id = Min(found)]
      \/ found = {} /\ fl' = [fl EXCEPT !.pc = "place", !.req.try = 2] /\ SizesNow
  <2>1. CASE found # {}
    BY Zenon, <2>1 DEF FlLook
  <2>2. CASE found = {} /\ fl.req.try = 1
    BY Zenon, <2>2 DEF FlLook
  <2>3. CASE found = {} /\ fl.req.try # 1
    BY Zenon, <2>3 DEF FlLook
  <2> QED
    BY <2>1, <2>2, <2>3
<1> QED
  BY <1>1, <1>2, <1>3, <1>4

\* What settling does to the orders: at most the settled one stops being live.
LEMMA SettleResult ==
    ASSUME FlShape, FlSettle
    PROVE  /\ fl' \in FlAttempts /\ fl'.pc \in {"verify", "cancel"}
           /\ flOrders' \in Seq(FlOrderSet) /\ DOMAIN flOrders' = DOMAIN flOrders
           /\ \A i \in DOMAIN flOrders : /\ flOrders'[i].req = flOrders[i].req /\ flOrders'[i].done = flOrders[i].done
                                         /\ flOrders'[i].live => flOrders[i].live
<1>0. fl \in FlAttempts /\ fl.id \in DOMAIN flOrders /\ flOrders \in Seq(FlOrderSet)
  BY DEF FlShape, FlSettle
<1>1. flOrders[fl.id].done \in Nat /\ fl.req.qty \in Nat /\ fl.used \in Nat /\ flOrders[fl.id] \in FlOrderSet
  <2>1. flOrders[fl.id] \in FlOrderSet
    BY <1>0
  <2> QED
    BY <1>0, <2>1 DEF FlAttempts, FlRequests, FlOrderSet
<1>2. \A n \in Nat : FlCounted(n) \in Nat
  BY <1>1 DEF FlCounted
<1>3. \A n \in Nat : [fl EXCEPT !.blocking = TRUE, !.used = FlCounted(n)] \in FlAttempts
                     /\ [fl EXCEPT !.used = FlCounted(n)] \in FlAttempts
  <2> TAKE n \in Nat
  <2>1. FlCounted(n) \in Nat
    BY <1>2
  <2> QED
    BY <1>0, <2>1 DEF FlAttempts
<1>4. fl' \in FlAttempts /\ fl'.pc \in {"verify", "cancel"}
  <2>1. PICK n \in Nat : FlEndOrder([fl EXCEPT !.blocking = TRUE, !.used = FlCounted(n)])
                         \/ FlEndOrder([fl EXCEPT !.used = FlCounted(n)])
    BY <1>1 DEF FlSettle
  <2> QED
    BY <1>3, <2>1, EndOrderType
<1>5. UNCHANGED flOrders \/ flOrders' = [flOrders EXCEPT ![fl.id].live = FALSE]
  BY DEF FlSettle
<1>6. flOrders' = [flOrders EXCEPT ![fl.id].live = FALSE] =>
          flOrders' = [flOrders EXCEPT ![fl.id] = [flOrders[fl.id] EXCEPT !.live = FALSE]]
  BY <1>0
<1>7. PICK o \in FlOrderSet : o = [flOrders[fl.id] EXCEPT !.live = FALSE]
  BY <1>1 DEF FlOrderSet
<1>8. o.req = flOrders[fl.id].req /\ o.done = flOrders[fl.id].done /\ o.live = FALSE
  BY <1>1, <1>7 DEF FlOrderSet
<1>9. CASE UNCHANGED flOrders
  BY <1>0, <1>4, <1>9
<1>10. CASE flOrders' = [flOrders EXCEPT ![fl.id] = o]
  <2>1. /\ flOrders' \in Seq(FlOrderSet) /\ DOMAIN flOrders' = DOMAIN flOrders
        /\ \A i \in DOMAIN flOrders : flOrders'[i] = IF i = fl.id THEN o ELSE flOrders[i]
    BY <1>0, <1>10
  <2> QED
    BY <1>4, <1>8, <2>1
<1> QED
  BY <1>5, <1>6, <1>7, <1>9, <1>10

\* What an execution does to the orders: the executed one has less left.
LEMMA ExecuteResult ==
    ASSUME FlShape, NEW i \in DOMAIN flOrders, FlExecute(i)
    PROVE  \E n \in Nat :
              /\ flPos' = flPos + FlSigned(flOrders[i].req.leg, n)
              /\ flOrders' \in Seq(FlOrderSet) /\ DOMAIN flOrders' = DOMAIN flOrders
              /\ flOrders[i].done + n <= flOrders[i].req.qty /\ flOrders'[i].done = flOrders[i].done + n
              /\ \A j \in DOMAIN flOrders : /\ flOrders'[j].req = flOrders[j].req
                                            /\ flOrders'[j].live => flOrders[j].live
                                            /\ j # i => flOrders'[j] = flOrders[j]
<1>1. PICK n \in 1..(flOrders[i].req.qty - flOrders[i].done) :
          /\ flPos' = flPos + FlSigned(flOrders[i].req.leg, n)
          /\ flOrders' = [flOrders EXCEPT ![i].done = @ + n, ![i].live = @ /\ flOrders[i].done + n < flOrders[i].req.qty]
  BY DEF FlExecute
<1>2. flOrders \in Seq(FlOrderSet) /\ flOrders[i] \in FlOrderSet /\ flOrders[i].live
  BY DEF FlShape, FlExecute
<1>3. PICK q \in Nat, d \in Nat : q = flOrders[i].req.qty /\ d = flOrders[i].done
  BY <1>2 DEF FlOrderSet, FlRequests
<1>4. n \in Nat /\ d + n <= q /\ d + n \in Nat
  BY <1>1, <1>3
<1>5. PICK o \in FlOrderSet : /\ o.req = flOrders[i].req /\ o.done = d + n
                              /\ flOrders' = [flOrders EXCEPT ![i] = o]
  <2> DEFINE live == flOrders[i].live /\ flOrders[i].done + n < flOrders[i].req.qty
  <2>1. live \in BOOLEAN
    OBVIOUS
  <2>2. flOrders' = [flOrders EXCEPT ![i] = [flOrders[i] EXCEPT !.done = flOrders[i].done + n, !.live = live]]
    BY <1>1, <1>2
  <2> HIDE DEF live
  <2>3. [flOrders[i] EXCEPT !.done = d + n, !.live = live] \in FlOrderSet
    BY <1>2, <1>4, <2>1 DEF FlOrderSet
  <2>4. /\ [flOrders[i] EXCEPT !.done = d + n, !.live = live].req = flOrders[i].req
        /\ [flOrders[i] EXCEPT !.done = d + n, !.live = live].done = d + n
    BY <1>2 DEF FlOrderSet
  <2> QED
    BY <1>3, <2>2, <2>3, <2>4
<1>6. /\ flOrders' \in Seq(FlOrderSet) /\ DOMAIN flOrders' = DOMAIN flOrders
      /\ \A j \in DOMAIN flOrders : flOrders'[j] = IF j = i THEN o ELSE flOrders[j]
  BY <1>2, <1>5
<1> QED
  BY <1>1, <1>2, <1>3, <1>4, <1>5, <1>6

LEMMA ShapeInductive == FlShape /\ [FlNext]_flVars => FlShape'
<1> SUFFICES ASSUME FlShape, [FlNext]_flVars PROVE FlShape'
  OBVIOUS
<1>0. /\ flStart \in Int /\ flPos \in Int /\ flOrders \in Seq(FlOrderSet)
      /\ \A i \in DOMAIN flOrders : flOrders[i].done <= flOrders[i].req.qty
      /\ flTransit \subseteq FlRequests /\ fl \in FlAttempts /\ flDoubt \in BOOLEAN
      /\ fl.req \in FlRequests
  BY DEF FlShape, FlAttempts
<1>1. flStart' = flStart
  BY Zenon DEF FlNext, FlStep, FlBegin, FlCancel, FlRead, FlTag, FlPlace, FlLook, FlSettle, FlVerify, FlSave, FlCrash,
               FlExecute, FlLand, flVars
<1>2. flDoubt' \in BOOLEAN
  <2>1. UNCHANGED flDoubt \/ SizesNow
    BY Zenon DEF FlNext, FlStep, FlBegin, FlCancel, FlRead, FlTag, FlPlace, FlLook, FlSettle, FlVerify, FlSave,
                 FlCrash, FlExecute, FlLand, flVars
  <2> QED
    BY Zenon, <1>0, <2>1 DEF SizesNow
<1>3. CASE fl' \in FlAttempts /\ fl'.pc # "settle" /\ UNCHANGED <<flBroker, flStatus>> /\ (flStatus = "Halted" => fl'.pc = "idle")
  BY <1>0, <1>1, <1>2, <1>3 DEF FlShape, flBroker
<1>4. CASE FlBegin
  <2>1. fl' \in FlAttempts /\ fl'.pc = "cancel"
    <3>1. FlIdle \in FlAttempts
      BY RequestTypes
    <3> QED
      BY <1>4, <3>1 DEF FlBegin, FlAttempts
  <2> QED
    BY <1>3, <1>4, <2>1 DEF FlBegin
<1>5. CASE FlCancel
  <2>1. fl' \in FlAttempts /\ fl'.pc \in {"verify", "read"}
    <3>1. CASE fl' = [fl EXCEPT !.pc = "read", !.blocking = TRUE]
      BY <1>0, <3>1 DEF FlAttempts
    <3> QED
      BY <1>5, <3>1, GotoType DEF FlCancel
  <2>2. /\ flOrders' \in Seq(FlOrderSet)
        /\ \A i \in DOMAIN flOrders' : flOrders'[i].done <= flOrders'[i].req.qty
    <3>1. CASE flOrders' = [i \in DOMAIN flOrders |-> [flOrders[i] EXCEPT !.live = FALSE]]
      <4>1. \A i \in DOMAIN flOrders : /\ [flOrders[i] EXCEPT !.live = FALSE] \in FlOrderSet
                                       /\ [flOrders[i] EXCEPT !.live = FALSE].req = flOrders[i].req
                                       /\ [flOrders[i] EXCEPT !.live = FALSE].done = flOrders[i].done
        <5> SUFFICES ASSUME NEW i \in DOMAIN flOrders
                     PROVE  /\ [flOrders[i] EXCEPT !.live = FALSE] \in FlOrderSet
                            /\ [flOrders[i] EXCEPT !.live = FALSE].req = flOrders[i].req
                            /\ [flOrders[i] EXCEPT !.live = FALSE].done = flOrders[i].done
          OBVIOUS
        <5>1. flOrders[i] \in FlOrderSet
          BY <1>0
        <5> QED
          BY <5>1 DEF FlOrderSet
      <4>2. PICK n \in Nat : DOMAIN flOrders = 1..n
        BY <1>0
      <4>3. flOrders' \in [1..n -> FlOrderSet]
        BY <3>1, <4>1, <4>2
      <4>4. flOrders' \in Seq(FlOrderSet)
        BY <4>3, SeqDef
      <4>5. \A i \in DOMAIN flOrders' : i \in DOMAIN flOrders /\ flOrders'[i].done = flOrders[i].done /\ flOrders'[i].req = flOrders[i].req
        BY <3>1, <4>1
      <4> QED
        BY <1>0, <4>4, <4>5
    <3>2. CASE UNCHANGED flOrders
      BY <1>0, <3>2
    <3> QED
      BY <1>5, <3>1, <3>2 DEF FlCancel
  <2> QED
    BY <1>0, <1>1, <1>2, <1>5, <2>1, <2>2 DEF FlShape, FlCancel
<1>6. CASE FlRead
  <2>1. fl' \in FlAttempts /\ fl'.pc # "settle"
    BY <1>6, ReadResult
  <2>2. flStatus # "Halted" /\ UNCHANGED <<flBroker, flStatus>>
    BY <1>6 DEF FlShape, FlRead
  <2> QED
    BY <1>3, <2>1, <2>2
<1>7. CASE FlTag
  <2>1. fl' \in FlAttempts /\ fl'.pc # "settle"
    BY <1>7, TagResult
  <2>2. flStatus # "Halted" /\ UNCHANGED <<flBroker, flStatus>>
    BY <1>7 DEF FlShape, FlTag
  <2> QED
    BY <1>3, <2>1, <2>2
<1>8. CASE FlPlace
  <2>0. flStatus # "Halted" /\ UNCHANGED <<flPos, flStatus>>
    BY <1>8 DEF FlShape, FlPlace
  <2>1. CASE flOrders' = Append(flOrders, FlOrder(fl.req)) /\ UNCHANGED flTransit
             /\ (fl' = [fl EXCEPT !.pc = "settle", !.id = Len(flOrders) + 1] \/ FlGoto("look"))
    <3>1. /\ flOrders' \in Seq(FlOrderSet) /\ Len(flOrders) + 1 \in DOMAIN flOrders' /\ Len(flOrders) + 1 \in Nat
          /\ \A i \in DOMAIN flOrders' : flOrders'[i].done <= flOrders'[i].req.qty
      BY <1>0, <2>1, Appended
    <3>2. /\ fl' \in FlAttempts
          /\ fl'.pc = "settle" => fl'.id \in DOMAIN flOrders'
      <4>1. CASE FlGoto("look")
        BY <4>1, GotoType
      <4>2. CASE fl' = [fl EXCEPT !.pc = "settle", !.id = Len(flOrders) + 1]
        BY <1>0, <3>1, <4>2 DEF FlAttempts
      <4> QED
        BY <2>1, <4>1, <4>2
    <3> QED
      BY <1>0, <1>1, <1>2, <2>0, <2>1, <3>1, <3>2 DEF FlShape
  <2>2. CASE UNCHANGED <<flOrders, flTransit>> /\ FlEndOrder(fl)
    BY <1>0, <1>3, <2>0, <2>2, EndOrderType DEF flBroker
  <2>3. CASE flTransit' = flTransit \cup {fl.req} /\ UNCHANGED flOrders /\ FlGoto("look")
    BY <1>0, <1>1, <1>2, <2>0, <2>3, GotoType DEF FlShape
  <2> QED
    BY <1>8, <2>1, <2>2, <2>3 DEF FlPlace
<1>9. CASE FlLook
  <2>1. fl' \in FlAttempts /\ (fl'.pc = "settle" => fl'.id \in DOMAIN flOrders)
    BY <1>9, LookResult
  <2>2. flStatus # "Halted" /\ UNCHANGED <<flBroker, flStatus>>
    BY <1>9 DEF FlShape, FlLook
  <2> QED
    BY <1>0, <1>1, <1>2, <2>1, <2>2 DEF FlShape, flBroker
<1>10. CASE FlSettle
  <2>1. /\ fl' \in FlAttempts /\ fl'.pc # "settle"
        /\ flOrders' \in Seq(FlOrderSet) /\ DOMAIN flOrders' = DOMAIN flOrders
        /\ \A i \in DOMAIN flOrders' : flOrders'[i].done <= flOrders'[i].req.qty
    BY <1>0, <1>10, SettleResult
  <2>2. flStatus # "Halted" /\ UNCHANGED <<flPos, flTransit, flStatus>>
    BY <1>10 DEF FlShape, FlSettle
  <2> QED
    BY <1>0, <1>1, <1>2, <2>1, <2>2 DEF FlShape
<1>11. CASE FlVerify
  <2>1. fl' \in FlAttempts /\ fl'.pc = "save"
    <3>1. FlVerdict(fl) \in BOOLEAN
      BY DEF FlVerdict
    <3>2. PICK b \in BOOLEAN : fl' = [fl EXCEPT !.pc = "save", !.flat = b]
      BY <1>11, <3>1 DEF FlVerify
    <3> QED
      BY <1>0, <3>2 DEF FlAttempts
  <2>2. flStatus # "Halted" /\ UNCHANGED <<flBroker, flStatus>>
    BY <1>11 DEF FlShape, FlVerify
  <2> QED
    BY <1>3, <2>1, <2>2
<1>12. CASE FlSave \/ FlCrash
  <2>1. fl' \in FlAttempts /\ fl'.pc = "idle" /\ UNCHANGED flBroker
    <3>1. FlIdle.pc = "idle"
      BY DEF FlIdle
    <3> QED
      BY <1>12, <3>1, RequestTypes DEF FlSave, FlCrash
  <2> QED
    BY <1>0, <1>1, <1>2, <2>1 DEF FlShape, flBroker
<1>13. ASSUME NEW i \in DOMAIN flOrders, FlExecute(i) PROVE FlShape'
  <2>1. PICK n \in Nat :
              /\ flPos' = flPos + FlSigned(flOrders[i].req.leg, n)
              /\ flOrders' \in Seq(FlOrderSet) /\ DOMAIN flOrders' = DOMAIN flOrders
              /\ flOrders[i].done + n <= flOrders[i].req.qty /\ flOrders'[i].done = flOrders[i].done + n
              /\ \A j \in DOMAIN flOrders : /\ flOrders'[j].req = flOrders[j].req
                                            /\ flOrders'[j].live => flOrders[j].live
                                            /\ j # i => flOrders'[j] = flOrders[j]
    BY <1>13, ExecuteResult
  <2>2. flPos' \in Int
    BY <1>0, <2>1 DEF FlSigned
  <2>3. \A j \in DOMAIN flOrders' : flOrders'[j].done <= flOrders'[j].req.qty
    BY <1>0, <2>1
  <2> QED
    BY <1>0, <1>1, <1>2, <1>13, <2>1, <2>2, <2>3 DEF FlExecute, FlShape
<1>14. ASSUME NEW r \in flTransit, FlLand(r) PROVE FlShape'
  <2>1. CASE flOrders' = Append(flOrders, FlOrder(r))
    <3>1. /\ flOrders' \in Seq(FlOrderSet) /\ DOMAIN flOrders \subseteq DOMAIN flOrders'
          /\ \A i \in DOMAIN flOrders' : flOrders'[i].done <= flOrders'[i].req.qty
      BY <1>0, <2>1, Appended
    <3> QED
      BY <1>0, <1>1, <1>2, <1>14, <3>1 DEF FlLand, FlShape
  <2>2. CASE UNCHANGED flOrders
    BY <1>0, <1>1, <1>2, <1>14, <2>2 DEF FlLand, FlShape
  <2> QED
    BY <1>14, <2>1, <2>2 DEF FlLand
<1>15. CASE UNCHANGED flVars
  BY <1>15 DEF flVars, FlShape
<1> QED
  BY <1>4, <1>5, <1>6, <1>7, <1>8, <1>9, <1>10, <1>11, <1>12, <1>13, <1>14, <1>15 DEF FlNext, FlStep

\* Steps of the attempt that change nothing at the broker and end up where nothing is
\* believed.
LEMMA Quiet ==
    ASSUME FlShape, SameSide, OneActive, StepKnows, UNCHANGED <<flStart, flBroker, flStatus>>,
           fl'.pc \notin {"tag", "place", "look"}, fl'.pc = "save" => ~fl'.flat
    PROVE  SameSide' /\ OneActive' /\ StepKnows'
<1>1. SameSide'
  BY DEF SameSide, flBroker
<1>2. OneActive'
  BY DEF OneActive, FlLive, Fits, flBroker
<1>3. StepKnows'
  BY DEF StepKnows, Nothing, FlLive, flBroker, FlAbs, round_quantity
<1> QED
  BY <1>1, <1>2, <1>3

LEMMA FlattenInductive == FlInv /\ [FlNext]_flVars => FlInv'
<1> SUFFICES ASSUME FlInv, [FlNext]_flVars PROVE FlInv'
  OBVIOUS
<1>1. FlShape /\ FlShape'
  BY ShapeInductive DEF FlInv
<1> SUFFICES ASSUME ~flDoubt' PROVE SameSide' /\ OneActive' /\ StepKnows'
  BY <1>1 DEF FlInv
<1>2. ~flDoubt /\ (SizesNow => Nothing)
  BY <1>1, NoDoubt
<1>3. SameSide /\ OneActive /\ StepKnows
  BY <1>2 DEF FlInv
<1>4. ASSUME UNCHANGED <<flStart, flBroker, flStatus>>, fl'.pc \notin {"tag", "place", "look"}, fl'.pc = "save" => ~fl'.flat
      PROVE  SameSide' /\ OneActive' /\ StepKnows'
  BY <1>1, <1>3, <1>4, Quiet
<1>5. CASE FlBegin
  <2>1. fl'.pc = "cancel"
    BY <1>5 DEF FlBegin, FlIdle
  <2> QED
    BY <1>4, <1>5, <2>1 DEF FlBegin
<1>6. CASE FlCancel
  <2>1. fl'.pc \in {"verify", "read"}
    BY <1>1, <1>6, GotoType DEF FlCancel, FlShape, FlAttempts
  <2>2. CASE UNCHANGED flOrders
    BY <1>4, <1>6, <2>1, <2>2 DEF FlCancel, flBroker
  <2>3. CASE flOrders' = [i \in DOMAIN flOrders |-> [flOrders[i] EXCEPT !.live = FALSE]]
    <3>1. FlLive' = {}
      <4>1. ASSUME NEW i \in DOMAIN flOrders PROVE ~[flOrders[i] EXCEPT !.live = FALSE].live
        <5>1. flOrders[i] \in FlOrderSet
          BY <1>1 DEF FlShape
        <5> QED
          BY <5>1 DEF FlOrderSet
      <4> QED
        BY <2>3, <4>1 DEF FlLive
    <3>2. /\ UNCHANGED <<flStart, flPos, flTransit, flStatus>> /\ flStatus # "Halted"
      BY <1>1, <1>6 DEF FlCancel, FlShape
    <3>3. SameSide'
      BY <1>3, <3>2 DEF SameSide
    <3>4. OneActive'
      BY <1>3, <3>1, <3>2 DEF OneActive, Fits
    <3>5. StepKnows'
      BY <2>1, <3>2 DEF StepKnows
    <3> QED
      BY <3>3, <3>4, <3>5
  <2> QED
    BY <1>6, <2>2, <2>3 DEF FlCancel
<1>7. CASE FlRead
  <2>1. /\ fl'.pc \in {"verify", "tag", "cancel"}
        /\ fl'.pc = "tag" => SizesNow /\ Fits(fl'.req.leg, fl'.req.qty)
    BY <1>1, <1>7, ReadResult
  <2>2. UNCHANGED <<flStart, flBroker, flStatus>> /\ flStatus # "Halted"
    BY <1>1, <1>7 DEF FlRead, FlShape
  <2>3. CASE fl'.pc = "tag"
    <3>1. Nothing /\ Fits(fl'.req.leg, fl'.req.qty)
      BY <1>2, <2>1, <2>3
    <3>2. StepKnows'
      BY <2>2, <2>3, <3>1 DEF StepKnows, Nothing, FlLive, Fits, flBroker
    <3>3. SameSide' /\ OneActive'
      BY <1>3, <2>2 DEF SameSide, OneActive, FlLive, Fits, flBroker
    <3> QED
      BY <3>2, <3>3
  <2> QED
    BY <1>4, <2>1, <2>2, <2>3
<1>8. CASE FlTag
  <2>1. /\ fl'.pc \in {"verify", "place", "cancel"}
        /\ fl'.pc = "place" => fl'.req.leg = fl.req.leg /\ fl'.req.qty = fl.req.qty
    BY <1>1, <1>8, TagResult
  <2>2. UNCHANGED <<flStart, flBroker, flStatus>> /\ flStatus # "Halted"
    BY <1>1, <1>8 DEF FlTag, FlShape
  <2>3. CASE fl'.pc = "place"
    <3>1. Nothing /\ Fits(fl'.req.leg, fl'.req.qty)
      BY <1>3, <1>8, <2>1, <2>3 DEF FlTag, StepKnows
    <3>2. StepKnows'
      BY <2>2, <2>3, <3>1 DEF StepKnows, Nothing, FlLive, Fits, flBroker
    <3>3. SameSide' /\ OneActive'
      BY <1>3, <2>2 DEF SameSide, OneActive, FlLive, Fits, flBroker
    <3> QED
      BY <3>2, <3>3
  <2> QED
    BY <1>4, <2>1, <2>2, <2>3
<1>9. CASE FlPlace
  <2>0. Nothing /\ Fits(fl.req.leg, fl.req.qty)
    BY <1>3, <1>9 DEF FlPlace, StepKnows
  <2>1. UNCHANGED <<flStart, flPos, flStatus>> /\ flStatus # "Halted" /\ fl.req \in FlRequests
    BY <1>1, <1>9 DEF FlPlace, FlShape, FlAttempts
  <2>2. SameSide'
    BY <1>3, <2>1 DEF SameSide
  <2>3. CASE flOrders' = Append(flOrders, FlOrder(fl.req)) /\ UNCHANGED flTransit /\ fl'.pc \in {"settle", "look"}
             /\ (fl'.pc = "look" => fl'.req = fl.req)
    <3>1. /\ FlLive' = {Len(flOrders) + 1} /\ flOrders'[Len(flOrders) + 1] = FlOrder(fl.req)
          /\ Len(flOrders) + 1 \in DOMAIN flOrders'
      BY <1>1, <2>0, <2>1, <2>3, Appended DEF Nothing
    <3>2. FlOrder(fl.req).req = fl.req /\ FlOrder(fl.req).req.qty - FlOrder(fl.req).done = fl.req.qty
      BY <2>1 DEF FlOrder, FlRequests
    <3>3. OneActive'
      BY <2>0, <2>1, <2>3, <3>1, <3>2 DEF OneActive, Nothing, Fits
    <3>4. fl'.pc = "look" => FlWithTag(fl.req.leg, fl.req.k)' # {}
      <4>1. ASSUME fl'.pc = "look" PROVE Len(flOrders) + 1 \in FlWithTag(fl.req.leg, fl.req.k)'
        BY <2>3, <3>1, <3>2, <4>1 DEF FlWithTag
      <4> QED
        BY <4>1
    <3>5. StepKnows'
      BY <2>0, <2>1, <2>3, <3>4 DEF StepKnows, Nothing
    <3> QED
      BY <2>2, <3>3, <3>5
  <2>4. CASE UNCHANGED <<flOrders, flTransit>> /\ FlEndOrder(fl)
    <3>1. fl'.pc \in {"cancel", "verify"}
      BY <1>1, <2>4, EndOrderType DEF FlShape
    <3> QED
      BY <1>4, <2>1, <2>4, <3>1 DEF flBroker
  <2>5. CASE flTransit' = flTransit \cup {fl.req} /\ UNCHANGED flOrders /\ fl'.pc = "look" /\ fl'.req = fl.req
    <3>1. FlLive' = {} /\ flTransit' = {fl.req}
      BY <2>0, <2>5 DEF Nothing, FlLive
    <3>2. OneActive'
      BY <2>0, <2>1, <3>1 DEF OneActive, Fits
    <3>3. StepKnows'
      BY <2>0, <2>1, <2>5, <3>1 DEF StepKnows, Fits
    <3> QED
      BY <2>2, <3>2, <3>3
  <2>6. FlGoto("look") => fl'.pc = "look" /\ fl'.req = fl.req
    BY <1>1, GotoType
  <2>7. fl' = [fl EXCEPT !.pc = "settle", !.id = Len(flOrders) + 1] => fl'.pc = "settle"
    BY <1>1 DEF FlShape, FlAttempts
  <2> QED
    BY <1>9, <2>3, <2>4, <2>5, <2>6, <2>7 DEF FlPlace
<1>10. CASE FlLook
  <2>1. /\ fl'.pc \in {"verify", "place", "cancel", "settle"}
        /\ fl'.pc = "place" => /\ SizesNow /\ FlWithTag(fl.req.leg, fl.req.k) = {}
                               /\ fl'.req.leg = fl.req.leg /\ fl'.req.qty = fl.req.qty
    BY <1>1, <1>10, LookResult
  <2>2. UNCHANGED <<flStart, flBroker, flStatus>> /\ flStatus # "Halted"
    BY <1>1, <1>10 DEF FlLook, FlShape
  <2>3. CASE fl'.pc = "place"
    <3>1. Nothing /\ Fits(fl'.req.leg, fl'.req.qty)
      BY <1>2, <1>3, <1>10, <2>1, <2>3 DEF FlLook, StepKnows
    <3>2. StepKnows'
      BY <2>2, <2>3, <3>1 DEF StepKnows, Nothing, FlLive, Fits, flBroker
    <3>3. SameSide' /\ OneActive'
      BY <1>3, <2>2 DEF SameSide, OneActive, FlLive, Fits, flBroker
    <3> QED
      BY <3>2, <3>3
  <2> QED
    BY <1>4, <2>1, <2>2, <2>3
<1>11. CASE FlSettle
  <2>1. /\ fl'.pc \in {"verify", "cancel"} /\ DOMAIN flOrders' = DOMAIN flOrders
        /\ \A i \in DOMAIN flOrders : /\ flOrders'[i].req = flOrders[i].req /\ flOrders'[i].done = flOrders[i].done
                                      /\ flOrders'[i].live => flOrders[i].live
    BY <1>1, <1>11, SettleResult
  <2>2. UNCHANGED <<flStart, flPos, flTransit, flStatus>> /\ flStatus # "Halted"
    BY <1>1, <1>11 DEF FlSettle, FlShape
  <2>3. SameSide' /\ StepKnows'
    BY <1>3, <2>1, <2>2 DEF SameSide, StepKnows
  <2>4. OneActive'
    BY <1>3, <2>1, <2>2 DEF OneActive, FlLive, Fits
  <2> QED
    BY <2>3, <2>4
<1>12. CASE FlVerify
  <2>1. UNCHANGED <<flStart, flBroker, flStatus>> /\ flStatus # "Halted"
    BY <1>1, <1>12 DEF FlVerify, FlShape
  <2>2. CASE fl' = [fl EXCEPT !.pc = "save", !.flat = FALSE]
    BY <1>1, <1>4, <2>1, <2>2 DEF FlShape, FlAttempts
  <2>3. CASE SizesNow /\ fl' = [fl EXCEPT !.pc = "save", !.flat = FlVerdict(fl)]
    <3>1. fl'.pc = "save" /\ (fl'.flat => FlVerdict(fl))
      <4>1. fl'.pc = "save" /\ fl'.flat = FlVerdict(fl)
        BY <1>1, <2>3 DEF FlShape, FlAttempts
      <4> QED
        BY Zenon, <4>1
    <3>2. Nothing
      BY <1>2, <2>3
    <3>3. StepKnows'
      BY <2>1, <3>1, <3>2 DEF StepKnows, Nothing, FlLive, FlVerdict, FlAbs, round_quantity, flBroker
    <3>4. SameSide' /\ OneActive'
      BY <1>3, <2>1 DEF SameSide, OneActive, FlLive, Fits, flBroker
    <3> QED
      BY <3>3, <3>4
  <2> QED
    BY Zenon, <1>12, <2>2, <2>3 DEF FlVerify
<1>13. CASE FlSave
  <2>1. fl'.pc = "idle" /\ UNCHANGED <<flStart, flBroker>>
    BY <1>13 DEF FlSave, FlIdle
  <2>2. flStatus' = "Halted" => flStatus = "Halted" \/ (fl.pc = "save" /\ fl.flat)
    BY <1>13 DEF FlSave
  <2>3. StepKnows'
    BY <1>3, <2>1, <2>2 DEF StepKnows, Nothing, FlLive, FlAbs, round_quantity, flBroker
  <2>4. SameSide' /\ OneActive'
    BY <1>3, <2>1 DEF SameSide, OneActive, FlLive, Fits, flBroker
  <2> QED
    BY <2>3, <2>4
<1>14. CASE FlCrash
  <2>1. fl'.pc = "idle"
    BY <1>14 DEF FlCrash, FlIdle
  <2> QED
    BY <1>4, <1>14, <2>1 DEF FlCrash
<1>15. ASSUME NEW i \in DOMAIN flOrders, FlExecute(i) PROVE SameSide' /\ OneActive' /\ StepKnows'
  <2>1. PICK n \in Nat :
              /\ flPos' = flPos + FlSigned(flOrders[i].req.leg, n)
              /\ flOrders' \in Seq(FlOrderSet) /\ DOMAIN flOrders' = DOMAIN flOrders
              /\ flOrders[i].done + n <= flOrders[i].req.qty /\ flOrders'[i].done = flOrders[i].done + n
              /\ \A j \in DOMAIN flOrders : /\ flOrders'[j].req = flOrders[j].req
                                            /\ flOrders'[j].live => flOrders[j].live
                                            /\ j # i => flOrders'[j] = flOrders[j]
    BY <1>1, <1>15, ExecuteResult
  <2>2. i \in FlLive /\ UNCHANGED <<flStart, flTransit, flStatus, fl>>
    BY <1>15 DEF FlExecute, FlLive
  <2>3. Fits(flOrders[i].req.leg, flOrders[i].req.qty - flOrders[i].done) /\ flTransit = {} /\ FlLive = {i}
    BY <1>3, <2>2 DEF OneActive
  <2>4. PICK leg \in FlLegs, q \in Nat, d \in Nat, p \in Int :
            leg = flOrders[i].req.leg /\ q = flOrders[i].req.qty /\ d = flOrders[i].done /\ p = flPos
    <3>1. flOrders[i] \in FlOrderSet /\ flPos \in Int
      BY <1>1 DEF FlShape
    <3> QED
      BY <3>1 DEF FlOrderSet, FlRequests
  <2>5. /\ flPos' = p + (IF leg = "Sell" THEN -n ELSE n) /\ d + n <= q
        /\ IF leg = "Sell" THEN q - d <= p ELSE p + (q - d) <= 0
    BY <2>1, <2>3, <2>4 DEF FlSigned, Fits
  <2>6. /\ IF leg = "Sell" THEN q - (d + n) <= flPos' ELSE flPos' + (q - (d + n)) <= 0
        /\ p >= 0 => flPos' >= 0
        /\ p <= 0 => flPos' <= 0
    BY <2>5
  <2>7. SameSide'
    BY <1>3, <2>2, <2>4, <2>6 DEF SameSide
  <2>8. FlLive' \subseteq {i}
    BY <2>1, <2>3 DEF FlLive
  <2>9. Fits(flOrders[i].req.leg, flOrders[i].req.qty - flOrders[i].done)'
    BY <2>1, <2>4, <2>6 DEF Fits
  <2>10. OneActive'
    BY <2>2, <2>3, <2>8, <2>9 DEF OneActive
  <2>11. FlWithTag(fl.req.leg, fl.req.k)' = FlWithTag(fl.req.leg, fl.req.k)
    BY <2>1, <2>2 DEF FlWithTag
  <2>12. StepKnows'
    BY <1>3, <2>2, <2>3, <2>11 DEF StepKnows, Nothing
  <2> QED
    BY <2>7, <2>10, <2>12
<1>16. ASSUME NEW r \in flTransit, FlLand(r) PROVE SameSide' /\ OneActive' /\ StepKnows'
  <2>1. UNCHANGED <<flStart, flPos, flStatus, fl>> /\ flTransit' = flTransit \ {r} /\ r \in FlRequests
    BY <1>1, <1>16 DEF FlLand, FlShape
  <2>2. FlLive = {} /\ flTransit = {r} /\ flTransit' = {} /\ Fits(r.leg, r.qty)
    BY <1>3, <2>1 DEF OneActive
  <2>3. fl.pc \notin {"tag", "place"} /\ ~(fl.pc = "save" /\ fl.flat) /\ flStatus # "Halted"
    BY <1>3, <2>2 DEF StepKnows, Nothing
  <2>4. SameSide'
    BY <1>3, <2>1 DEF SameSide
  <2>5. CASE UNCHANGED flOrders
    <3>1. FlLive' = {}
      BY <2>2, <2>5 DEF FlLive
    <3>2. StepKnows'
      BY <1>3, <2>1, <2>2, <2>3, <2>5, <3>1 DEF StepKnows, FlWithTag, Fits
    <3> QED
      BY <2>2, <2>4, <3>1, <3>2 DEF OneActive
  <2>6. CASE flOrders' = Append(flOrders, FlOrder(r))
    <3>1. /\ FlLive' = {Len(flOrders) + 1} /\ flOrders'[Len(flOrders) + 1] = FlOrder(r)
          /\ Len(flOrders) + 1 \in DOMAIN flOrders'
      BY <1>1, <2>1, <2>2, <2>6, Appended
    <3>2. FlOrder(r).req = r /\ FlOrder(r).req.qty - FlOrder(r).done = r.qty
      BY <2>1 DEF FlOrder, FlRequests
    <3>3. OneActive'
      BY <2>1, <2>2, <3>1, <3>2 DEF OneActive, Fits
    <3>4. ASSUME fl.pc = "look" PROVE FlWithTag(fl.req.leg, fl.req.k)' # {}
      <4>1. r.leg = fl.req.leg /\ r.k = fl.req.k
        BY <1>3, <3>4 DEF StepKnows
      <4>2. Len(flOrders) + 1 \in FlWithTag(fl.req.leg, fl.req.k)'
        BY <2>1, <3>1, <3>2, <4>1 DEF FlWithTag
      <4> QED
        BY <4>2
    <3>5. StepKnows'
      BY <2>1, <2>2, <2>3, <3>4 DEF StepKnows
    <3> QED
      BY <2>4, <3>3, <3>5
  <2> QED
    BY <1>16, <2>5, <2>6 DEF FlLand
<1>17. CASE UNCHANGED flVars
  BY <1>3, <1>17 DEF flVars, SameSide, OneActive, StepKnows, Nothing, FlLive, Fits, FlWithTag, FlAbs, round_quantity
<1> QED
  BY <1>5, <1>6, <1>7, <1>8, <1>9, <1>10, <1>11, <1>12, <1>13, <1>14, <1>15, <1>16, <1>17 DEF FlNext, FlStep

\* Over crashes, retries, faults and late requests a flatten never turns a long into a
\* short or a short into a long, and an account it reports flat holds less than a lot
\* and has nothing that could still execute, unless a quantity was read while an
\* earlier order could execute (flatten.rs place_leg, cover, verified_flat).
THEOREM FlattenReduces == FlSpec => []FlattenOnlyReduces
<1>1. FlInit => FlInv
  <2> SUFFICES ASSUME FlInit PROVE FlInv
    OBVIOUS
  <2>1. flStart \in Int /\ flPos = flStart /\ FlAbs(flStart) \in Nat
    BY FlattenAssumption DEF FlInit, FlStarts, FlAbs
  <2> DEFINE r == [leg |-> FlLegOf(flStart), k |-> 0, qty |-> FlAbs(flStart), try |-> 1]
  <2>2. r \in FlRequests /\ r.leg = FlLegOf(flStart) /\ r.qty = FlAbs(flStart)
    BY <2>1 DEF FlRequests, FlLegOf, FlLegs
  <2>3. flOrders = << >> \/ flOrders = <<FlOrder(r)>>
    BY DEF FlInit
  <2>4. /\ flTransit = {} /\ flStatus = "Flattening" /\ fl = FlIdle /\ flDoubt = FALSE /\ fl.pc = "idle"
    BY DEF FlInit, FlIdle
  <2> HIDE DEF r
  <2>5. FlOrder(r) \in FlOrderSet /\ FlOrder(r).req = r /\ FlOrder(r).done = 0
    BY <2>2, RequestTypes DEF FlOrder
  <2>6. /\ flOrders \in Seq(FlOrderSet)
        /\ \A i \in DOMAIN flOrders : i = 1 /\ flOrders[i] = FlOrder(r)
    <3>1. PICK o \in FlOrderSet : o = FlOrder(r)
      BY <2>5
    <3>2. CASE flOrders = << >>
      BY <3>2
    <3>3. CASE flOrders = <<o>>
      BY <3>1, <3>3
    <3> QED
      BY <2>3, <3>1, <3>2, <3>3
  <2>7. 0 <= r.qty /\ Fits(r.leg, r.qty - 0)
    BY <2>1, <2>2 DEF Fits, FlLegOf, FlAbs
  <2>8. FlShape
    BY <2>1, <2>4, <2>5, <2>6, <2>7, RequestTypes DEF FlShape
  <2>9. OneActive
    BY <2>4, <2>5, <2>6, <2>7 DEF OneActive, FlLive
  <2> QED
    BY <2>1, <2>4, <2>8, <2>9 DEF FlInv, SameSide, StepKnows
<1>2. FlInv => FlattenOnlyReduces
  <2> SUFFICES ASSUME FlInv, ~flDoubt PROVE FlattenOnlyReduces
    BY DEF FlattenOnlyReduces
  <2>1. flPos \in Int /\ FlAbs(flPos) \in Nat /\ FlLot \in Nat
    BY FlattenAssumption DEF FlInv, FlShape, FlAbs
  <2>2. flStatus = "Halted" => FlAbs(flPos) < FlLot
    <3>1. FlAbs(flPos) < round_quantity(FlAbs(flPos)) + FlLot
      BY <2>1, RoundDown
    <3>2. flStatus = "Halted" => round_quantity(FlAbs(flPos)) = 0
      BY DEF FlInv, StepKnows
    <3> HIDE DEF FlAbs, round_quantity
    <3> QED
      BY <2>1, <3>1, <3>2
  <2> QED
    BY <2>2 DEF FlInv, SameSide, StepKnows, Nothing, FlattenOnlyReduces
<1> QED
  BY <1>1, <1>2, FlattenInductive, PTL DEF FlSpec

-----------------------------------------------------------------------------
(* Alert delivery. *)

AdLocal == [pc : {"idle", "ingest", "list", "send", "mark"}, batch : SUBSET Nat,
            inserts : SUBSET AdPairs, sends : SUBSET AdPairs, ok : BOOLEAN]

\* The types, without the bounds of a model; the clock is ahead of everything.
AdTypes ==
    /\ adClock \in Nat /\ adMark \in 0..adClock
    /\ adAlerts \in Seq(AdAlert) /\ \A i \in AdIds : adAlerts[i].at \in 0..adClock
    /\ adRows \in [AdPairs -> {"absent", "pending", "sent", "error"}]
    /\ ad \in AdLocal /\ ad.batch \subseteq AdIds /\ (ad.pc = "ingest" => ad.batch # {})
    /\ adMails \in [AdPairs -> Nat] /\ adUnmarked \in [AdPairs -> Nat]

LEMMA AlertsType ==
    ASSUME AdTypes
    PROVE  /\ adAlerts \in [AdIds -> AdAlert] /\ AdIds = 1..Len(adAlerts) /\ Len(adAlerts) \in Nat
           /\ AdIds \subseteq Nat /\ IsFiniteSet(AdIds)
           /\ \A i \in AdIds : /\ adAlerts[i] \in AdAlert /\ adAlerts[i].at \in Nat /\ adAlerts[i].key \in AdKeys
                               /\ adAlerts[i].committed \in BOOLEAN
<1>1. adAlerts \in Seq(AdAlert)
  BY DEF AdTypes
<1>2. adAlerts \in [AdIds -> AdAlert] /\ AdIds = 1..Len(adAlerts) /\ Len(adAlerts) \in Nat
  BY <1>1 DEF AdIds
<1>3. IsFiniteSet(AdIds)
  BY <1>2, FS_Interval
<1>4. \A i \in AdIds : adAlerts[i] \in AdAlert
  BY <1>2
<1> QED
  BY <1>2, <1>3, <1>4 DEF AdAlert

\* The newest created_at of a batch, and the one the watermark is about to reach.
LEMMA NewestType ==
    ASSUME AdTypes
    PROVE  /\ AdPassing \in 0..adClock /\ AdPassing >= adMark
           /\ ad.batch # {} => /\ AdNewest \in 0..adClock
                               /\ \E m \in ad.batch : AdNewest = adAlerts[m].at
                               /\ \A i \in ad.batch : AdNewest >= adAlerts[i].at
                               /\ AdPassing >= AdNewest
<1> DEFINE S == {adAlerts[i].at : i \in ad.batch}
           Q == {adMark} \cup S
<1>1. S \in SUBSET (0..adClock) /\ Q \in SUBSET (0..adClock) /\ Q # {} /\ adClock \in Nat
  BY DEF AdTypes
<1>2. Max(Q) \in Q /\ \A y \in Q : Max(Q) >= y
  BY <1>1, MaxOfSet
<1>3. ASSUME ad.batch # {} PROVE Max(S) \in S /\ \A y \in S : Max(S) >= y
  <2>1. S # {}
    BY <1>3
  <2> QED
    BY <1>1, <2>1, MaxOfSet
<1> QED
  BY <1>1, <1>2, <1>3 DEF AdPassing, AdNewest

\* A batch takes the oldest alerts: what is older than one of it is in it.
LEMMA OldestFirst ==
    ASSUME AdTypes, NEW since \in Nat, NEW i \in AdNewer(since), NEW m \in alerts_since(since),
           adAlerts[i].at < adAlerts[m].at
    PROVE  i \in alerts_since(since)
<1> DEFINE D(x) == {j \in AdNewer(since) : AdBefore(j, x)}
<1>1. i \in AdIds /\ m \in AdIds /\ AdNewer(since) \subseteq AdIds
  BY DEF AdNewer, alerts_since
<1>2. ASSUME NEW j \in D(i) PROVE j \in D(m)
  <2>1. j \in AdIds /\ adAlerts[j].at \in Nat /\ adAlerts[i].at \in Nat /\ adAlerts[m].at \in Nat
    BY <1>1, AlertsType
  <2>2. adAlerts[j].at <= adAlerts[i].at
    BY <2>1 DEF AdBefore
  <2> QED
    BY <2>1, <2>2 DEF AdBefore
<1>3. D(i) \subseteq D(m) /\ D(m) \subseteq AdIds
  BY <1>1, <1>2
<1>4. IsFiniteSet(D(m))
  BY <1>3, AlertsType, FS_Subset
<1>5. Cardinality(D(i)) <= Cardinality(D(m)) /\ Cardinality(D(i)) \in Nat /\ Cardinality(D(m)) \in Nat
  BY <1>3, <1>4, FS_Subset, FS_CardinalityType
<1>6. Cardinality(D(m)) < AdBatch
  BY DEF alerts_since
<1>7. Cardinality(D(i)) < AdBatch
  <2> HIDE DEF D
  <2> QED
    BY <1>5, <1>6, AlertAssumption
<1> QED
  BY <1>7 DEF alerts_since

-----------------------------------------------------------------------------
(* Every step keeps the types. *)

LEMMA AdTypeStep == AdTypes /\ [AdNext]_adVars => AdTypes'
<1> SUFFICES ASSUME AdTypes, [AdNext]_adVars PROVE AdTypes'
  OBVIOUS
<1> DEFINE Rest == UNCHANGED <<adClock, adAlerts, adMark>>
<1>0. /\ AdIdle \in AdLocal /\ AdIdle.batch = {}
      /\ [AdIdle EXCEPT !.pc = "list"] \in AdLocal /\ [AdIdle EXCEPT !.pc = "list"].batch = {}
      /\ ad \in AdLocal /\ ad.batch \subseteq AdIds /\ (ad.pc = "ingest" => ad.batch # {})
      /\ AdIdle.pc = "idle" /\ [AdIdle EXCEPT !.pc = "list"].pc = "list"
  BY DEF AdIdle, AdLocal, AdTypes
<1> DEFINE LocalOK == ad' \in AdLocal /\ ad'.batch \subseteq AdIds /\ (ad'.pc = "ingest" => ad'.batch # {})
<1>1. ASSUME Rest, LocalOK, UNCHANGED <<adRows, adMails, adUnmarked>>
      PROVE  AdTypes'
  BY <1>1 DEF AdTypes, AdIds
<1>2. CASE AdTick
  <2>1. adClock' \in Nat /\ adClock <= adClock'
    BY <1>2 DEF AdTick, AdTypes
  <2>2. 0..adClock \subseteq 0..adClock'
    BY <2>1 DEF AdTypes
  <2> QED
    BY <1>2, <2>1, <2>2 DEF AdTick, AdTypes, AdIds
<1>3. ASSUME NEW key \in AdKeys, Notify(key) PROVE AdTypes'
  <2> DEFINE a == [key |-> key, at |-> adClock, committed |-> FALSE, late |-> FALSE, cut |-> FALSE]
  <2>1. a \in AdAlert /\ a.at = adClock /\ adAlerts \in Seq(AdAlert)
    BY DEF AdAlert, AdTypes
  <2> HIDE DEF a
  <2>2. adAlerts' = Append(adAlerts, a)
    BY <1>3 DEF Notify, a
  <2>3. /\ adAlerts' \in Seq(AdAlert) /\ AdIds' = AdIds \cup {Len(adAlerts) + 1}
        /\ \A i \in AdIds : adAlerts'[i] = adAlerts[i] /\ adAlerts'[Len(adAlerts) + 1] = a
    BY <2>1, <2>2 DEF AdIds
  <2>4. adAlerts'[Len(adAlerts) + 1] = a
    BY <2>1, <2>2
  <2>5. adClock \in 0..adClock
    BY DEF AdTypes
  <2> QED
    BY <1>3, <2>1, <2>3, <2>4, <2>5 DEF Notify, AdTypes
<1>4. ASSUME NEW i \in AdIds, NotifyCommits(i) PROVE AdTypes'
  <2>0. PICK late \in BOOLEAN : adAlerts' = [adAlerts EXCEPT ![i].committed = TRUE, ![i].late = late]
    <3> DEFINE l == AdPassing >= adAlerts[i].at
    <3>1. l = TRUE \/ l = FALSE
      BY AlertsType, NewestType
    <3>2. adAlerts' = [adAlerts EXCEPT ![i].committed = TRUE, ![i].late = l]
      BY <1>4 DEF NotifyCommits
    <3> HIDE DEF l
    <3> QED
      BY <3>1, <3>2
  <2>1. /\ adAlerts' \in [AdIds -> AdAlert] /\ AdIds' = AdIds
        /\ \A j \in AdIds : adAlerts'[j].at = adAlerts[j].at
    BY <2>0, AlertsType DEF AdIds, AdAlert
  <2>2. adAlerts' \in Seq(AdAlert)
    BY <2>1, AlertsType
  <2> QED
    BY <1>4, <2>1, <2>2 DEF NotifyCommits, AdTypes
<1>5. CASE Ingest
  <2>1. alerts_since(adMark) \subseteq AdIds
    BY DEF alerts_since, AdNewer
  <2>2. AdIds \subseteq Nat /\ (AdChannels \X {adAlerts[i].key : i \in alerts_since(adMark)}) \subseteq AdPairs
    BY <2>1, AlertsType DEF AdPairs
  <2>3. LocalOK
    BY <1>0, <1>5, <2>1, <2>2 DEF Ingest, AdLocal
  <2> QED
    BY <1>1, <1>5, <2>3 DEF Ingest
<1>6. ASSUME NEW p \in AdPairs, InsertRow(p) PROVE AdTypes'
  <2>1. LocalOK
    BY <1>0, <1>6 DEF InsertRow, AdLocal
  <2>2. adRows' \in [AdPairs -> {"absent", "pending", "sent", "error"}]
    BY <1>6 DEF InsertRow, Inserted, AdTypes
  <2> QED
    BY <1>6, <2>1, <2>2 DEF InsertRow, AdTypes, AdIds
<1>7. CASE MoveWatermark
  <2>1. /\ adAlerts' \in [AdIds -> AdAlert] /\ AdIds' = AdIds
        /\ \A j \in AdIds : adAlerts'[j].at = adAlerts[j].at
    BY <1>7, AlertsType DEF MoveWatermark, AdIds, AdAlert
  <2>2. adAlerts' \in Seq(AdAlert)
    BY <2>1, AlertsType
  <2>3. adMark' \in 0..adClock
    BY <1>0, <1>7, NewestType DEF MoveWatermark
  <2> QED
    BY <1>0, <1>7, <2>1, <2>2, <2>3 DEF MoveWatermark, AdTypes
<1>8. CASE ListUndelivered \/ TickEnds
  <2>1. LocalOK
    BY <1>0, <1>8 DEF ListUndelivered, TickEnds, AdLocal
  <2> QED
    BY <1>1, <1>8, <2>1 DEF ListUndelivered, TickEnds
<1>9. ASSUME NEW p \in AdPairs, SendMail(p) PROVE AdTypes'
  <2>1. LocalOK
    <3>1. PICK ok \in BOOLEAN : ad' = [ad EXCEPT !.pc = "mark", !.inserts = {p}, !.ok = ok]
      BY <1>9 DEF SendMail
    <3> QED
      BY <1>0, <3>1 DEF AdLocal
  <2>2. adMails' \in [AdPairs -> Nat]
    BY <1>9 DEF SendMail, AdTypes
  <2> QED
    BY <1>9, <2>1, <2>2 DEF SendMail, AdTypes, AdIds
<1>10. \A p : Unmarked(p) \in [AdPairs -> Nat]
  <2> SUFFICES ASSUME NEW p PROVE [adUnmarked EXCEPT ![p] = @ + 1] \in [AdPairs -> Nat]
    BY DEF Unmarked, AdTypes
  <2>1. adUnmarked \in [AdPairs -> Nat]
    BY DEF AdTypes
  <2>2. CASE p \in AdPairs
    <3>1. adUnmarked[p] + 1 \in Nat
      BY <2>1, <2>2
    <3> QED
      BY <2>1, <3>1
  <2>3. CASE p \notin AdPairs
    BY <2>1, <2>3
  <2> QED
    BY <2>2, <2>3
<1>11. ASSUME NEW p \in AdPairs, MarkRow(p) PROVE AdTypes'
  <2>1. LocalOK
    <3>1. CASE ad' = AdIdle
      BY <1>0, <3>1
    <3>2. CASE ad' = [ad EXCEPT !.pc = "send", !.sends = @ \ {p}, !.inserts = {}, !.ok = FALSE]
      BY <1>0, <3>2 DEF AdLocal
    <3> QED
      BY <1>11, <3>1, <3>2 DEF MarkRow
  <2>2. adRows' \in [AdPairs -> {"absent", "pending", "sent", "error"}] /\ adUnmarked' \in [AdPairs -> Nat]
    BY <1>10, <1>11 DEF MarkRow, AdTypes
  <2> QED
    BY <1>11, <2>1, <2>2 DEF MarkRow, AdTypes, AdIds
<1>12. CASE AdRestart
  <2>1. adUnmarked' \in [AdPairs -> Nat]
    BY <1>10, <1>12 DEF AdRestart, AdTypes
  <2>2. adMark' \in 0..adClock
    BY <1>12 DEF AdRestart, AdTypes
  <2> QED
    BY <1>0, <1>12, <2>1, <2>2 DEF AdRestart, AdTypes, AdIds
<1>13. CASE UNCHANGED adVars
  BY <1>0, <1>1, <1>13 DEF adVars
<1> QED
  BY <1>2, <1>3, <1>4, <1>5, <1>6, <1>7, <1>8, <1>9, <1>11, <1>12, <1>13 DEF AdNext, AdWorker

LEMMA AdTypeInit == AdInit => AdTypes
<1> SUFFICES ASSUME AdInit PROVE AdTypes
  OBVIOUS
<1>1. AdIds = {} /\ adAlerts \in Seq(AdAlert)
  BY DEF AdInit, AdIds
<1>2. ad \in AdLocal /\ ad.batch = {} /\ ad.pc = "idle"
  BY DEF AdInit, AdIdle, AdLocal
<1> QED
  BY <1>1, <1>2 DEF AdInit, AdTypes

LEMMA AdTypeInvariant == AdSpec => []AdTypes
BY AdTypeInit, AdTypeStep, PTL DEF AdSpec

-----------------------------------------------------------------------------
(* One e-mail per key. *)

\* The row says sent; an accepted e-mail waits for its mark.
SentRow(p) == IF adRows[p] = "sent" THEN 1 ELSE 0
InFlight(p) == IF ad.pc = "mark" /\ ad.ok /\ p \in ad.inserts THEN 1 ELSE 0

\* What a tick is about to send is pending, one row of it is being marked, and every
\* accepted e-mail is in exactly one of three places.
MailInv ==
    /\ ad.pc \in {"send", "mark"} => \A p \in ad.sends : adRows[p] = "pending"
    /\ ad.pc = "mark" => \E p \in ad.sends : ad.inserts = {p}
    /\ \A p \in AdPairs : adMails[p] = adUnmarked[p] + SentRow(p) + InFlight(p)

LEMMA MailStep == AdTypes /\ MailInv /\ [AdNext]_adVars => MailInv'
<1> SUFFICES ASSUME AdTypes, MailInv, [AdNext]_adVars PROVE MailInv'
  OBVIOUS
<1>0. /\ ad \in AdLocal /\ adRows \in [AdPairs -> {"absent", "pending", "sent", "error"}]
      /\ adMails \in [AdPairs -> Nat] /\ adUnmarked \in [AdPairs -> Nat]
      /\ \A p \in AdPairs : adMails[p] \in Nat /\ adUnmarked[p] \in Nat
  BY DEF AdTypes
<1>1. ASSUME UNCHANGED <<adRows, adMails, adUnmarked>>, ad'.pc \notin {"send", "mark"}, ad.pc # "mark" PROVE MailInv'
  BY <1>1 DEF MailInv, SentRow, InFlight
<1>2. AdIdle.pc = "idle" /\ [AdIdle EXCEPT !.pc = "list"].pc = "list"
  BY DEF AdIdle
<1>3. CASE UNCHANGED <<ad, adRows, adMails, adUnmarked>>
  BY <1>3 DEF MailInv, SentRow, InFlight
<1>4. CASE Ingest \/ MoveWatermark \/ TickEnds
  <2>1. ad'.pc \notin {"send", "mark"} /\ ad.pc # "mark"
    BY <1>0, <1>2, <1>4 DEF Ingest, MoveWatermark, TickEnds, AdLocal
  <2> QED
    BY <1>1, <1>4, <2>1 DEF Ingest, MoveWatermark, TickEnds
<1>5. CASE ListUndelivered
  <2>1. CASE ad' = AdIdle
    BY <1>1, <1>2, <1>5, <2>1 DEF ListUndelivered
  <2>2. CASE ad' = [ad EXCEPT !.pc = "send", !.sends = {p \in AdPairs : adRows[p] = "pending"}]
    <3>1. ad'.pc = "send" /\ ad'.sends = {p \in AdPairs : adRows[p] = "pending"} /\ ad.pc # "mark"
      BY <1>0, <1>5, <2>2 DEF AdLocal, ListUndelivered
    <3> QED
      BY <1>5, <3>1 DEF ListUndelivered, MailInv, SentRow, InFlight
  <2> QED
    BY <1>5, <2>1, <2>2 DEF ListUndelivered
<1>6. ASSUME NEW p \in AdPairs, InsertRow(p) PROVE MailInv'
  <2>1. ad'.pc \notin {"send", "mark"} /\ ad.pc # "mark"
    BY <1>0, <1>2, <1>6 DEF InsertRow, AdLocal
  <2>2. \A q \in AdPairs : adRows'[q] = "sent" <=> adRows[q] = "sent"
    BY <1>0, <1>6 DEF InsertRow, Inserted
  <2> QED
    BY <1>6, <2>1, <2>2 DEF InsertRow, MailInv, SentRow, InFlight
<1>7. ASSUME NEW p \in AdPairs, SendMail(p) PROVE MailInv'
  <2>1. PICK ok \in BOOLEAN : /\ ad' = [ad EXCEPT !.pc = "mark", !.inserts = {p}, !.ok = ok]
                              /\ adMails' = IF ok THEN [adMails EXCEPT ![p] = @ + 1] ELSE adMails
    BY <1>7 DEF SendMail
  <2>2. ad'.pc = "mark" /\ ad'.inserts = {p} /\ ad'.ok = ok /\ ad'.sends = ad.sends
    BY <1>0, <2>1 DEF AdLocal
  <2>3. ad.pc = "send" /\ p \in ad.sends /\ adRows' = adRows /\ adUnmarked' = adUnmarked
    BY <1>7 DEF SendMail
  <2>4. ASSUME NEW q \in AdPairs PROVE adMails'[q] = adUnmarked'[q] + SentRow(q)' + InFlight(q)'
    <3>1. InFlight(q) = 0 /\ SentRow(q)' = SentRow(q) /\ adMails[q] = adUnmarked[q] + SentRow(q)
      <4>1. InFlight(q) = 0 /\ SentRow(q)' = SentRow(q)
        BY <2>3 DEF InFlight, SentRow
      <4> QED
        BY <1>0, <4>1 DEF MailInv, SentRow
    <3>2. InFlight(q)' = IF ok /\ q = p THEN 1 ELSE 0
      BY <2>2 DEF InFlight
    <3>3. adMails'[q] = IF ok /\ q = p THEN adMails[q] + 1 ELSE adMails[q]
      BY <1>0, <2>1
    <3>4. SentRow(q) \in Nat
      BY DEF SentRow
    <3> QED
      BY <1>0, <2>3, <3>1, <3>2, <3>3, <3>4
  <2> QED
    BY <2>2, <2>3, <2>4 DEF MailInv
<1>8. ASSUME NEW p, ad.pc = "mark", ad.inserts = {p}, p \in AdPairs, adUnmarked' = Unmarked(p), ad' = AdIdle,
             UNCHANGED <<adRows, adMails>>
      PROVE  MailInv'
  <2>1. ASSUME NEW q \in AdPairs PROVE adMails'[q] = adUnmarked'[q] + SentRow(q)' + InFlight(q)'
    <3>1. InFlight(q)' = 0 /\ SentRow(q)' = SentRow(q) /\ SentRow(q) \in Nat
      BY <1>2, <1>8 DEF InFlight, SentRow
    <3>2. InFlight(q) = IF ad.ok /\ q = p THEN 1 ELSE 0
      BY <1>8 DEF InFlight
    <3>3. adUnmarked'[q] = IF ad.ok /\ q = p THEN adUnmarked[q] + 1 ELSE adUnmarked[q]
      BY <1>0, <1>8 DEF Unmarked
    <3>4. adMails[q] = adUnmarked[q] + SentRow(q) + InFlight(q) /\ adMails'[q] = adMails[q]
      BY <1>8 DEF MailInv
    <3> QED
      BY <1>0, <3>1, <3>2, <3>3, <3>4
  <2> QED
    BY <1>2, <1>8, <2>1 DEF MailInv
<1>9. ASSUME NEW p \in AdPairs, MarkRow(p) PROVE MailInv'
  <2>0. ad.pc = "mark" /\ ad.inserts = {p} /\ p \in ad.sends /\ adRows[p] = "pending"
        /\ \A q \in ad.sends : adRows[q] = "pending"
    BY <1>9 DEF MarkRow, MailInv
  <2>1. CASE ad' = AdIdle /\ adUnmarked' = Unmarked(p) /\ UNCHANGED adRows
    BY <1>8, <1>9, <2>0, <2>1 DEF MarkRow
  <2>2. CASE /\ adRows' = [adRows EXCEPT ![p] = IF @ # "pending" THEN @ ELSE IF ad.ok THEN "sent" ELSE "error"]
             /\ ad' = [ad EXCEPT !.pc = "send", !.sends = @ \ {p}, !.inserts = {}, !.ok = FALSE]
             /\ UNCHANGED adUnmarked
    <3>1. ad'.pc = "send" /\ ad'.sends = ad.sends \ {p} /\ ad.sends \subseteq AdPairs
      BY <1>0, <2>2 DEF AdLocal
    <3>2. /\ adRows'[p] = IF ad.ok THEN "sent" ELSE "error"
          /\ \A q \in AdPairs : q # p => adRows'[q] = adRows[q]
      BY <1>0, <2>0, <2>2
    <3>3. ASSUME NEW q \in AdPairs PROVE adMails'[q] = adUnmarked'[q] + SentRow(q)' + InFlight(q)'
      <4>1. SentRow(q)' + InFlight(q)' = SentRow(q) + InFlight(q)
        BY <2>0, <3>1, <3>2 DEF SentRow, InFlight
      <4>2. adMails[q] = adUnmarked[q] + SentRow(q) + InFlight(q) /\ adMails'[q] = adMails[q] /\ adUnmarked' = adUnmarked
        BY <1>9, <2>2 DEF MailInv, MarkRow
      <4>3. SentRow(q) \in Nat /\ InFlight(q) \in Nat /\ SentRow(q)' \in Nat /\ InFlight(q)' \in Nat
        BY DEF SentRow, InFlight
      <4> QED
        BY <1>0, <4>1, <4>2, <4>3
    <3>4. \A q \in ad'.sends : adRows'[q] = "pending"
      BY <2>0, <3>1, <3>2
    <3> QED
      BY <3>1, <3>3, <3>4 DEF MailInv
  <2> QED
    BY <1>9, <2>1, <2>2 DEF MarkRow
<1>10. CASE AdRestart
  <2>1. ad' = AdIdle /\ UNCHANGED <<adRows, adMails>>
    BY <1>10 DEF AdRestart
  <2>2. CASE ad.pc # "mark"
    BY <1>1, <1>2, <1>10, <2>1, <2>2 DEF AdRestart
  <2>3. CASE ad.pc = "mark"
    <3>1. PICK p \in ad.sends : ad.inserts = {p}
      BY <2>3 DEF MailInv
    <3>2. p \in AdPairs /\ (CHOOSE q \in ad.inserts : TRUE) = p
      BY <1>0, <3>1 DEF AdLocal
    <3>3. adUnmarked' = Unmarked(p)
      BY <1>10, <2>3, <3>2 DEF AdRestart
    <3> QED
      BY <1>8, <2>1, <2>3, <3>1, <3>2, <3>3
  <2> QED
    BY <2>2, <2>3
<1>11. CASE AdTick \/ (\E key \in AdKeys : Notify(key)) \/ (\E i \in AdIds : NotifyCommits(i)) \/ UNCHANGED adVars
  BY <1>3, <1>11 DEF AdTick, Notify, NotifyCommits, adVars
<1> QED
  BY <1>4, <1>5, <1>6, <1>7, <1>9, <1>10, <1>11 DEF AdNext, AdWorker

\* A person gets one e-mail per channel and key, and one more for each accepted e-mail
\* whose mark was lost: over any number of alerts, batches, failures and restarts
\* (worker.rs ingest, send_pending; the unique key and the once-only marks).
THEOREM OneMailEach == AdSpec => []OneMailPerKey
<1>1. AdInit => MailInv
  BY DEF AdInit, AdIdle, MailInv, SentRow, InFlight
<1>2. AdTypes /\ MailInv => OneMailPerKey
  <2> SUFFICES ASSUME AdTypes, MailInv, NEW p \in AdPairs PROVE adMails[p] <= 1 + adUnmarked[p]
    BY DEF OneMailPerKey
  <2>1. SentRow(p) + InFlight(p) \in {0, 1}
    BY DEF MailInv, SentRow, InFlight
  <2>2. adMails[p] = adUnmarked[p] + SentRow(p) + InFlight(p) /\ adUnmarked[p] \in Nat
    BY DEF MailInv, AdTypes
  <2>3. SentRow(p) \in Nat /\ InFlight(p) \in Nat
    BY DEF SentRow, InFlight
  <2> QED
    BY <2>1, <2>2, <2>3
<1> QED
  BY <1>1, <1>2, MailStep, AdTypeInvariant, PTL DEF AdSpec

-----------------------------------------------------------------------------
(* No alert passed over. *)

\* The watermark will take with it only what the batch has, or what is late or cut off,
\* and the batch has its rows or is about to insert them.
BatchInv ==
    ad.pc = "ingest" =>
        /\ \A i \in AdIds : /\ adAlerts[i].committed /\ ~adAlerts[i].late
                            /\ adAlerts[i].at > adMark /\ adAlerts[i].at < AdNewest
                            => i \in ad.batch
        /\ \A i \in ad.batch, c \in AdChannels :
              <<c, adAlerts[i].key>> \in ad.inserts \/ adRows[<<c, adAlerts[i].key>>] # "absent"

LEMMA PassedStep == AdTypes /\ NoAlertPassedOver /\ BatchInv /\ [AdNext]_adVars => NoAlertPassedOver' /\ BatchInv'
<1> SUFFICES ASSUME AdTypes, NoAlertPassedOver, BatchInv, [AdNext]_adVars PROVE NoAlertPassedOver' /\ BatchInv'
  OBVIOUS
<1>0. /\ ad \in AdLocal /\ adRows \in [AdPairs -> {"absent", "pending", "sent", "error"}]
      /\ adMark \in Nat /\ ad.batch \subseteq AdIds
      /\ AdIdle.pc = "idle" /\ [AdIdle EXCEPT !.pc = "list"].pc = "list"
  BY DEF AdTypes, AdIdle
<1>1. \A i \in AdIds : adAlerts[i].at \in Nat /\ adAlerts[i].key \in AdKeys
  BY AlertsType
<1>2. ASSUME UNCHANGED <<adAlerts, adMark>>, ad'.pc # "ingest", \A p \in AdPairs : adRows[p] # "absent" => adRows'[p] # "absent"
      PROVE  NoAlertPassedOver' /\ BatchInv'
  BY <1>1, <1>2 DEF NoAlertPassedOver, BatchInv, AdIds, AdPairs
<1>3. CASE Ingest
  <2>1. CASE ad' = [ad EXCEPT !.pc = "list"]
    BY <1>0, <1>2, <1>3, <2>1 DEF Ingest, AdLocal
  <2>2. CASE ad' = [ad EXCEPT !.pc = "ingest", !.batch = alerts_since(adMark),
                              !.inserts = AdChannels \X {adAlerts[i].key : i \in alerts_since(adMark)}]
             /\ alerts_since(adMark) # {}
    <3>1. ad'.batch = alerts_since(adMark) /\ ad'.inserts = AdChannels \X {adAlerts[i].key : i \in alerts_since(adMark)}
      BY <1>0, <2>2 DEF AdLocal
    <3>2. UNCHANGED <<adAlerts, adMark, adRows>>
      BY <1>3 DEF Ingest
    <3>3. NoAlertPassedOver'
      BY <3>2 DEF NoAlertPassedOver, AdIds
    <3>4. ASSUME NEW i \in AdIds, adAlerts[i].committed, adAlerts[i].at > adMark, adAlerts[i].at < AdNewest'
          PROVE  i \in alerts_since(adMark)
      <4>0. alerts_since(adMark) \subseteq AdIds
        BY DEF alerts_since, AdNewer
      <4> DEFINE S == {adAlerts[j].at : j \in alerts_since(adMark)}
      <4>1. S \in SUBSET (0..adClock) /\ S # {} /\ adClock \in Nat
        BY <2>2, <4>0 DEF AdTypes
      <4>2. Max(S) \in S
        BY <4>1, MaxOfSet
      <4>3. AdNewest' = Max(S)
        BY <3>1, <3>2 DEF AdNewest
      <4>4. PICK m \in alerts_since(adMark) : adAlerts[m].at = AdNewest'
        BY <4>2, <4>3
      <4>5. i \in AdNewer(adMark)
        BY <3>4 DEF AdNewer
      <4> QED
        BY <1>0, <3>4, <4>4, <4>5, OldestFirst
    <3>5. \A i \in alerts_since(adMark), c \in AdChannels : <<c, adAlerts[i].key>> \in ad'.inserts
      BY <3>1
    <3> QED
      BY <3>1, <3>2, <3>3, <3>4, <3>5 DEF BatchInv, AdIds
  <2> QED
    BY <1>3, <2>1, <2>2 DEF Ingest
<1>4. ASSUME NEW p \in AdPairs, InsertRow(p) PROVE NoAlertPassedOver' /\ BatchInv'
  <2>1. CASE ad' = [AdIdle EXCEPT !.pc = "list"] /\ UNCHANGED adRows
    BY <1>0, <1>2, <1>4, <2>1 DEF InsertRow
  <2>2. CASE adRows' = Inserted(p) /\ ad' = [ad EXCEPT !.inserts = @ \ {p}]
    <3>1. ad'.batch = ad.batch /\ ad'.inserts = ad.inserts \ {p} /\ ad'.pc = ad.pc /\ ad.pc = "ingest"
      BY <1>0, <1>4, <2>2 DEF AdLocal, InsertRow
    <3>2. UNCHANGED <<adAlerts, adMark>>
      BY <1>4 DEF InsertRow
    <3>3. adRows'[p] # "absent" /\ \A q \in AdPairs : adRows[q] # "absent" => adRows'[q] # "absent"
      BY <1>0, <2>2 DEF Inserted
    <3>4. NoAlertPassedOver'
      BY <1>1, <3>2, <3>3 DEF NoAlertPassedOver, AdIds, AdPairs
    <3>5. AdNewest' = AdNewest
      BY <3>1, <3>2 DEF AdNewest
    <3>6. \A i \in ad.batch, c \in AdChannels : <<c, adAlerts[i].key>> \in AdPairs
      BY <1>0, <1>1 DEF AdPairs
    <3>7. \A i \in ad.batch, c \in AdChannels :
              <<c, adAlerts[i].key>> \in ad'.inserts \/ adRows'[<<c, adAlerts[i].key>>] # "absent"
      BY <3>1, <3>3, <3>6 DEF BatchInv
    <3> QED
      BY <3>1, <3>2, <3>4, <3>5, <3>7 DEF BatchInv, AdIds
  <2> QED
    BY <1>4, <2>1, <2>2 DEF InsertRow
<1>5. CASE MoveWatermark
  <2>1. /\ ad.pc = "ingest" /\ ad.inserts = {} /\ adMark' = AdNewest /\ adRows' = adRows /\ ad'.pc = "list"
        /\ AdNewest \in Nat /\ \A i \in ad.batch : AdNewest >= adAlerts[i].at
    BY <1>0, <1>5, NewestType DEF MoveWatermark, AdTypes
  <2>2. /\ AdIds' = AdIds
        /\ \A i \in AdIds : /\ adAlerts'[i].committed = adAlerts[i].committed /\ adAlerts'[i].late = adAlerts[i].late
                            /\ adAlerts'[i].at = adAlerts[i].at /\ adAlerts'[i].key = adAlerts[i].key
                            /\ ~adAlerts'[i].cut => /\ ~adAlerts[i].cut
                                                    /\ adAlerts[i].committed /\ adAlerts[i].at = AdNewest => i \in ad.batch
    BY <1>5, AlertsType DEF MoveWatermark, AdIds, AdAlert
  <2>3. ASSUME NEW i \in AdIds, adAlerts[i].committed, ~adAlerts[i].late, ~adAlerts'[i].cut, adAlerts[i].at <= AdNewest,
               NEW c \in AdChannels
        PROVE  adRows[<<c, adAlerts[i].key>>] # "absent"
    <3>1. CASE i \in ad.batch
      BY <2>1, <3>1 DEF BatchInv
    <3>2. CASE i \notin ad.batch
      <4>1. adAlerts[i].at <= adMark /\ ~adAlerts[i].cut
        BY <1>0, <1>1, <2>1, <2>2, <2>3, <3>2 DEF BatchInv
      <4> QED
        BY <2>3, <4>1 DEF NoAlertPassedOver
    <3> QED
      BY <3>1, <3>2
  <2> QED
    BY <2>1, <2>2, <2>3 DEF NoAlertPassedOver, BatchInv
<1>6. CASE ListUndelivered \/ TickEnds
  <2>1. ad'.pc # "ingest"
    BY <1>0, <1>6 DEF ListUndelivered, TickEnds, AdLocal
  <2> QED
    BY <1>2, <1>6, <2>1 DEF ListUndelivered, TickEnds
<1>7. ASSUME NEW p \in AdPairs, SendMail(p) \/ MarkRow(p) PROVE NoAlertPassedOver' /\ BatchInv'
  <2>1. ad'.pc # "ingest"
    BY <1>0, <1>7 DEF SendMail, MarkRow, AdLocal
  <2>2. \A q \in AdPairs : adRows[q] # "absent" => adRows'[q] # "absent"
    BY <1>0, <1>7 DEF SendMail, MarkRow
  <2> QED
    BY <1>2, <1>7, <2>1, <2>2 DEF SendMail, MarkRow
<1>8. CASE AdRestart
  <2>1. adMark' = 0 /\ ad'.pc # "ingest" /\ UNCHANGED <<adAlerts, adRows>>
    BY <1>0, <1>8 DEF AdRestart
  <2>2. \A i \in AdIds : adAlerts[i].at <= 0 => adAlerts[i].at <= adMark
    BY <1>0, <1>1
  <2> QED
    BY <2>1, <2>2 DEF NoAlertPassedOver, BatchInv, AdIds
<1>9. ASSUME NEW key \in AdKeys, Notify(key) PROVE NoAlertPassedOver' /\ BatchInv'
  <2> DEFINE a == [key |-> key, at |-> adClock, committed |-> FALSE, late |-> FALSE, cut |-> FALSE]
  <2>1. a \in AdAlert /\ a.committed = FALSE /\ adAlerts \in Seq(AdAlert)
    BY DEF AdAlert, AdTypes
  <2> HIDE DEF a
  <2>2. adAlerts' = Append(adAlerts, a)
    BY <1>9 DEF Notify, a
  <2>3. /\ AdIds' = AdIds \cup {Len(adAlerts) + 1} /\ \A i \in AdIds : adAlerts'[i] = adAlerts[i]
        /\ adAlerts'[Len(adAlerts) + 1].committed = FALSE
    BY <2>1, <2>2 DEF AdIds
  <2>4. UNCHANGED <<ad, adMark, adRows>>
    BY <1>9 DEF Notify
  <2>5. AdNewest' = AdNewest
    <3>1. {adAlerts'[i].at : i \in ad.batch} = {adAlerts[i].at : i \in ad.batch}
      BY <1>0, <2>3
    <3> QED
      BY <2>4, <3>1 DEF AdNewest
  <2>6. NoAlertPassedOver'
    BY <2>3, <2>4 DEF NoAlertPassedOver
  <2> QED
    BY <1>0, <2>3, <2>4, <2>5, <2>6 DEF BatchInv
<1>10. ASSUME NEW i \in AdIds, NotifyCommits(i) PROVE NoAlertPassedOver' /\ BatchInv'
  <2>1. /\ AdIds' = AdIds /\ \A j \in AdIds : j # i => adAlerts'[j] = adAlerts[j]
        /\ adAlerts'[i].late = (AdPassing >= adAlerts[i].at)
        /\ \A j \in AdIds : adAlerts'[j].at = adAlerts[j].at /\ adAlerts'[j].key = adAlerts[j].key
    BY <1>10, AlertsType DEF NotifyCommits, AdIds, AdAlert
  <2>2. UNCHANGED <<ad, adMark, adRows>>
    BY <1>10 DEF NotifyCommits
  <2>3. AdNewest' = AdNewest
    <3>1. {adAlerts'[j].at : j \in ad.batch} = {adAlerts[j].at : j \in ad.batch}
      BY <1>0, <2>1
    <3> QED
      BY <2>2, <3>1 DEF AdNewest
  <2>4. AdPassing \in Nat /\ AdPassing >= adMark /\ (ad.pc = "ingest" => AdPassing >= AdNewest /\ AdNewest \in Nat)
    BY NewestType DEF AdTypes
  <2>5. ~adAlerts'[i].late => adAlerts[i].at > adMark /\ (ad.pc = "ingest" => ~(adAlerts[i].at < AdNewest))
    <3>1. ~adAlerts'[i].late => ~(AdPassing >= adAlerts[i].at)
      BY <2>1, Zenon
    <3>2. ~(AdPassing >= adAlerts[i].at) => adAlerts[i].at > adMark /\ (ad.pc = "ingest" => ~(adAlerts[i].at < AdNewest))
      BY <1>0, <1>1, <2>4
    <3> QED
      BY <3>1, <3>2
  <2>6. NoAlertPassedOver'
    <3> SUFFICES ASSUME NEW j \in AdIds, adAlerts'[j].committed, ~adAlerts'[j].late, ~adAlerts'[j].cut,
                        adAlerts'[j].at <= adMark, NEW c \in AdChannels
                 PROVE  adRows[<<c, adAlerts'[j].key>>] # "absent"
      BY <2>1, <2>2 DEF NoAlertPassedOver
    <3>1. j # i
      BY <1>0, <1>1, <2>1, <2>5
    <3> QED
      BY <2>1, <3>1 DEF NoAlertPassedOver
  <2>7. ASSUME ad.pc = "ingest", NEW j \in AdIds, adAlerts'[j].committed, ~adAlerts'[j].late,
               adAlerts'[j].at > adMark, adAlerts'[j].at < AdNewest
        PROVE  j \in ad.batch
    <3>1. j # i
      BY <2>1, <2>5, <2>7
    <3> QED
      BY <2>1, <2>7, <3>1 DEF BatchInv
  <2>8. ad.pc = "ingest" => \A j \in ad.batch, c \in AdChannels :
              <<c, adAlerts'[j].key>> \in ad.inserts \/ adRows[<<c, adAlerts'[j].key>>] # "absent"
    BY <1>0, <2>1 DEF BatchInv
  <2> QED
    BY <2>1, <2>2, <2>3, <2>6, <2>7, <2>8 DEF BatchInv
<1>11. CASE AdTick \/ UNCHANGED adVars
  BY <1>11 DEF AdTick, adVars, NoAlertPassedOver, BatchInv, AdIds, AdNewest
<1> QED
  BY <1>3, <1>4, <1>5, <1>6, <1>7, <1>8, <1>9, <1>10, <1>11 DEF AdNext, AdWorker

\* An alert the watermark has reached has its rows, over any number of alerts, failed
\* batches and restarts, unless it committed late or shares its created_at with the
\* last of a full batch (worker.rs ingest, alerts_since).
THEOREM NothingPassedOver == AdSpec => []NoAlertPassedOver
<1>1. AdInit => NoAlertPassedOver /\ BatchInv
  <2>1. AdInit => AdIds = {} /\ ad.pc = "idle"
    BY DEF AdInit, AdIds, AdIdle
  <2> QED
    BY <2>1 DEF NoAlertPassedOver, BatchInv
<1> QED
  BY <1>1, PassedStep, AdTypeInvariant, PTL DEF AdSpec
=============================================================================
