----------------------------- MODULE HostProofs -----------------------------
(***************************************************************************)
(* Proofs about the strategy host: PairTrade for every quantity, venue     *)
(* list, channel and number of bars; Deployment for every set of           *)
(* deployments and every number of messages and restarts; FillLedger for   *)
(* every set of quantities and prices and every sequence of reports;       *)
(* OrderBook for every capacity, set of ids and prices and every sequence  *)
(* of operations.                                                          *)
(***************************************************************************)
EXTENDS PairTrade, Deployment, FillLedger, OrderBook, SetLemmas

-----------------------------------------------------------------------------
(* Pairs. *)

\* The positions of the legs add up to nothing, or to leg 1 of the pair under way.
Balance == ptPosition["A"] + ptPosition["B"]

PairInv ==
    /\ ptSide \in {-1, 0, 1} /\ ptRestarts \in Nat /\ ptBatch \in [PtLegs -> {-1, 0, 1}] /\ ptFirst \in BOOLEAN
    /\ ptHalted \in BOOLEAN /\ ptInexact \in BOOLEAN
    /\ ptBatch["A"] + ptBatch["B"] = 0
    /\ ptFirst => ptBatch # NoBatch
    /\ IsPair => ptQueue = << >> /\ ptPosition \in [PtLegs -> Int]
    /\ IsPair /\ ptRestarts = 0 /\ ~ptInexact =>
        IF ptHalted THEN ptBatch = NoBatch
        ELSE Balance = IF ptFirst THEN ptBatch["A"] * PtQty ELSE 0

LEMMA DirectionTimes ==
    ASSUME NEW dir \in {-1, 0, 1}, NEW q \in Int
    PROVE  dir * q \in Int /\ dir * 0 = 0
<1>1. CASE dir = -1
  BY <1>1
<1>2. CASE dir = 0
  BY <1>2
<1>3. CASE dir = 1
  BY <1>3
<1> QED
  BY <1>1, <1>2, <1>3

\* The two legs of a batch move the balance by opposite amounts.
LEMMA OppositeLegs ==
    ASSUME NEW a \in {-1, 0, 1}, NEW b \in {-1, 0, 1}, a + b = 0
    PROVE  a * PtQty \in Int /\ b * PtQty \in Int /\ a * PtQty + b * PtQty = 0
<1>0. PtQty \in Int
  BY PairAssumption
<1>1. CASE a = -1
  <2>1. b = 1
    BY <1>1
  <2> QED
    BY <1>0, <1>1, <2>1
<1>2. CASE a = 0
  <2>1. b = 0
    BY <1>2
  <2> QED
    BY <1>0, <1>2, <2>1
<1>3. CASE a = 1
  <2>1. b = -1
    BY <1>3
  <2> QED
    BY <1>0, <1>3, <2>1
<1> QED
  BY <1>1, <1>2, <1>3

\* What an outcome may be.
LEMMA ResultTypes ==
    ASSUME NEW r \in PtResults
    PROVE  /\ r.units \in Int /\ r.told \in BOOLEAN
           /\ (r.units = PtQty) \/ (r.units = 1) \/ (r.units = 0 /\ r.told = FALSE)
<1>0. PtQty \in Int
  BY PairAssumption
<1>1. CASE r \in [units : {PtQty}, told : BOOLEAN]
  BY <1>0, <1>1
<1>2. CASE r \in [units : {1}, told : {TRUE}]
  <2>1. r.units = 1 /\ r.told = TRUE
    BY <1>2, Zenon
  <2>2. r.units \in Int
    BY <2>1
  <2> QED
    BY <2>1, <2>2, Zenon
<1>3. CASE r \in [units : {0}, told : {FALSE}]
  <2>1. r.units = 0 /\ r.told = FALSE
    BY <1>3, Zenon
  <2>2. r.units \in Int
    BY <2>1
  <2> QED
    BY <2>1, <2>2, Zenon
<1> QED
  BY <1>1, <1>2, <1>3 DEF PtResults

\* What an order that fills as it is told does to the balance.
LEMMA ExecutionMoves ==
    ASSUME ptPosition \in [PtLegs -> Int], ptInexact \in BOOLEAN,
           NEW l \in PtLegs, NEW dir \in {-1, 0, 1}, NEW venue, NEW r \in PtResults,
           OrderExecuted(l, dir, venue, r)
    PROVE  /\ ptPosition' \in [PtLegs -> Int]
           /\ ~ptInexact' => /\ ~ptInexact
                             /\ Balance' = Balance + IF r.told THEN dir * PtQty ELSE 0
<1>0. r.units \in Int /\ r.told \in BOOLEAN
  BY ResultTypes
<1>1. dir * r.units \in Int /\ dir * 0 = 0
  BY <1>0, DirectionTimes
<1> DEFINE move == dir * r.units
<1>2. /\ ptPosition' = [ptPosition EXCEPT ![l] = @ + move] /\ move \in Int
      /\ ptPosition'[l] = ptPosition[l] + move
      /\ \A k \in PtLegs : k # l => ptPosition'[k] = ptPosition[k]
  BY <1>1 DEF OrderExecuted
<1> HIDE DEF move
<1>3. ptPosition["A"] \in Int /\ ptPosition["B"] \in Int
  BY DEF PtLegs
<1>4. ptPosition' \in [PtLegs -> Int]
  <2>1. ptPosition[l] + move \in Int
    BY <1>2
  <2> QED
    BY <1>2, <2>1
<1>5. Balance' = Balance + move
  <2>2. CASE l = "A"
    <3>1. ptPosition'["A"] = ptPosition["A"] + move /\ ptPosition'["B"] = ptPosition["B"]
      BY <1>2, <2>2 DEF PtLegs
    <3> QED
      BY <1>2, <1>3, <3>1 DEF Balance
  <2>3. CASE l = "B"
    <3>1. ptPosition'["B"] = ptPosition["B"] + move /\ ptPosition'["A"] = ptPosition["A"]
      BY <1>2, <2>3 DEF PtLegs
    <3> QED
      BY <1>2, <1>3, <3>1 DEF Balance
  <2> QED
    BY <2>2, <2>3 DEF PtLegs
<1>6. ASSUME ~ptInexact' PROVE ~ptInexact /\ move = IF r.told THEN dir * PtQty ELSE 0
  <2>1. ~ptInexact /\ r.units # 1 /\ ~(r.units = PtQty /\ ~r.told)
    BY <1>6, Zenon DEF OrderExecuted
  <2>2. CASE r.told
    <3>1. r.units = PtQty
      BY <2>1, <2>2, ResultTypes
    <3> QED
      BY <2>1, <2>2, <3>1 DEF move
  <2>3. CASE ~r.told
    <3>1. r.units = 0
      BY <2>1, <2>3, ResultTypes
    <3> QED
      BY <1>1, <2>1, <2>3, <3>1 DEF move
  <2> QED
    BY <2>2, <2>3
<1> QED
  BY <1>4, <1>5, <1>6

LEMMA InexactBoolean ==
    ASSUME NEW l, NEW dir, NEW venue, NEW r, OrderExecuted(l, dir, venue, r)
    PROVE  ptInexact' \in BOOLEAN
BY Zenon DEF OrderExecuted

LEMMA PairStep == PairInv /\ [PtNext]_ptVars => PairInv'
<1> SUFFICES ASSUME PairInv, [PtNext]_ptVars PROVE PairInv'
  OBVIOUS
<1>0. /\ "A" \in PtLegs /\ "B" \in PtLegs /\ NoBatch \in [PtLegs -> {-1, 0, 1}]
      /\ NoBatch["A"] = 0 /\ NoBatch["B"] = 0
  BY DEF PtLegs, NoBatch
<1>2. (UNCHANGED ptConfig) => (IsPair' <=> IsPair)
  BY DEF IsPair, is_correlated_pair, is_pairs_trade_batch, VenueOf
<1>3. ASSUME UNCHANGED <<ptConfig, ptSide, ptBridge, ptTrades, ptHalted, ptRestarts>> PROVE PairInv'
  BY <1>2, <1>3 DEF PairInv, Balance, ptBridge, ptTrades
<1>4. ASSUME NEW l \in PtLegs, Tick(l) PROVE PairInv'
  <2>1. CASE UNCHANGED <<ptReading, ptSide, ptBridge>>
    BY <1>3, <1>4, <2>1 DEF Tick
  <2>2. ASSUME NEW raw \in {-1, 0, 1, 2}, ptSide' = Decided(raw).side, Dispatch(Decided(raw).batch) PROVE PairInv'
    <3>1. /\ Decided(raw).side \in {-1, 0, 1} /\ Decided(raw).batch \in [PtLegs -> {-1, 0, 1}]
          /\ Decided(raw).batch["A"] + Decided(raw).batch["B"] = 0
      <4>1. ptSide \in {-1, 0, 1} /\ -ptSide \in {-1, 0, 1} /\ (-ptSide) + ptSide = 0
        BY DEF PairInv
      <4>2. CASE raw \in {-1, 1} /\ ptSide = 0
        <5>0. -raw \in {-1, 0, 1} /\ raw + (-raw) = 0 /\ raw \in {-1, 0, 1}
          BY <4>2
        <5>1. Decided(raw).side = raw /\ Decided(raw).batch = [A |-> raw, B |-> -raw]
          BY <4>2 DEF Decided
        <5> QED
          BY <5>0, <5>1 DEF PtLegs
      <4>3. CASE ~(raw \in {-1, 1} /\ ptSide = 0) /\ raw = 2
        <5>1. Decided(raw).side = 0 /\ Decided(raw).batch = [A |-> -ptSide, B |-> ptSide]
          BY <4>3 DEF Decided
        <5> QED
          BY <4>1, <5>1 DEF PtLegs
      <4>4. CASE ~(raw \in {-1, 1} /\ ptSide = 0) /\ raw # 2
        <5>1. Decided(raw).side = ptSide /\ Decided(raw).batch = NoBatch
          BY <4>4 DEF Decided
        <5> QED
          BY <1>0, <4>1, <5>1
      <4> QED
        BY <4>2, <4>3, <4>4
    <3>2. /\ ptBatch' \in [PtLegs -> {-1, 0, 1}] /\ ptBatch'["A"] + ptBatch'["B"] = 0
          /\ ptFirst' = ptFirst /\ (IsPair => ptQueue' = ptQueue)
      <4>1. CASE IsPair
        BY <2>2, <3>1, <4>1 DEF Dispatch
      <4>2. CASE ~IsPair
        BY <1>0, <2>2, <4>2 DEF Dispatch
      <4> QED
        BY <4>1, <4>2
    <3>3. ptBatch = NoBatch /\ ~ptHalted /\ UNCHANGED <<ptConfig, ptTrades, ptHalted, ptRestarts>>
      BY <1>4 DEF Tick
    <3>4. ~ptFirst
      BY <3>3 DEF PairInv
    <3>5. IsPair' <=> IsPair
      BY <1>2, <3>3
    <3> QED
      BY <2>2, <3>1, <3>2, <3>3, <3>4, <3>5 DEF PairInv, Balance, ptTrades
  <2> QED
    BY <1>4, <2>1, <2>2 DEF Tick
<1>5. ASSUME NEW r \in PtResults, Leg1(r) PROVE PairInv'
  <2>0. ptBatch["A"] \in {-1, 0, 1} /\ ptBatch["A"] * PtQty \in Int /\ r.told \in BOOLEAN
    BY <1>0, OppositeLegs, ResultTypes DEF PairInv
  <2>1. /\ ptBatch # NoBatch /\ ~ptFirst /\ UNCHANGED <<ptConfig, ptSide, ptQueue, ptHalted, ptRestarts>>
        /\ IF r.told THEN ptFirst' = TRUE /\ ptBatch' = ptBatch ELSE ptBatch' = NoBatch /\ ptFirst' = ptFirst
    BY <1>5 DEF Leg1, ptStrategy
  <2>2. ptInexact' \in BOOLEAN /\ ptInexact \in BOOLEAN
    BY <1>5, InexactBoolean DEF Leg1, PairInv
  <2>3. IsPair => /\ ptPosition' \in [PtLegs -> Int]
                  /\ ~ptInexact' => ~ptInexact /\ Balance' = Balance + IF r.told THEN ptBatch["A"] * PtQty ELSE 0
    BY <1>0, <1>5, <2>0, <2>2, ExecutionMoves DEF Leg1, PairInv
  <2>4. IsPair' <=> IsPair
    BY <1>2, <2>1
  <2>5. ASSUME IsPair, ptRestarts = 0, ~ptInexact'
        PROVE  ~ptHalted /\ Balance' = IF ptFirst' THEN ptBatch'["A"] * PtQty ELSE 0
    <3>1. ~ptHalted /\ Balance = 0
      BY <2>1, <2>3, <2>5 DEF PairInv
    <3>2. CASE r.told
      <4>1. Balance' = 0 + ptBatch["A"] * PtQty /\ ptFirst' /\ ptBatch' = ptBatch
        BY <2>1, <2>3, <2>5, <3>1, <3>2
      <4> QED
        BY <2>0, <3>1, <4>1
    <3>3. CASE ~r.told
      <4>1. Balance' = 0 + 0 /\ ~ptFirst'
        BY <2>1, <2>3, <2>5, <3>1, <3>3
      <4> QED
        BY <3>1, <4>1
    <3> QED
      BY <3>2, <3>3
  <2>6. ptBatch'["A"] + ptBatch'["B"] = 0 /\ ptBatch' \in [PtLegs -> {-1, 0, 1}] /\ ptFirst' \in BOOLEAN
        /\ (ptFirst' => ptBatch' # NoBatch)
    <3>1. CASE r.told
      BY <2>1, <3>1 DEF PairInv
    <3>2. CASE ~r.told
      BY <1>0, <2>1, <3>2 DEF PairInv
    <3> QED
      BY <3>1, <3>2
  <2> QED
    BY <2>1, <2>2, <2>3, <2>4, <2>5, <2>6 DEF PairInv
<1>6. ASSUME NEW r \in PtResults, Leg2(r) PROVE PairInv'
  <2>0. /\ ptBatch["A"] \in {-1, 0, 1} /\ ptBatch["B"] \in {-1, 0, 1} /\ ptBatch["A"] + ptBatch["B"] = 0
        /\ r.told \in BOOLEAN
    BY <1>0, ResultTypes DEF PairInv
  <2>1. /\ ptBatch["A"] * PtQty \in Int /\ ptBatch["B"] * PtQty \in Int
        /\ ptBatch["A"] * PtQty + ptBatch["B"] * PtQty = 0
    BY <2>0, OppositeLegs
  <2>2. /\ ptBatch # NoBatch /\ ptFirst /\ UNCHANGED <<ptConfig, ptSide, ptQueue, ptRestarts>>
        /\ ptHalted' = (ptHalted \/ ~r.told) /\ ptBatch' = NoBatch /\ ptFirst' = FALSE
    BY <1>6 DEF Leg2, ptStrategy, HaltedAfter
  <2>3. ptInexact' \in BOOLEAN /\ ptInexact \in BOOLEAN
    BY <1>6, InexactBoolean DEF Leg2, PairInv
  <2>4. IsPair => /\ ptPosition' \in [PtLegs -> Int]
                  /\ ~ptInexact' => ~ptInexact /\ Balance' = Balance + IF r.told THEN ptBatch["B"] * PtQty ELSE 0
    BY <1>0, <1>6, <2>0, <2>3, ExecutionMoves DEF Leg2, PairInv
  <2>5. IsPair' <=> IsPair
    BY <1>2, <2>2
  <2>6. ptHalted' \in BOOLEAN /\ (~ptHalted' => ~ptHalted /\ r.told)
    BY <2>2, Zenon
  <2>7. ASSUME IsPair, ptRestarts = 0, ~ptInexact', ~ptHalted' PROVE Balance' = 0
    <3>1. Balance = ptBatch["A"] * PtQty /\ r.told
      BY <2>2, <2>4, <2>6, <2>7 DEF PairInv
    <3>2. Balance' = ptBatch["A"] * PtQty + ptBatch["B"] * PtQty
      BY <2>4, <2>7, <3>1
    <3> QED
      BY <2>1, <3>2
  <2>8. ptBatch'["A"] + ptBatch'["B"] = 0 /\ ptBatch' \in [PtLegs -> {-1, 0, 1}]
    BY <1>0, <2>2
  <2> QED
    BY <2>2, <2>3, <2>4, <2>5, <2>6, <2>7, <2>8 DEF PairInv
<1>7. ASSUME NEW r \in PtResults, SignalLoop(r) PROVE PairInv'
  <2>1. ptQueue # << >> /\ UNCHANGED <<ptConfig, ptSide, ptBatch, ptFirst, ptHalted, ptRestarts>>
    BY <1>7 DEF SignalLoop, ptStrategy
  <2>2. ~IsPair /\ ~IsPair'
    BY <1>2, <2>1 DEF PairInv
  <2>3. ptInexact' \in BOOLEAN
    BY <1>7, InexactBoolean DEF SignalLoop
  <2> QED
    BY <2>1, <2>2, <2>3 DEF PairInv
<1>8. CASE NextBucket
  BY <1>3, <1>8 DEF NextBucket
<1>9. CASE PtRestart
  <2>1. /\ UNCHANGED <<ptConfig, ptPosition, ptInexact>>
        /\ ptSide' = 0 /\ ptBatch' = NoBatch /\ ptFirst' = FALSE /\ ptQueue' = << >> /\ ptHalted' = FALSE
    BY <1>9 DEF PtRestart, ptTrades
  <2>2. ptRestarts' # 0 /\ ptRestarts' \in Nat
    BY <1>9 DEF PtRestart, PairInv
  <2>3. ptBatch'["A"] + ptBatch'["B"] = 0 /\ ptBatch' \in [PtLegs -> {-1, 0, 1}] /\ ptSide' \in {-1, 0, 1}
    BY <1>0, <2>1
  <2>4. IsPair' => ptPosition' \in [PtLegs -> Int]
    BY <1>2, <2>1 DEF PairInv
  <2>5. ptInexact' \in BOOLEAN /\ ptHalted' \in BOOLEAN /\ ptFirst' \in BOOLEAN
    BY <2>1 DEF PairInv
  <2> QED
    BY <2>1, <2>2, <2>3, <2>4, <2>5 DEF PairInv
<1>10. CASE UNCHANGED ptVars
  BY <1>3, <1>10 DEF ptVars, ptStrategy, ptBridge, ptTrades
<1> QED
  BY <1>4, <1>5, <1>6, <1>7, <1>8, <1>9, <1>10 DEF PtNext

\* A coordinated pair out of balance between two pairs is halted, for every quantity,
\* venue list and number of entries, exits, refusals and failures of the two legs, in
\* one life of the host with orders that fill as they are told
\* (cross_venue_coordinator.rs execute_dual_venue_pair, hostbuilder lib.rs the bridge).
THEOREM UnhedgedPairIsHalted == PtSpec => []UnhedgedIsHalted
<1>1. PtInit => PairInv
  <2> SUFFICES ASSUME PtInit PROVE PairInv
    OBVIOUS
  <2>1. /\ NoBatch \in [PtLegs -> {-1, 0, 1}] /\ NoBatch["A"] = 0 /\ NoBatch["B"] = 0
        /\ ptPosition["A"] = 0 /\ ptPosition["B"] = 0
    BY DEF PtInit, PtLegs, NoBatch
  <2>2. ptPosition \in [PtLegs -> Int] /\ Balance = 0 /\ ptBatch["A"] + ptBatch["B"] = 0
    BY <2>1 DEF PtInit, Balance
  <2> QED
    BY <2>1, <2>2 DEF PtInit, PairInv
<1>2. PairInv => UnhedgedIsHalted
  <2> SUFFICES ASSUME PairInv, IsPair, ptBatch = NoBatch, ptRestarts = 0, ~ptInexact, ~ptHalted
               PROVE  ptPosition["A"] = -ptPosition["B"]
    BY DEF UnhedgedIsHalted
  <2>1. Balance = 0
    BY DEF PairInv
  <2>2. ptPosition["A"] \in Int /\ ptPosition["B"] \in Int
    BY DEF PairInv, PtLegs
  <2> QED
    BY <2>1, <2>2 DEF Balance
<1> QED
  BY <1>1, <1>2, PairStep, PTL DEF PtSpec

-----------------------------------------------------------------------------
(* Deployments. *)

DpTaskSet == [pc : {"idle", "ack", "subscribe", "note", "tell"}, id : DpIds \cup {"none"}]

DpShape ==
    /\ dpTopic \in [dep : Seq(DpIds), deact : Seq(DpIds)]
    /\ dpTask \in [DpTasks -> DpTaskSet]
    /\ \A t \in DpTasks : IF dpTask[t].pc = "idle" THEN dpTask[t].id = "none" ELSE dpTask[t].id \in DpIds
    /\ dpReplay \subseteq DpIds
    /\ \E S \in SUBSET DpIds : dpMap \in [S -> DpMapEntry]
    /\ dpEvents \in Seq([kind : {"Deploy", "Deactivate"}, id : DpIds])
    /\ dpHost \in [pc : {"recv", "deciding", "unsubscribe", "refuse", "record"}, id : DpIds \cup {"none"},
                   fresh : BOOLEAN, drained : BOOLEAN]
    /\ dpHost.pc # "recv" => dpHost.id \in DpIds
    /\ dpAck \in [DpIds -> {"none", "success", "failure"}]

\* Who deals with a deployment: an announcing task, the channel, the host.
Announcing(i) == \E t \in DpTasks : dpTask[t].id = i
Queued(i) == \E k \in DOMAIN dpEvents : dpEvents[k].id = i
AtHost(i) == dpHost.pc # "recv" /\ dpHost.id = i
Clean(i) == i \notin DOMAIN dpMap /\ i \notin dpStream /\ i \notin dpRunning

\* Deactivations are on the record, so what follows is about announcements alone.
DeactivationsRaced ==
    /\ \A t \in DpTasks : dpTask[t].pc = "tell" => dpTask[t].id \in dpRaced
    /\ \A k \in DOMAIN dpEvents : dpEvents[k].kind = "Deactivate" => dpEvents[k].id \in dpRaced

\* One announcement at a time, and the host sees it once.
SeenOnce(i) ==
    /\ \A k, l \in DOMAIN dpEvents : dpEvents[k].id = i /\ dpEvents[l].id = i => k = l
    /\ Queued(i) => ~AtHost(i)

\* An announcing task owns the entry it will note its subscription in; once it is done
\* every stream is noted, or taken by the rejection that will end it.
StreamNoted(i) ==
    /\ \A t \in DpTasks : dpTask[t].id = i => i \in DOMAIN dpMap /\ dpMap[i].by = t
    /\ ~Announcing(i) /\ i \in dpStream =>
          \/ i \in DOMAIN dpMap /\ dpMap[i].noted
          \/ AtHost(i) /\ dpHost.pc = "unsubscribe" /\ dpHost.drained

\* A rejection in progress is alone with its deployment.
RejectionAlone(i) ==
    AtHost(i) /\ dpHost.pc # "deciding" =>
        /\ ~Announcing(i) /\ i \notin DOMAIN dpMap /\ i \notin dpRunning
        /\ dpHost.pc # "unsubscribe" => i \notin dpStream

\* A refused deployment is clean until it is announced again.
RefusedIsClean(i) ==
    dpAck[i] = "failure" =>
        \/ \E t \in DpTasks : dpTask[t].id = i /\ dpTask[t].pc = "ack"
        \/ Clean(i) /\ ~Queued(i) /\ ~(AtHost(i) /\ dpHost.pc = "deciding")

Tracked(i) == SeenOnce(i) /\ StreamNoted(i) /\ RejectionAlone(i) /\ RefusedIsClean(i)

DpInv == DpShape /\ DeactivationsRaced /\ \A i \in DpLive \ dpRaced : Tracked(i)

DpEventSet == [kind : {"Deploy", "Deactivate"}, id : DpIds]

\* What an announcement does to the task, the map and the channel.
LEMMA AnnounceResult ==
    ASSUME DpShape, NEW t \in DpTasks, NEW i \in DpIds, Announce(t, i)
    PROVE  /\ dpTask' \in [DpTasks -> DpTaskSet]
           /\ dpTask'[t].pc = "ack" /\ dpTask'[t].id = i /\ \A x \in DpTasks : x # t => dpTask'[x] = dpTask[x]
           /\ \E S \in SUBSET DpIds : dpMap' \in [S -> DpMapEntry]
           /\ DOMAIN dpMap' = DOMAIN dpMap \cup {i} /\ dpMap'[i].by = t
           /\ \A k \in DOMAIN dpMap : k # i => dpMap'[k] = dpMap[k]
           /\ dpEvents' \in Seq([kind : {"Deploy", "Deactivate"}, id : DpIds])
           /\ DOMAIN dpEvents' = DOMAIN dpEvents \cup {Len(dpEvents) + 1} /\ Len(dpEvents) + 1 \notin DOMAIN dpEvents
           /\ dpEvents'[Len(dpEvents) + 1].id = i /\ dpEvents'[Len(dpEvents) + 1].kind = "Deploy"
           /\ \A k \in DOMAIN dpEvents : dpEvents'[k] = dpEvents[k]
<1>1. [pc |-> "ack", id |-> i] \in DpTaskSet
  BY DEF DpTaskSet
<1>2. /\ dpTask' \in [DpTasks -> DpTaskSet]
      /\ dpTask'[t].pc = "ack" /\ dpTask'[t].id = i /\ \A x \in DpTasks : x # t => dpTask'[x] = dpTask[x]
  BY <1>1 DEF Announce, DpShape
<1>3. PICK S \in SUBSET DpIds : dpMap \in [S -> DpMapEntry]
  BY DEF DpShape
<1>4. [by |-> t, noted |-> FALSE] \in DpMapEntry
  BY DEF DpMapEntry
<1>5. /\ dpMap' \in [S \cup {i} -> DpMapEntry] /\ DOMAIN dpMap' = DOMAIN dpMap \cup {i} /\ dpMap'[i].by = t
      /\ \A k \in DOMAIN dpMap : k # i => dpMap'[k] = dpMap[k]
  BY <1>3, <1>4 DEF Announce
<1>6. PICK e \in DpEventSet : e = [kind |-> "Deploy", id |-> i]
  BY DEF DpEventSet
<1>7. dpEvents \in Seq(DpEventSet) /\ dpEvents' = Append(dpEvents, e)
  BY <1>6 DEF DpShape, Announce, DpEventSet
<1>8. /\ dpEvents' \in Seq(DpEventSet)
      /\ DOMAIN dpEvents' = DOMAIN dpEvents \cup {Len(dpEvents) + 1} /\ Len(dpEvents) + 1 \notin DOMAIN dpEvents
      /\ dpEvents'[Len(dpEvents) + 1] = e
      /\ \A k \in DOMAIN dpEvents : dpEvents'[k] = dpEvents[k]
  BY <1>7
<1>9. S \cup {i} \in SUBSET DpIds
  OBVIOUS
<1> QED
  BY <1>2, <1>5, <1>6, <1>8, <1>9 DEF DpEventSet

\* Taking the first event.
LEMMA TailResult ==
    ASSUME DpShape, dpEvents # << >>, dpEvents' = Tail(dpEvents)
    PROVE  /\ dpEvents' \in Seq([kind : {"Deploy", "Deactivate"}, id : DpIds])
           /\ Head(dpEvents) \in [kind : {"Deploy", "Deactivate"}, id : DpIds]
           /\ 1 \in DOMAIN dpEvents /\ Head(dpEvents) = dpEvents[1]
           /\ \A k \in DOMAIN dpEvents' : k \in Nat \ {0} /\ k + 1 \in DOMAIN dpEvents /\ dpEvents'[k] = dpEvents[k + 1]
<1>1. dpEvents \in Seq(DpEventSet)
  BY DEF DpShape, DpEventSet
<1>2. /\ dpEvents' \in Seq(DpEventSet) /\ Head(dpEvents) \in DpEventSet
      /\ 1 \in DOMAIN dpEvents /\ Head(dpEvents) = dpEvents[1]
      /\ \A k \in DOMAIN dpEvents' : k \in Nat \ {0} /\ k + 1 \in DOMAIN dpEvents /\ dpEvents'[k] = dpEvents[k + 1]
  BY <1>1
<1> QED
  BY <1>2 DEF DpEventSet

\* A task that moves on.
LEMMA TaskMoves ==
    ASSUME DpShape, NEW t \in DpTasks, NEW v \in DpTaskSet,
           IF v.pc = "idle" THEN v.id = "none" ELSE v.id \in DpIds, dpTask' = [dpTask EXCEPT ![t] = v]
    PROVE  /\ dpTask' \in [DpTasks -> DpTaskSet]
           /\ \A x \in DpTasks : IF dpTask'[x].pc = "idle" THEN dpTask'[x].id = "none" ELSE dpTask'[x].id \in DpIds
<1>1. dpTask' \in [DpTasks -> DpTaskSet] /\ \A x \in DpTasks : dpTask'[x] = IF x = t THEN v ELSE dpTask[x]
  BY DEF DpShape
<1> QED
  BY <1>1 DEF DpShape

LEMMA AnnounceShape ==
    ASSUME DpShape, NEW t \in DpTasks, NEW i \in DpIds, Announce(t, i),
           dpTopic' \in [dep : Seq(DpIds), deact : Seq(DpIds)], dpReplay' \subseteq DpIds, UNCHANGED <<dpHost, dpAck>>
    PROVE  DpShape'
<1>1. dpTask'[t].pc = "ack" /\ dpTask'[t].id = i /\ \A x \in DpTasks : x # t => dpTask'[x] = dpTask[x]
  BY AnnounceResult
<1>2. \A x \in DpTasks : IF dpTask'[x].pc = "idle" THEN dpTask'[x].id = "none" ELSE dpTask'[x].id \in DpIds
  BY <1>1 DEF DpShape
<1>3. /\ dpTask' \in [DpTasks -> DpTaskSet]
      /\ \E S \in SUBSET DpIds : dpMap' \in [S -> DpMapEntry]
      /\ dpEvents' \in Seq([kind : {"Deploy", "Deactivate"}, id : DpIds])
  BY AnnounceResult
<1> QED
  BY <1>2, <1>3 DEF DpShape

LEMMA DeployShape == DpShape /\ [DpNext]_dpVars => DpShape'
<1> SUFFICES ASSUME DpShape, [DpNext]_dpVars PROVE DpShape'
  OBVIOUS
<1>0. /\ dpTopic \in [dep : Seq(DpIds), deact : Seq(DpIds)] /\ dpTask \in [DpTasks -> DpTaskSet]
      /\ \A t \in DpTasks : IF dpTask[t].pc = "idle" THEN dpTask[t].id = "none" ELSE dpTask[t].id \in DpIds
      /\ dpHost \in [pc : {"recv", "deciding", "unsubscribe", "refuse", "record"}, id : DpIds \cup {"none"},
                     fresh : BOOLEAN, drained : BOOLEAN]
      /\ dpAck \in [DpIds -> {"none", "success", "failure"}]
      /\ DpIdle \in DpTaskSet /\ DpIdle.id = "none"
  BY DEF DpShape, DpIdle, DpTaskSet
<1>1. PICK S \in SUBSET DpIds : dpMap \in [S -> DpMapEntry]
  BY DEF DpShape
<1>2. ASSUME NEW i \in DpIds, EngineDeploys(i) \/ EngineDeactivates(i) PROVE DpShape'
  <2>1. dpTopic' \in [dep : Seq(DpIds), deact : Seq(DpIds)]
    <3>1. Append(dpTopic.dep, i) \in Seq(DpIds) /\ Append(dpTopic.deact, i) \in Seq(DpIds)
      BY <1>0
    <3> QED
      BY <1>0, <1>2, <3>1 DEF EngineDeploys, EngineDeactivates
  <2>2. UNCHANGED <<dpTask, dpReplay, dpMap, dpEvents, dpHost, dpAck>>
    BY <1>2 DEF EngineDeploys, EngineDeactivates
  <2> QED
    BY <2>1, <2>2 DEF DpShape
<1>3. ASSUME NEW i \in DpIds, Replay(i) PROVE DpShape'
  <2>1. "rec" \in DpTasks /\ Announce("rec", i) /\ dpReplay' \subseteq DpIds
    BY <1>3 DEF Replay, DpTasks, DpShape
  <2>2. dpTopic' \in [dep : Seq(DpIds), deact : Seq(DpIds)] /\ UNCHANGED <<dpHost, dpAck>>
    BY <1>0, <1>3 DEF Replay
  <2> QED
    BY <2>1, <2>2, AnnounceShape
<1>4. CASE PollDeployment
  <2>1. "sub" \in DpTasks /\ Announce("sub", Head(dpTopic.dep)) /\ Head(dpTopic.dep) \in DpIds
        /\ dpTopic' \in [dep : Seq(DpIds), deact : Seq(DpIds)]
    <3>1. /\ dpTopic.dep \in Seq(DpIds) /\ dpTopic.dep # << >>
      BY <1>0, <1>4 DEF PollDeployment
    <3>2. Head(dpTopic.dep) \in DpIds /\ Tail(dpTopic.dep) \in Seq(DpIds)
      BY <3>1
    <3> QED
      BY <1>0, <1>4, <3>2 DEF PollDeployment, DpTasks
  <2>2. dpReplay' \subseteq DpIds
    BY <1>4 DEF PollDeployment, DpShape
  <2> QED
    BY <1>4, <2>1, <2>2, AnnounceShape DEF PollDeployment
<1>5. ASSUME NEW t \in DpTasks, AckSuccess(t) \/ Subscribe(t) \/ NoteSubscription(t) PROVE DpShape'
  <2>1. /\ dpTask' \in [DpTasks -> DpTaskSet]
        /\ \A x \in DpTasks : IF dpTask'[x].pc = "idle" THEN dpTask'[x].id = "none" ELSE dpTask'[x].id \in DpIds
    <3>1. dpTask[t] \in DpTaskSet
      BY <1>0
    <3>2. CASE NoteSubscription(t)
      <4>1. dpTask' = [dpTask EXCEPT ![t] = DpIdle] /\ DpIdle.pc = "idle"
        BY <3>2 DEF NoteSubscription, DpIdle
      <4> QED
        BY <1>0, <4>1, TaskMoves
    <3>3. ASSUME NEW pc \in {"subscribe", "note"}, dpTask' = [dpTask EXCEPT ![t].pc = pc]
          PROVE  /\ dpTask' \in [DpTasks -> DpTaskSet]
                 /\ \A x \in DpTasks : IF dpTask'[x].pc = "idle" THEN dpTask'[x].id = "none" ELSE dpTask'[x].id \in DpIds
      <4>1. CASE dpTask[t].pc # "idle"
        <5>1. dpTask[t].id \in DpIds
          BY <1>0, <4>1
        <5>2. [pc |-> pc, id |-> dpTask[t].id] \in DpTaskSet
          BY <5>1 DEF DpTaskSet
        <5>3. [dpTask[t] EXCEPT !.pc = pc] = [pc |-> pc, id |-> dpTask[t].id]
          BY <3>1 DEF DpTaskSet
        <5>4. dpTask' = [dpTask EXCEPT ![t] = [dpTask[t] EXCEPT !.pc = pc]]
          BY <1>0, <3>3
        <5> QED
          BY <5>1, <5>2, <5>3, <5>4, TaskMoves
      <4>2. dpTask[t].pc # "idle"
        BY <1>5 DEF AckSuccess, Subscribe, NoteSubscription
      <4> QED
        BY <4>1, <4>2
    <3> QED
      BY <1>5, <3>2, <3>3 DEF AckSuccess, Subscribe
  <2>2. \E R \in SUBSET DpIds : dpMap' \in [R -> DpMapEntry]
    <3>1. CASE dpMap' = [dpMap EXCEPT ![dpTask[t].id].noted = TRUE] /\ dpTask[t].id \in DOMAIN dpMap
      <4>1. dpMap[dpTask[t].id] \in DpMapEntry
        BY <1>1, <3>1
      <4>2. dpMap' \in [S -> DpMapEntry]
        BY <1>1, <3>1, <4>1 DEF DpMapEntry
      <4> QED
        BY <4>2
    <3> QED
      BY <1>1, <1>5, <3>1 DEF AckSuccess, Subscribe, NoteSubscription
  <2>3. dpAck' \in [DpIds -> {"none", "success", "failure"}]
    BY <1>0, <1>5 DEF AckSuccess, Subscribe, NoteSubscription
  <2> QED
    BY <1>5, <2>1, <2>2, <2>3 DEF AckSuccess, Subscribe, NoteSubscription, DpShape
<1>6. CASE PollDeactivation
  <2>1. /\ dpTopic.deact \in Seq(DpIds) /\ dpTopic.deact # << >>
    BY <1>0, <1>6 DEF PollDeactivation
  <2>2. Head(dpTopic.deact) \in DpIds /\ Tail(dpTopic.deact) \in Seq(DpIds)
    BY <2>1
  <2>3. dpTopic' \in [dep : Seq(DpIds), deact : Seq(DpIds)]
    BY <1>0, <1>6, <2>2 DEF PollDeactivation
  <2>4. [pc |-> "tell", id |-> Head(dpTopic.deact)] \in DpTaskSet
    BY <2>2 DEF DpTaskSet
  <2>5. /\ dpTask' \in [DpTasks -> DpTaskSet]
        /\ \A x \in DpTasks : IF dpTask'[x].pc = "idle" THEN dpTask'[x].id = "none" ELSE dpTask'[x].id \in DpIds
    <3>1. "sub" \in DpTasks /\ dpTask' = [dpTask EXCEPT !["sub"] = [pc |-> "tell", id |-> Head(dpTopic.deact)]]
      BY <1>6 DEF PollDeactivation, DpTasks
    <3> QED
      BY <2>2, <2>4, <3>1, TaskMoves
  <2>6. dpMap' \in [S \ {Head(dpTopic.deact)} -> DpMapEntry] /\ S \ {Head(dpTopic.deact)} \in SUBSET DpIds
    BY <1>1, <1>6 DEF PollDeactivation
  <2> QED
    BY <1>6, <2>3, <2>5, <2>6 DEF PollDeactivation, DpShape
<1>7. CASE TellHost
  <2>1. dpTask["sub"].id \in DpIds
    <3>1. "sub" \in DpTasks /\ dpTask["sub"].pc = "tell"
      BY <1>7 DEF TellHost, DpTasks
    <3> QED
      BY <1>0, <3>1 DEF DpTaskSet
  <2>2. dpEvents' \in Seq([kind : {"Deploy", "Deactivate"}, id : DpIds])
    BY <1>7, <2>1 DEF TellHost, DpShape
  <2>3. /\ dpTask' \in [DpTasks -> DpTaskSet]
        /\ \A x \in DpTasks : IF dpTask'[x].pc = "idle" THEN dpTask'[x].id = "none" ELSE dpTask'[x].id \in DpIds
    <3>1. "sub" \in DpTasks /\ dpTask' = [dpTask EXCEPT !["sub"] = DpIdle] /\ DpIdle.pc = "idle"
      BY <1>7 DEF TellHost, DpTasks, DpIdle
    <3> QED
      BY <1>0, <3>1, TaskMoves
  <2> QED
    BY <1>7, <2>2, <2>3 DEF TellHost, DpShape
<1>8. CASE HostDeploys
  <2>1. Head(dpEvents).id \in DpIds /\ dpEvents' \in Seq([kind : {"Deploy", "Deactivate"}, id : DpIds])
    BY <1>8, TailResult DEF HostDeploys
  <2>2. dpHost' \in [pc : {"recv", "deciding", "unsubscribe", "refuse", "record"}, id : DpIds \cup {"none"},
                     fresh : BOOLEAN, drained : BOOLEAN] /\ dpHost'.id \in DpIds
    BY <1>8, <2>1 DEF HostDeploys
  <2> QED
    BY <1>8, <2>1, <2>2 DEF HostDeploys, DpShape
<1>9. CASE HostAccepts \/ HostDropsPaper \/ RejectUnsubscribes \/ RejectAcks \/ RejectRecords
  <2>1. /\ dpHost' \in [pc : {"recv", "deciding", "unsubscribe", "refuse", "record"}, id : DpIds \cup {"none"},
                        fresh : BOOLEAN, drained : BOOLEAN]
        /\ dpHost'.pc # "recv" => dpHost'.id \in DpIds
    BY <1>0, <1>9 DEF HostAccepts, HostDropsPaper, RejectUnsubscribes, RejectAcks, RejectRecords, DpShape
  <2>2. dpAck' \in [DpIds -> {"none", "success", "failure"}]
    BY <1>0, <1>9 DEF HostAccepts, HostDropsPaper, RejectUnsubscribes, RejectAcks, RejectRecords
  <2> QED
    BY <1>9, <2>1, <2>2 DEF HostAccepts, HostDropsPaper, RejectUnsubscribes, RejectAcks, RejectRecords, DpShape
<1>10. CASE HostRejects
  <2>1. (dpHost.id \in DOMAIN dpMap /\ dpMap[dpHost.id].noted) \in BOOLEAN
    OBVIOUS
  <2>2. PICK b \in BOOLEAN : dpHost' = [dpHost EXCEPT !.pc = "unsubscribe", !.drained = b]
    BY <1>10, <2>1 DEF HostRejects
  <2>3. dpHost' \in [pc : {"recv", "deciding", "unsubscribe", "refuse", "record"}, id : DpIds \cup {"none"},
                     fresh : BOOLEAN, drained : BOOLEAN] /\ dpHost'.id \in DpIds
    BY <1>0, <1>10, <2>2 DEF HostRejects, DpShape
  <2>4. dpMap' \in [S \ {dpHost.id} -> DpMapEntry] /\ S \ {dpHost.id} \in SUBSET DpIds
    BY <1>1, <1>10 DEF HostRejects, Unlisted
  <2> QED
    BY <1>10, <2>3, <2>4 DEF HostRejects, DpShape
<1>11. CASE HostDeactivates
  BY <1>11, TailResult DEF HostDeactivates, DpShape
<1>12. CASE DpRestart
  <2>1. dpMap' \in [{} -> DpMapEntry] /\ {} \in SUBSET DpIds
    BY <1>12 DEF DpRestart
  <2>2. dpHost' \in [pc : {"recv", "deciding", "unsubscribe", "refuse", "record"}, id : DpIds \cup {"none"},
                     fresh : BOOLEAN, drained : BOOLEAN] /\ dpHost'.pc = "recv"
    BY <1>0, <1>12 DEF DpRestart
  <2>3. dpEvents' \in Seq([kind : {"Deploy", "Deactivate"}, id : DpIds])
        /\ dpTopic' \in [dep : Seq(DpIds), deact : Seq(DpIds)]
    BY <1>12 DEF DpRestart
  <2>4. /\ dpTask' \in [DpTasks -> DpTaskSet]
        /\ \A x \in DpTasks : IF dpTask'[x].pc = "idle" THEN dpTask'[x].id = "none" ELSE dpTask'[x].id \in DpIds
    <3>1. DpIdle.pc = "idle" /\ dpTask' = [t \in DpTasks |-> DpIdle]
      BY <1>12 DEF DpRestart, DpIdle
    <3> QED
      BY <1>0, <3>1
  <2>5. dpReplay' \subseteq DpIds /\ dpAck' = dpAck
    BY <1>12 DEF DpRestart
  <2> QED
    BY <1>0, <2>1, <2>2, <2>3, <2>4, <2>5 DEF DpShape
<1>13. CASE UNCHANGED dpVars
  BY <1>13 DEF dpVars, DpShape
<1> QED
  BY <1>2, <1>3, <1>4, <1>5, <1>6, <1>7, <1>8, <1>9, <1>10, <1>11, <1>12, <1>13 DEF DpNext

\* An announcement that overlaps nothing leaves every deployment tracked.
LEMMA AnnounceTracked ==
    ASSUME DpInv, NEW t \in DpTasks, NEW i \in DpIds, dpTask[t].pc = "idle", Announce(t, i),
           UNCHANGED <<dpHost, dpRunning, dpStream, dpAck>>
    PROVE  DeactivationsRaced' /\ \A j \in DpLive \ dpRaced' : Tracked(j)'
<1>0. DpShape /\ DeactivationsRaced
  BY DEF DpInv
<1>1. /\ dpTask'[t].pc = "ack" /\ dpTask'[t].id = i /\ \A x \in DpTasks : x # t => dpTask'[x] = dpTask[x]
      /\ DOMAIN dpMap' = DOMAIN dpMap \cup {i} /\ dpMap'[i].by = t
      /\ \A k \in DOMAIN dpMap : k # i => dpMap'[k] = dpMap[k]
      /\ DOMAIN dpEvents' = DOMAIN dpEvents \cup {Len(dpEvents) + 1} /\ Len(dpEvents) + 1 \notin DOMAIN dpEvents
      /\ dpEvents'[Len(dpEvents) + 1].id = i /\ dpEvents'[Len(dpEvents) + 1].kind = "Deploy"
      /\ \A k \in DOMAIN dpEvents : dpEvents'[k] = dpEvents[k]
  BY <1>0, AnnounceResult
<1>2. dpRaced \subseteq dpRaced' /\ (i \notin dpRaced' => DpQuiet(i))
  BY DEF Announce
<1>3. DeactivationsRaced'
  BY <1>0, <1>1, <1>2 DEF DeactivationsRaced
<1>4. dpTask[t].id = "none" /\ \A j \in DpLive : j # "none"
  BY <1>0, DeploymentAssumption DEF DpShape, DpIds
<1>5. ASSUME NEW j \in DpLive \ dpRaced' PROVE Tracked(j)'
  <2>0. SeenOnce(j) /\ StreamNoted(j) /\ RejectionAlone(j) /\ RefusedIsClean(j)
    BY <1>2 DEF DpInv, Tracked
  <2>1. CASE j = i
    <3>1. /\ \A x \in DpTasks : dpTask[x].id # i
          /\ \A k \in DOMAIN dpEvents : dpEvents[k].id # i
          /\ ~AtHost(i)
      <4>1. DOMAIN dpEvents = 1..Len(dpEvents)
        BY <1>0 DEF DpShape
      <4> QED
        BY <1>2, <2>1, <4>1 DEF DpQuiet, AtHost
    <3>2. ~AtHost(i)'
      BY <3>1 DEF AtHost
    <3>3. SeenOnce(i)'
      BY <1>1, <3>1, <3>2 DEF SeenOnce
    <3>4. StreamNoted(i)'
      BY <1>1, <3>1 DEF StreamNoted, Announcing
    <3>5. RejectionAlone(i)' /\ RefusedIsClean(i)'
      BY <1>1, <3>2 DEF RejectionAlone, RefusedIsClean
    <3> QED
      BY <2>1, <3>3, <3>4, <3>5 DEF Tracked
  <2>2. CASE j # i
    <3>1. \A x \in DpTasks : (dpTask'[x].id = j <=> dpTask[x].id = j) /\ (dpTask[x].id = j => dpTask'[x] = dpTask[x])
      BY <1>1, <1>4, <2>2
    <3>2. \A k \in DOMAIN dpEvents' : dpEvents'[k].id = j => k \in DOMAIN dpEvents /\ dpEvents[k].id = j
      BY <1>1, <2>2
    <3>3. (Queued(j)' => Queued(j)) /\ AtHost(j)' = AtHost(j) /\ Announcing(j)' = Announcing(j)
      BY <3>1, <3>2 DEF Queued, AtHost, Announcing
    <3>4. /\ j \in DOMAIN dpMap' <=> j \in DOMAIN dpMap
          /\ j \in DOMAIN dpMap => dpMap'[j] = dpMap[j]
      BY <1>1, <2>2
    <3>5. SeenOnce(j)'
      BY <2>0, <3>2, <3>3 DEF SeenOnce
    <3>6. StreamNoted(j)'
      BY <2>0, <3>1, <3>3, <3>4 DEF StreamNoted
    <3>7. RejectionAlone(j)'
      BY <2>0, <3>3, <3>4 DEF RejectionAlone
    <3>8. RefusedIsClean(j)'
      BY <2>0, <3>1, <3>3, <3>4 DEF RefusedIsClean, Clean
    <3> QED
      BY <3>5, <3>6, <3>7, <3>8 DEF Tracked
  <2> QED
    BY <2>1, <2>2
<1> QED
  BY <1>3, <1>5

\* An event the host takes.
LEMMA TakeTracked ==
    ASSUME DpInv, dpEvents # << >>, dpEvents' = Tail(dpEvents), NEW j \in DpLive \ dpRaced
    PROVE  /\ \A k, l \in DOMAIN dpEvents' : dpEvents'[k].id = j /\ dpEvents'[l].id = j => k = l
           /\ Queued(j)' => Queued(j) /\ Head(dpEvents).id # j
<1>1. /\ 1 \in DOMAIN dpEvents /\ Head(dpEvents) = dpEvents[1]
      /\ \A k \in DOMAIN dpEvents' : k \in Nat \ {0} /\ k + 1 \in DOMAIN dpEvents /\ dpEvents'[k] = dpEvents[k + 1]
  BY TailResult DEF DpInv
<1>2. \A k, l \in DOMAIN dpEvents : dpEvents[k].id = j /\ dpEvents[l].id = j => k = l
  BY DEF DpInv, Tracked, SeenOnce
<1>3. ASSUME NEW k \in DOMAIN dpEvents', NEW l \in DOMAIN dpEvents', dpEvents'[k].id = j, dpEvents'[l].id = j
      PROVE  k = l
  <2>1. k + 1 = l + 1
    BY <1>1, <1>2, <1>3
  <2> QED
    BY <1>1, <2>1
<1>4. ASSUME NEW k \in DOMAIN dpEvents', dpEvents'[k].id = j PROVE Queued(j) /\ Head(dpEvents).id # j
  <2>1. k + 1 # 1
    BY <1>1
  <2> QED
    BY <1>1, <1>2, <1>4, <2>1 DEF Queued
<1> QED
  BY <1>3, <1>4 DEF Queued

LEMMA DeployInductive == DpInv /\ [DpNext]_dpVars => DpInv'
<1> SUFFICES ASSUME DpInv, [DpNext]_dpVars PROVE DpInv'
  OBVIOUS
<1>0. DpShape /\ DpShape' /\ DeactivationsRaced
  BY DeployShape DEF DpInv
<1> SUFFICES DeactivationsRaced' /\ \A j \in DpLive \ dpRaced' : Tracked(j)'
  BY <1>0 DEF DpInv
<1>1. \A j \in DpLive \ dpRaced : SeenOnce(j) /\ StreamNoted(j) /\ RejectionAlone(j) /\ RefusedIsClean(j)
  BY DEF DpInv, Tracked
<1>2. \A j \in DpLive : j # "none" /\ j \in DpIds
  BY DeploymentAssumption DEF DpIds
<1>3. CASE UNCHANGED <<dpTask, dpMap, dpEvents, dpHost, dpRunning, dpStream, dpAck, dpRaced>>
  BY <1>0, <1>1, <1>3 DEF DeactivationsRaced, Tracked, SeenOnce, StreamNoted, RejectionAlone, RefusedIsClean,
                          Queued, AtHost, Announcing, Clean
<1>4. ASSUME NEW i \in DpIds, EngineDeploys(i) \/ EngineDeactivates(i) PROVE DeactivationsRaced' /\ \A j \in DpLive \ dpRaced' : Tracked(j)'
  BY <1>3, <1>4 DEF EngineDeploys, EngineDeactivates
<1>5. ASSUME NEW i \in DpIds, Replay(i) PROVE DeactivationsRaced' /\ \A j \in DpLive \ dpRaced' : Tracked(j)'
  <2>1. "rec" \in DpTasks
    BY DEF DpTasks
  <2> QED
    BY <1>5, <2>1, AnnounceTracked DEF Replay
<1>6. CASE PollDeployment
  <2>1. "sub" \in DpTasks /\ Head(dpTopic.dep) \in DpIds
    <3>1. dpTopic.dep \in Seq(DpIds) /\ dpTopic.dep # << >>
      BY <1>0, <1>6 DEF PollDeployment, DpShape
    <3> QED
      BY <3>1 DEF DpTasks
  <2> QED
    BY <1>6, <2>1, AnnounceTracked DEF PollDeployment
<1>7. ASSUME NEW t \in DpTasks, AckSuccess(t) PROVE DeactivationsRaced' /\ \A j \in DpLive \ dpRaced' : Tracked(j)'
  <2>1. /\ UNCHANGED <<dpMap, dpEvents, dpHost, dpRunning, dpStream, dpRaced>>
        /\ dpTask[t].pc = "ack" /\ dpTask'[t].pc = "subscribe" /\ dpTask'[t].id = dpTask[t].id
        /\ \A x \in DpTasks : x # t => dpTask'[x] = dpTask[x]
    BY <1>0, <1>7 DEF AckSuccess, DpShape, DpTaskSet
  <2>2. /\ \A j \in DpLive : j # dpTask[t].id => dpAck'[j] = dpAck[j]
        /\ \A j \in DpLive : j = dpTask[t].id => dpAck'[j] = "success"
    BY <1>0, <1>2, <1>7 DEF AckSuccess, DpShape
  <2>3. DeactivationsRaced'
    BY <1>0, <2>1 DEF DeactivationsRaced
  <2>4. ASSUME NEW j \in DpLive \ dpRaced' PROVE Tracked(j)'
    <3>1. /\ \A x \in DpTasks : dpTask'[x].id = dpTask[x].id
          /\ SeenOnce(j) /\ StreamNoted(j) /\ RejectionAlone(j) /\ RefusedIsClean(j)
      BY <1>1, <2>1
    <3>2. SeenOnce(j)' /\ StreamNoted(j)' /\ RejectionAlone(j)'
      BY <2>1, <3>1 DEF SeenOnce, StreamNoted, RejectionAlone, Queued, AtHost, Announcing
    <3>3. RefusedIsClean(j)'
      <4>1. CASE j = dpTask[t].id
        BY <2>2, <4>1 DEF RefusedIsClean
      <4>2. CASE j # dpTask[t].id
        BY <2>1, <2>2, <3>1, <4>2 DEF RefusedIsClean, Queued, AtHost, Clean
      <4> QED
        BY <4>1, <4>2
    <3> QED
      BY <3>2, <3>3 DEF Tracked
  <2> QED
    BY <2>3, <2>4
<1>8. ASSUME NEW t \in DpTasks, Subscribe(t) PROVE DeactivationsRaced' /\ \A j \in DpLive \ dpRaced' : Tracked(j)'
  <2>1. /\ UNCHANGED <<dpMap, dpEvents, dpHost, dpRunning, dpAck, dpRaced>> /\ dpStream' = dpStream \cup {dpTask[t].id}
        /\ dpTask[t].pc = "subscribe" /\ dpTask'[t].pc = "note" /\ dpTask'[t].id = dpTask[t].id
        /\ \A x \in DpTasks : x # t => dpTask'[x] = dpTask[x]
    BY <1>0, <1>8 DEF Subscribe, DpShape, DpTaskSet
  <2>2. DeactivationsRaced'
    BY <1>0, <2>1 DEF DeactivationsRaced
  <2>3. ASSUME NEW j \in DpLive \ dpRaced' PROVE Tracked(j)'
    <3>1. /\ \A x \in DpTasks : dpTask'[x].id = dpTask[x].id
          /\ SeenOnce(j) /\ StreamNoted(j) /\ RejectionAlone(j) /\ RefusedIsClean(j)
      BY <1>1, <2>1
    <3>2. SeenOnce(j)' /\ StreamNoted(j)'
      BY <2>1, <3>1 DEF SeenOnce, StreamNoted, Queued, AtHost, Announcing
    <3>3. RejectionAlone(j)'
      BY <2>1, <3>1 DEF RejectionAlone, AtHost, Announcing
    <3>4. RefusedIsClean(j)'
      <4>1. j = dpTask[t].id => j \in DOMAIN dpMap
        BY <3>1 DEF StreamNoted
      <4>2. \A x \in DpTasks : dpTask[x].pc = "ack" => dpTask'[x] = dpTask[x]
        BY <2>1
      <4>3. CASE j = dpTask[t].id
        BY <2>1, <3>1, <4>1, <4>2, <4>3 DEF RefusedIsClean, Clean
      <4>4. CASE j # dpTask[t].id
        BY <2>1, <3>1, <4>2, <4>4 DEF RefusedIsClean, Queued, AtHost, Clean
      <4> QED
        BY <4>3, <4>4
    <3> QED
      BY <3>2, <3>3, <3>4 DEF Tracked
  <2> QED
    BY <2>2, <2>3
<1>9. ASSUME NEW t \in DpTasks, NoteSubscription(t) PROVE DeactivationsRaced' /\ \A j \in DpLive \ dpRaced' : Tracked(j)'
  <2> DEFINE i == dpTask[t].id
  <2>1. /\ UNCHANGED <<dpEvents, dpHost, dpRunning, dpStream, dpAck, dpRaced>>
        /\ dpTask[t].pc = "note" /\ dpTask'[t].pc = "idle" /\ dpTask'[t].id = "none"
        /\ \A x \in DpTasks : x # t => dpTask'[x] = dpTask[x]
    BY <1>0, <1>9 DEF NoteSubscription, DpShape, DpIdle
  <2>2. DeactivationsRaced'
    BY <1>0, <2>1 DEF DeactivationsRaced
  <2>3. /\ DOMAIN dpMap' = DOMAIN dpMap
        /\ \A k \in DOMAIN dpMap : dpMap'[k].by = dpMap[k].by /\ (k # i => dpMap'[k] = dpMap[k])
        /\ i \in DOMAIN dpMap /\ dpMap[i].by = t => dpMap'[i].noted = TRUE
    <3>1. PICK S \in SUBSET DpIds : dpMap \in [S -> DpMapEntry]
      BY <1>0 DEF DpShape
    <3>2. CASE i \in DOMAIN dpMap /\ dpMap[i].by = t
      <4>1. dpMap' = [dpMap EXCEPT ![i] = [dpMap[i] EXCEPT !.noted = TRUE]]
        BY <1>9, <3>1, <3>2 DEF NoteSubscription
      <4>2. dpMap[i] \in DpMapEntry
        BY <3>1, <3>2
      <4>3. [dpMap[i] EXCEPT !.noted = TRUE].by = dpMap[i].by /\ [dpMap[i] EXCEPT !.noted = TRUE].noted = TRUE
        BY <4>2 DEF DpMapEntry
      <4> QED
        BY <3>1, <3>2, <4>1, <4>3
    <3>3. CASE ~(i \in DOMAIN dpMap /\ dpMap[i].by = t)
      BY <1>9, <3>3 DEF NoteSubscription
    <3> QED
      BY <3>2, <3>3
  <2>4. ASSUME NEW j \in DpLive \ dpRaced' PROVE Tracked(j)'
    <3>1. SeenOnce(j) /\ StreamNoted(j) /\ RejectionAlone(j) /\ RefusedIsClean(j) /\ j # "none"
      BY <1>1, <1>2, <2>1
    <3>2. SeenOnce(j)'
      BY <2>1, <3>1 DEF SeenOnce, Queued, AtHost
    <3>3. RejectionAlone(j)'
      BY <2>1, <2>3, <3>1 DEF RejectionAlone, AtHost, Announcing
    <3>4. RefusedIsClean(j)'
      <4>1. \A x \in DpTasks : dpTask[x].pc = "ack" => dpTask'[x] = dpTask[x]
        BY <2>1
      <4> QED
        BY <2>1, <2>3, <3>1, <4>1 DEF RefusedIsClean, Queued, AtHost, Clean
    <3>5. StreamNoted(j)'
      <4>1. \A x \in DpTasks : dpTask'[x].id = j => j \in DOMAIN dpMap' /\ dpMap'[j].by = x
        BY <2>1, <2>3, <3>1 DEF StreamNoted
      <4>2. CASE j = i
        BY <2>3, <3>1, <4>1, <4>2 DEF StreamNoted
      <4>3. CASE j # i
        <5>1. Announcing(j) => Announcing(j)'
          BY <2>1, <4>3 DEF Announcing
        <5> QED
          BY <2>1, <2>3, <3>1, <4>1, <4>3, <5>1 DEF StreamNoted, AtHost
      <4> QED
        BY <4>2, <4>3
    <3> QED
      BY <3>2, <3>3, <3>4, <3>5 DEF Tracked
  <2> QED
    BY <2>2, <2>4
<1>10. CASE PollDeactivation
  <2> DEFINE i == Head(dpTopic.deact)
  <2>1. /\ UNCHANGED <<dpEvents, dpHost, dpRunning, dpStream, dpAck>> /\ dpRaced' = dpRaced \cup {i}
        /\ "sub" \in DpTasks /\ dpTask["sub"].id = "none" /\ dpTask'["sub"].id = i /\ dpTask'["sub"].pc = "tell"
        /\ \A x \in DpTasks : x # "sub" => dpTask'[x] = dpTask[x]
        /\ DOMAIN dpMap' = DOMAIN dpMap \ {i} /\ \A k \in DOMAIN dpMap : k # i => dpMap'[k] = dpMap[k]
    BY <1>0, <1>10 DEF PollDeactivation, DpShape, DpTasks
  <2> HIDE DEF i
  <2>2. DeactivationsRaced'
    BY <1>0, <2>1 DEF DeactivationsRaced
  <2>3. ASSUME NEW j \in DpLive \ dpRaced' PROVE Tracked(j)'
    <3>1. SeenOnce(j) /\ StreamNoted(j) /\ RejectionAlone(j) /\ RefusedIsClean(j) /\ j # "none" /\ j # i
      BY <1>1, <1>2, <2>1
    <3>2. \A x \in DpTasks : (dpTask'[x].id = j <=> dpTask[x].id = j) /\ (dpTask[x].id = j => dpTask'[x] = dpTask[x])
      BY <2>1, <3>1
    <3>3. /\ j \in DOMAIN dpMap' <=> j \in DOMAIN dpMap
          /\ j \in DOMAIN dpMap => dpMap'[j] = dpMap[j]
      BY <2>1, <3>1
    <3>4. SeenOnce(j)'
      BY <2>1, <3>1 DEF SeenOnce, Queued, AtHost
    <3>5. StreamNoted(j)' /\ RejectionAlone(j)'
      BY <2>1, <3>1, <3>2, <3>3 DEF StreamNoted, RejectionAlone, AtHost, Announcing
    <3>6. RefusedIsClean(j)'
      BY <2>1, <3>1, <3>2, <3>3 DEF RefusedIsClean, AtHost, Queued, Clean
    <3> QED
      BY <3>4, <3>5, <3>6 DEF Tracked
  <2> QED
    BY <2>2, <2>3
<1>11. CASE TellHost
  <2> DEFINE i == dpTask["sub"].id
  <2>1. /\ UNCHANGED <<dpMap, dpHost, dpRunning, dpStream, dpAck, dpRaced>>
        /\ "sub" \in DpTasks /\ dpTask["sub"].pc = "tell" /\ dpTask'["sub"].id = "none" /\ dpTask'["sub"].pc = "idle"
        /\ \A x \in DpTasks : x # "sub" => dpTask'[x] = dpTask[x]
        /\ i \in dpRaced
    BY <1>0, <1>11 DEF TellHost, DpShape, DpTasks, DpIdle, DeactivationsRaced
  <2>2. /\ \A k \in DOMAIN dpEvents' : \/ k \in DOMAIN dpEvents /\ dpEvents'[k] = dpEvents[k]
                                       \/ dpEvents'[k].id = i
        /\ \A k \in DOMAIN dpEvents : k \in DOMAIN dpEvents' /\ dpEvents'[k] = dpEvents[k]
    <3>1. dpEvents \in Seq(DpEventSet) /\ dpEvents' = Append(dpEvents, [kind |-> "Deactivate", id |-> i])
      BY <1>0, <1>11 DEF TellHost, DpShape, DpEventSet
    <3>2. PICK e : e = [kind |-> "Deactivate", id |-> i]
      OBVIOUS
    <3>3. e.id = i /\ dpEvents' = Append(dpEvents, e)
      BY <3>1, <3>2
    <3> HIDE DEF i
    <3> QED
      BY <3>1, <3>3
  <2> HIDE DEF i
  <2>3. DeactivationsRaced'
    BY <1>0, <2>1, <2>2 DEF DeactivationsRaced
  <2>4. ASSUME NEW j \in DpLive \ dpRaced' PROVE Tracked(j)'
    <3>1. SeenOnce(j) /\ StreamNoted(j) /\ RejectionAlone(j) /\ RefusedIsClean(j) /\ j # "none" /\ j # i
      BY <1>1, <1>2, <2>1
    <3>2. \A x \in DpTasks : (dpTask'[x].id = j <=> dpTask[x].id = j) /\ (dpTask[x].id = j => dpTask'[x] = dpTask[x])
      BY <2>1, <3>1 DEF i
    <3>3. \A k \in DOMAIN dpEvents' : dpEvents'[k].id = j => k \in DOMAIN dpEvents /\ dpEvents[k].id = j
      BY <2>2, <3>1
    <3>4. SeenOnce(j)'
      BY <2>1, <3>1, <3>3 DEF SeenOnce, Queued, AtHost
    <3>5. StreamNoted(j)' /\ RejectionAlone(j)'
      BY <2>1, <3>1, <3>2 DEF StreamNoted, RejectionAlone, AtHost, Announcing
    <3>6. RefusedIsClean(j)'
      BY <2>1, <3>1, <3>2, <3>3 DEF RefusedIsClean, AtHost, Queued, Clean
    <3> QED
      BY <3>4, <3>5, <3>6 DEF Tracked
  <2> QED
    BY <2>3, <2>4
<1>12. CASE HostDeploys
  <2> DEFINE i == Head(dpEvents).id
  <2>1. /\ dpEvents # << >> /\ dpEvents' = Tail(dpEvents) /\ dpHost.pc = "recv" /\ dpHost'.pc = "deciding" /\ dpHost'.id = i
        /\ UNCHANGED <<dpTask, dpMap, dpRunning, dpStream, dpAck, dpRaced>>
    BY <1>12 DEF HostDeploys
  <2>2. /\ 1 \in DOMAIN dpEvents /\ dpEvents[1].id = i
        /\ \A k \in DOMAIN dpEvents' : k + 1 \in DOMAIN dpEvents /\ dpEvents'[k] = dpEvents[k + 1]
    BY <1>0, <2>1, TailResult
  <2>3. DeactivationsRaced'
    BY <1>0, <2>1, <2>2 DEF DeactivationsRaced
  <2>4. ASSUME NEW j \in DpLive \ dpRaced' PROVE Tracked(j)'
    <3>1. SeenOnce(j) /\ StreamNoted(j) /\ RejectionAlone(j) /\ RefusedIsClean(j)
      BY <1>1, <2>1
    <3>2. /\ \A k, l \in DOMAIN dpEvents' : dpEvents'[k].id = j /\ dpEvents'[l].id = j => k = l
          /\ Queued(j)' => Queued(j) /\ i # j
      BY <2>1, TakeTracked
    <3>3. j = i => Queued(j)
      BY <2>2 DEF Queued
    <3>4. ~AtHost(j) /\ (AtHost(j)' => j = i)
      BY <2>1 DEF AtHost
    <3>5. SeenOnce(j)'
      BY <3>2, <3>4 DEF SeenOnce
    <3>6. StreamNoted(j)'
      BY <2>1, <3>1, <3>4 DEF StreamNoted, Announcing
    <3>7. RejectionAlone(j)'
      BY <2>1 DEF RejectionAlone
    <3>8. RefusedIsClean(j)'
      BY <2>1, <3>1, <3>2, <3>3, <3>4 DEF RefusedIsClean, Clean
    <3> QED
      BY <3>5, <3>6, <3>7, <3>8 DEF Tracked
  <2> QED
    BY <2>3, <2>4
<1>13. CASE HostAccepts \/ HostDropsPaper
  <2>1. /\ dpHost.pc = "deciding" /\ dpHost'.pc = "recv" /\ dpRunning' \subseteq dpRunning \cup {dpHost.id}
        /\ UNCHANGED <<dpTask, dpMap, dpEvents, dpStream, dpAck, dpRaced>>
    BY <1>0, <1>13 DEF HostAccepts, HostDropsPaper, DpShape
  <2>2. DeactivationsRaced'
    BY <1>0, <2>1 DEF DeactivationsRaced
  <2>3. ASSUME NEW j \in DpLive \ dpRaced' PROVE Tracked(j)'
    <3>1. SeenOnce(j) /\ StreamNoted(j) /\ RejectionAlone(j) /\ RefusedIsClean(j) /\ ~AtHost(j)'
      BY <1>1, <2>1 DEF AtHost
    <3>2. SeenOnce(j)' /\ RejectionAlone(j)'
      BY <2>1, <3>1 DEF SeenOnce, RejectionAlone, Queued
    <3>3. StreamNoted(j)'
      BY <2>1, <3>1 DEF StreamNoted, Announcing, AtHost
    <3>4. RefusedIsClean(j)'
      BY <2>1, <3>1 DEF RefusedIsClean, Clean, Queued, AtHost
    <3> QED
      BY <3>2, <3>3, <3>4 DEF Tracked
  <2> QED
    BY <2>2, <2>3
<1>14. CASE HostRejects
  <2> DEFINE i == dpHost.id
  <2>1. /\ dpHost.pc = "deciding" /\ dpHost'.pc = "unsubscribe" /\ dpHost'.id = i /\ dpRunning' = dpRunning \ {i}
        /\ dpHost'.drained = (i \in DOMAIN dpMap /\ dpMap[i].noted)
        /\ UNCHANGED <<dpTask, dpEvents, dpStream, dpAck>>
        /\ DOMAIN dpMap' = DOMAIN dpMap \ {i} /\ \A k \in DOMAIN dpMap : k # i => dpMap'[k] = dpMap[k]
    BY <1>0, <1>14 DEF HostRejects, DpShape, Unlisted
  <2>2. dpRaced \subseteq dpRaced' /\ (i \notin dpRaced' => ~Announcing(i))
    BY <1>14 DEF HostRejects, Announcing
  <2>3. DeactivationsRaced'
    BY <1>0, <2>1, <2>2 DEF DeactivationsRaced
  <2>4. ASSUME NEW j \in DpLive \ dpRaced' PROVE Tracked(j)'
    <3>1. SeenOnce(j) /\ StreamNoted(j) /\ RejectionAlone(j) /\ RefusedIsClean(j)
      BY <1>1, <2>2
    <3>2. Queued(j)' = Queued(j) /\ Announcing(j)' = Announcing(j) /\ (AtHost(j)' <=> j = i) /\ (AtHost(j) <=> j = i)
      BY <2>1 DEF Queued, Announcing, AtHost
    <3>3. SeenOnce(j)'
      BY <2>1, <3>1, <3>2 DEF SeenOnce
    <3>4. CASE j = i
      <4>1. ~Announcing(j) /\ j \notin DOMAIN dpMap' /\ j \notin dpRunning'
        BY <2>1, <2>2, <3>4
      <4>2. j \in dpStream => dpHost'.drained
        <5>1. j \in dpStream => (i \in DOMAIN dpMap /\ dpMap[i].noted)
          BY <2>1, <3>1, <3>4, <4>1 DEF StreamNoted
        <5> QED
          BY Zenon, <2>1, <5>1
      <4>3. StreamNoted(j)'
        BY <2>1, <3>2, <3>4, <4>1, <4>2 DEF StreamNoted, Announcing
      <4>4. RejectionAlone(j)'
        BY <2>1, <3>2, <4>1 DEF RejectionAlone
      <4>5. dpAck[j] # "failure"
        BY <2>1, <3>1, <3>2, <3>4, <4>1 DEF RefusedIsClean, Announcing
      <4>6. RefusedIsClean(j)'
        BY <2>1, <4>5 DEF RefusedIsClean
      <4> QED
        BY <3>3, <4>3, <4>4, <4>6 DEF Tracked
    <3>5. CASE j # i
      <4>1. /\ j \in DOMAIN dpMap' <=> j \in DOMAIN dpMap
            /\ j \in DOMAIN dpMap => dpMap'[j] = dpMap[j]
        BY <2>1, <3>5
      <4>2. StreamNoted(j)' /\ RejectionAlone(j)'
        BY <2>1, <3>1, <3>2, <3>5, <4>1 DEF StreamNoted, RejectionAlone
      <4>3. RefusedIsClean(j)'
        BY <2>1, <3>1, <3>2, <3>5, <4>1 DEF RefusedIsClean, Clean
      <4> QED
        BY <3>3, <4>2, <4>3 DEF Tracked
    <3> QED
      BY <3>4, <3>5
  <2> QED
    BY <2>3, <2>4
<1>15. CASE RejectUnsubscribes
  <2>1. /\ dpHost.pc = "unsubscribe" /\ dpHost'.pc = "refuse" /\ dpHost'.id = dpHost.id
        /\ dpStream' = IF dpHost.drained THEN dpStream \ {dpHost.id} ELSE dpStream
        /\ UNCHANGED <<dpTask, dpMap, dpEvents, dpRunning, dpAck, dpRaced>>
    BY <1>0, <1>15 DEF RejectUnsubscribes, DpShape
  <2>2. DeactivationsRaced'
    BY <1>0, <2>1 DEF DeactivationsRaced
  <2>3. ASSUME NEW j \in DpLive \ dpRaced' PROVE Tracked(j)'
    <3>1. SeenOnce(j) /\ StreamNoted(j) /\ RejectionAlone(j) /\ RefusedIsClean(j)
      BY <1>1, <2>1
    <3>2. Queued(j)' = Queued(j) /\ Announcing(j)' = Announcing(j) /\ AtHost(j)' = AtHost(j) /\ (AtHost(j) <=> j = dpHost.id)
      BY <2>1 DEF Queued, Announcing, AtHost
    <3>3. j = dpHost.id => j \notin dpStream'
      BY <2>1, <3>1, <3>2 DEF StreamNoted, RejectionAlone
    <3>4. j # dpHost.id => (j \in dpStream' <=> j \in dpStream)
      BY <2>1
    <3>5. SeenOnce(j)'
      BY <2>1, <3>1, <3>2 DEF SeenOnce
    <3>6. StreamNoted(j)'
      BY <2>1, <3>1, <3>2, <3>3, <3>4 DEF StreamNoted
    <3>7. RejectionAlone(j)'
      BY <2>1, <3>1, <3>2, <3>3 DEF RejectionAlone
    <3>8. RefusedIsClean(j)'
      BY <2>1, <3>1, <3>2, <3>3, <3>4 DEF RefusedIsClean, Clean
    <3> QED
      BY <3>5, <3>6, <3>7, <3>8 DEF Tracked
  <2> QED
    BY <2>2, <2>3
<1>16. CASE RejectAcks
  <2>1. /\ dpHost.pc = "refuse" /\ dpHost'.pc = "record" /\ dpHost'.id = dpHost.id
        /\ UNCHANGED <<dpTask, dpMap, dpEvents, dpRunning, dpStream, dpRaced>>
        /\ \A j \in DpLive : j # dpHost.id => dpAck'[j] = dpAck[j]
    BY <1>0, <1>2, <1>16 DEF RejectAcks, DpShape
  <2>2. DeactivationsRaced'
    BY <1>0, <2>1 DEF DeactivationsRaced
  <2>3. ASSUME NEW j \in DpLive \ dpRaced' PROVE Tracked(j)'
    <3>1. SeenOnce(j) /\ StreamNoted(j) /\ RejectionAlone(j) /\ RefusedIsClean(j)
      BY <1>1, <2>1
    <3>2. Queued(j)' = Queued(j) /\ Announcing(j)' = Announcing(j) /\ AtHost(j)' = AtHost(j) /\ (AtHost(j) <=> j = dpHost.id)
      BY <2>1 DEF Queued, Announcing, AtHost
    <3>3. SeenOnce(j)' /\ StreamNoted(j)' /\ RejectionAlone(j)'
      BY <2>1, <3>1, <3>2 DEF SeenOnce, StreamNoted, RejectionAlone
    <3>4. RefusedIsClean(j)'
      <4>1. CASE j = dpHost.id
        <5>1. Clean(j)' /\ ~Queued(j)'
          BY <2>1, <3>1, <3>2, <4>1 DEF Clean, RejectionAlone, SeenOnce
        <5> QED
          BY <2>1, <5>1 DEF RefusedIsClean
      <4>2. CASE j # dpHost.id
        BY <2>1, <3>1, <3>2, <4>2 DEF RefusedIsClean, Clean
      <4> QED
        BY <4>1, <4>2
    <3> QED
      BY <3>3, <3>4 DEF Tracked
  <2> QED
    BY <2>2, <2>3
<1>17. CASE RejectRecords
  <2>1. /\ dpHost.pc = "record" /\ dpHost'.pc = "recv"
        /\ UNCHANGED <<dpTask, dpMap, dpEvents, dpRunning, dpStream, dpAck, dpRaced>>
    BY <1>0, <1>17 DEF RejectRecords, DpShape
  <2>2. DeactivationsRaced'
    BY <1>0, <2>1 DEF DeactivationsRaced
  <2>3. ASSUME NEW j \in DpLive \ dpRaced' PROVE Tracked(j)'
    <3>1. SeenOnce(j) /\ StreamNoted(j) /\ RejectionAlone(j) /\ RefusedIsClean(j) /\ ~AtHost(j)'
      BY <1>1, <2>1 DEF AtHost
    <3>2. SeenOnce(j)' /\ RejectionAlone(j)'
      BY <2>1, <3>1 DEF SeenOnce, RejectionAlone, Queued
    <3>3. StreamNoted(j)'
      BY <2>1, <3>1 DEF StreamNoted, Announcing
    <3>4. RefusedIsClean(j)'
      BY <2>1, <3>1 DEF RefusedIsClean, Clean, Queued
    <3> QED
      BY <3>2, <3>3, <3>4 DEF Tracked
  <2> QED
    BY <2>2, <2>3
<1>18. CASE HostDeactivates
  <2> DEFINE i == Head(dpEvents).id
  <2>1. /\ dpEvents # << >> /\ dpEvents' = Tail(dpEvents) /\ Head(dpEvents).kind = "Deactivate" /\ dpRunning' = dpRunning \ {i}
        /\ UNCHANGED <<dpTask, dpMap, dpHost, dpStream, dpAck, dpRaced>>
    BY <1>18 DEF HostDeactivates
  <2>2. \A k \in DOMAIN dpEvents' : k + 1 \in DOMAIN dpEvents /\ dpEvents'[k] = dpEvents[k + 1]
    BY <1>0, <2>1, TailResult
  <2>3. DeactivationsRaced'
    BY <1>0, <2>1, <2>2 DEF DeactivationsRaced
  <2>4. ASSUME NEW j \in DpLive \ dpRaced' PROVE Tracked(j)'
    <3>1. SeenOnce(j) /\ StreamNoted(j) /\ RejectionAlone(j) /\ RefusedIsClean(j)
      BY <1>1, <2>1
    <3>2. /\ \A k, l \in DOMAIN dpEvents' : dpEvents'[k].id = j /\ dpEvents'[l].id = j => k = l
          /\ Queued(j)' => Queued(j)
      BY <2>1, TakeTracked
    <3>3. Announcing(j)' = Announcing(j) /\ AtHost(j)' = AtHost(j)
      BY <2>1 DEF Announcing, AtHost
    <3>4. SeenOnce(j)' /\ StreamNoted(j)' /\ RejectionAlone(j)'
      BY <2>1, <3>1, <3>2, <3>3 DEF SeenOnce, StreamNoted, RejectionAlone
    <3>5. RefusedIsClean(j)'
      BY <2>1, <3>1, <3>2, <3>3 DEF RefusedIsClean, Clean
    <3> QED
      BY <3>4, <3>5 DEF Tracked
  <2> QED
    BY <2>3, <2>4
<1>19. CASE DpRestart
  <2>1. dpRaced' = DpIds /\ dpTask' = [t \in DpTasks |-> DpIdle] /\ dpEvents' = << >>
    BY <1>19 DEF DpRestart
  <2>2. DeactivationsRaced'
    BY <2>1 DEF DeactivationsRaced, DpIdle
  <2> QED
    BY <1>2, <2>1, <2>2
<1>20. CASE UNCHANGED dpVars
  BY <1>3, <1>20 DEF dpVars
<1> QED
  BY <1>4, <1>5, <1>6, <1>7, <1>8, <1>9, <1>10, <1>11, <1>12, <1>13, <1>14, <1>15, <1>16, <1>17, <1>18, <1>19, <1>20 DEF DpNext

\* A live deployment the host refused after its announcement was complete is not listed,
\* does not run and has no stream, in every interleaving with other deployments,
\* their deactivations and their rejections (live_rejection.rs reject_live_deployment).
THEOREM RejectionLeavesNothing == DpSpec => []RejectionUndoesAll
<1>1. DpInit => DpInv
  <2> SUFFICES ASSUME DpInit PROVE DpInv
    OBVIOUS
  <2>1. /\ dpTask = [t \in DpTasks |-> DpIdle] /\ DpIdle \in DpTaskSet /\ DpIdle.pc = "idle" /\ DpIdle.id = "none"
        /\ dpEvents = << >> /\ dpHost.pc = "recv" /\ dpStream = {} /\ dpRunning = {}
    BY DEF DpInit, DpIdle, DpTaskSet
  <2>2. dpAck = [i \in DpIds |-> "none"] /\ \A i \in DpLive : i \in DpIds /\ i # "none"
    BY DeploymentAssumption DEF DpInit, DpIds
  <2>3. dpMap \in [{} -> DpMapEntry] /\ {} \in SUBSET DpIds
    BY DEF DpInit
  <2>4. DpShape
    <3>1. dpTopic \in [dep : Seq(DpIds), deact : Seq(DpIds)] /\ dpReplay \subseteq DpIds
          /\ dpAck \in [DpIds -> {"none", "success", "failure"}]
          /\ dpEvents \in Seq([kind : {"Deploy", "Deactivate"}, id : DpIds])
      BY <2>1, <2>2 DEF DpInit
    <3>2. dpHost \in [pc : {"recv", "deciding", "unsubscribe", "refuse", "record"}, id : DpIds \cup {"none"},
                      fresh : BOOLEAN, drained : BOOLEAN]
      BY DEF DpInit
    <3>3. /\ dpTask \in [DpTasks -> DpTaskSet]
          /\ \A t \in DpTasks : IF dpTask[t].pc = "idle" THEN dpTask[t].id = "none" ELSE dpTask[t].id \in DpIds
      BY <2>1
    <3> QED
      BY <2>1, <2>3, <3>1, <3>2, <3>3 DEF DpShape
  <2>5. DeactivationsRaced
    BY <2>1 DEF DeactivationsRaced
  <2>6. ASSUME NEW i \in DpLive PROVE Tracked(i)
    BY <2>1, <2>2 DEF Tracked, SeenOnce, StreamNoted, RejectionAlone, RefusedIsClean, Queued, AtHost
  <2> QED
    BY <2>4, <2>5, <2>6 DEF DpInv
<1>2. DpInv => RejectionUndoesAll
  <2> SUFFICES ASSUME DpInv, NEW i \in DpLive, dpAck[i] = "failure", DpQuiet(i), i \notin dpRaced
               PROVE  i \notin DOMAIN dpMap /\ i \notin dpStream /\ i \notin dpRunning
    BY DEF RejectionUndoesAll
  <2> QED
    BY DEF DpInv, Tracked, RefusedIsClean, Clean, DpQuiet
<1> QED
  BY <1>1, <1>2, DeployInductive, PTL DEF DpSpec

-----------------------------------------------------------------------------
(* The fill ledger. *)

FgTotal == [qty : Nat, notional : Nat, fee : Nat]
FgTrade == [qty : Nat \ {0}, price : Nat]
FgRecord == [total : FgTotal, seen : SUBSET (1..Len(fgVenue)), expected : Nat]

\* The quantity and the value of each trade.
QtyOf == [k \in DOMAIN fgVenue |-> fgVenue[k].qty]
ValueOf == [k \in DOMAIN fgVenue |-> fgVenue[k].qty * fgVenue[k].price]

FgShape ==
    /\ fgVenue \in Seq(FgTrade)
    /\ fgOrder \in FgRecord /\ fgWritten \in FgTotal

\* What was written is the quantity and the value of some of the trades, of the same
\* ones, and no more than their fees.
Covered ==
    /\ \E K \in SUBSET (1..Len(fgVenue)) :
          fgWritten.qty = SumFunctionOnSet(QtyOf, K) /\ fgWritten.notional = SumFunctionOnSet(ValueOf, K)
    /\ fgWritten.fee <= Len(fgVenue)

FgInv ==
    /\ FgShape /\ Covered
    /\ fgOrder.total = fgWritten
    /\ fgOrder.expected # 0 => fgWritten.qty <= fgOrder.expected

\* The trades are numbered and have positive quantities.
LEMMA TradeNumbers ==
    ASSUME FgShape
    PROVE  /\ Len(fgVenue) \in Nat /\ DOMAIN fgVenue = 1..Len(fgVenue) /\ IsFiniteSet(1..Len(fgVenue))
           /\ Cardinality(1..Len(fgVenue)) = Len(fgVenue)
           /\ \A k \in 1..Len(fgVenue) : fgVenue[k] \in FgTrade
           /\ \A k \in 1..Len(fgVenue) : QtyOf[k] \in Nat /\ QtyOf[k] > 0 /\ ValueOf[k] \in Nat
<1>1. Len(fgVenue) \in Nat /\ DOMAIN fgVenue = 1..Len(fgVenue)
  BY DEF FgShape
<1>2. IsFiniteSet(1..Len(fgVenue)) /\ Cardinality(1..Len(fgVenue)) = Len(fgVenue)
  <2>1. PICK n \in Nat : n = Len(fgVenue)
    BY <1>1
  <2>2. IsFiniteSet(1..n) /\ Cardinality(1..n) = IF 1 > n THEN 0 ELSE n - 1 + 1
    BY FS_Interval
  <2>3. (IF 1 > n THEN 0 ELSE n - 1 + 1) = n
    OBVIOUS
  <2> QED
    BY <2>1, <2>2, <2>3
<1>3. \A k \in 1..Len(fgVenue) : fgVenue[k] \in FgTrade
  <2>1. PICK S : S = FgTrade /\ fgVenue \in Seq(S)
    BY DEF FgShape
  <2>2. fgVenue \in Seq(S)
    BY <2>1
  <2> SUFFICES ASSUME NEW k \in 1..Len(fgVenue) PROVE fgVenue[k] \in S
    BY <2>1
  <2> QED
    BY <2>2
<1>4. ASSUME NEW k \in 1..Len(fgVenue) PROVE QtyOf[k] \in Nat /\ QtyOf[k] > 0 /\ ValueOf[k] \in Nat
  <2>1. PICK q \in Nat, p \in Nat : q = fgVenue[k].qty /\ p = fgVenue[k].price /\ q > 0
    BY <1>3 DEF FgTrade
  <2>2. q * p \in Nat
    OBVIOUS
  <2>3. QtyOf[k] = q /\ ValueOf[k] = q * p
    BY <1>1, <2>1 DEF QtyOf, ValueOf
  <2> QED
    BY <2>1, <2>2, <2>3
<1> QED
  BY <1>1, <1>2, <1>3, <1>4

\* The totals of some trades are at most those of all, and the same only for all.
LEMMA TotalsOrdered ==
    ASSUME FgShape, NEW K \in SUBSET (1..Len(fgVenue))
    PROVE  /\ SumFunctionOnSet(QtyOf, K) \in Nat /\ SumFunctionOnSet(ValueOf, K) \in Nat
           /\ Cardinality(K) \in Nat /\ Cardinality(K) <= Len(fgVenue)
           /\ Executed.qty = SumFunctionOnSet(QtyOf, 1..Len(fgVenue))
           /\ Executed.notional = SumFunctionOnSet(ValueOf, 1..Len(fgVenue))
           /\ Executed.fee = Len(fgVenue)
           /\ SumFunctionOnSet(QtyOf, K) <= Executed.qty
           /\ SumFunctionOnSet(ValueOf, K) <= Executed.notional
           /\ SumFunctionOnSet(QtyOf, K) = Executed.qty => SumFunctionOnSet(ValueOf, K) = Executed.notional
<1>1. /\ IsFiniteSet(1..Len(fgVenue)) /\ DOMAIN fgVenue = 1..Len(fgVenue)
      /\ \A k \in 1..Len(fgVenue) : QtyOf[k] \in Nat
      /\ \A k \in 1..Len(fgVenue) : ValueOf[k] \in Nat
      /\ \A k \in 1..Len(fgVenue) : QtyOf[k] > 0
  BY TradeNumbers
<1>2. /\ SumFunctionOnSet(QtyOf, K) \in Nat /\ SumFunctionOnSet(QtyOf, 1..Len(fgVenue)) \in Nat
      /\ SumFunctionOnSet(QtyOf, K) <= SumFunctionOnSet(QtyOf, 1..Len(fgVenue))
      /\ \A x \in 1..Len(fgVenue) \ K :
            QtyOf[x] > 0 => SumFunctionOnSet(QtyOf, K) < SumFunctionOnSet(QtyOf, 1..Len(fgVenue))
  BY <1>1, SumOfPart
<1>3. /\ SumFunctionOnSet(ValueOf, K) \in Nat
      /\ SumFunctionOnSet(ValueOf, K) <= SumFunctionOnSet(ValueOf, 1..Len(fgVenue))
  BY <1>1, SumOfPart
<1>4. /\ Executed.qty = SumFunctionOnSet(QtyOf, 1..Len(fgVenue))
      /\ Executed.notional = SumFunctionOnSet(ValueOf, 1..Len(fgVenue))
      /\ Executed.fee = Len(fgVenue)
  BY <1>1, TradeNumbers DEF Executed, Totals, QtyOf, ValueOf
<1>5. SumFunctionOnSet(QtyOf, K) = Executed.qty => SumFunctionOnSet(ValueOf, K) = Executed.notional
  <2> SUFFICES ASSUME SumFunctionOnSet(QtyOf, K) = SumFunctionOnSet(QtyOf, 1..Len(fgVenue))
               PROVE  K = 1..Len(fgVenue)
    BY <1>4
  <2>1. ASSUME NEW x \in 1..Len(fgVenue) \ K PROVE FALSE
    <3>1. SumFunctionOnSet(QtyOf, K) < SumFunctionOnSet(QtyOf, 1..Len(fgVenue))
      BY <1>1, <1>2
    <3> QED
      BY <1>2, <3>1
  <2> QED
    BY <2>1
<1>6. Cardinality(K) \in Nat /\ Cardinality(K) <= Len(fgVenue)
  <2>1. IsFiniteSet(K) /\ Cardinality(K) <= Cardinality(1..Len(fgVenue))
    BY <1>1, FS_Subset
  <2>2. Cardinality(K) \in Nat
    BY <2>1, FS_CardinalityType
  <2> QED
    BY <2>1, <2>2, TradeNumbers
<1> QED
  BY <1>2, <1>3, <1>4, <1>5, <1>6

\* The invariant is enough.
LEMMA LedgerCounts == FgInv => FillsCountedOnce
<1> SUFFICES ASSUME FgInv PROVE FillsCountedOnce
  OBVIOUS
<1>1. FgShape /\ fgWritten.fee <= Len(fgVenue)
  BY DEF FgInv, Covered
<1>2. PICK K \in SUBSET (1..Len(fgVenue)) :
        fgWritten.qty = SumFunctionOnSet(QtyOf, K) /\ fgWritten.notional = SumFunctionOnSet(ValueOf, K)
  BY DEF FgInv, Covered
<1>3. /\ SumFunctionOnSet(QtyOf, K) <= Executed.qty
      /\ SumFunctionOnSet(ValueOf, K) <= Executed.notional
      /\ SumFunctionOnSet(QtyOf, K) = Executed.qty => SumFunctionOnSet(ValueOf, K) = Executed.notional
      /\ Executed.fee = Len(fgVenue)
  BY <1>1, TotalsOrdered
<1> QED
  BY <1>1, <1>2, <1>3 DEF FgInv, FillsCountedOnce

\* A report of some of the trades, with their fees or without, is booked exactly or not at all.
LEMMA AdvanceCounts ==
    ASSUME FgInv, NEW rec \in FgRecord, rec.total = fgWritten, rec.expected = fgOrder.expected,
           NEW K \in SUBSET (1..Len(fgVenue)), NEW cum \in FgTotal,
           cum.qty = SumFunctionOnSet(QtyOf, K), cum.notional = SumFunctionOnSet(ValueOf, K),
           cum.fee <= Len(fgVenue), Advance(rec, cum), UNCHANGED fgVenue
    PROVE  FgInv'
<1>1. FgShape /\ Covered /\ Len(fgVenue) \in Nat
  BY TradeNumbers DEF FgInv
<1>2. QtyOf' = QtyOf /\ ValueOf' = ValueOf /\ FgRecord' = FgRecord
  BY DEF QtyOf, ValueOf, FgRecord
<1>3. CASE Delta(rec, cum) = {}
  <2>1. fgOrder' = rec /\ fgWritten' = fgWritten
    BY <1>3 DEF Advance
  <2>2. FgShape'
    BY <1>1, <1>2, <2>1 DEF FgShape
  <2>3. Covered'
    BY <1>1, <1>2, <2>1 DEF Covered
  <2> QED
    BY <2>1, <2>2, <2>3 DEF FgInv
<1>4. CASE Delta(rec, cum) # {}
  <2>1. PICK d \in Delta(rec, cum) : fgOrder' = [rec EXCEPT !.total = Plus(rec.total, d)] /\ fgWritten' = Plus(fgWritten, d)
    BY <1>4 DEF Advance
  <2>2. /\ d = [qty |-> cum.qty - rec.total.qty, notional |-> cum.notional - rec.total.notional,
                fee |-> Max({cum.fee - rec.total.fee, 0})]
        /\ rec.expected # 0 => cum.qty <= rec.expected
    BY <2>1 DEF Delta
  <2>3. PICK wq \in Nat, wn \in Nat, wf \in Nat, cq \in Nat, cn \in Nat, cf \in Nat :
           /\ wq = fgWritten.qty /\ wn = fgWritten.notional /\ wf = fgWritten.fee
           /\ cq = cum.qty /\ cn = cum.notional /\ cf = cum.fee
    BY <1>1 DEF FgShape, FgTotal
  <2>4. d.qty = cq - wq /\ d.notional = cn - wn /\ d.fee = IF cf - wf >= 0 THEN cf - wf ELSE 0
    <3>1. Max({cf - wf, 0}) = IF cf - wf >= 0 THEN cf - wf ELSE 0
      BY <2>3, MaxOfTwo
    <3> QED
      BY <2>2, <2>3, <3>1
  <2>5. Plus(fgWritten, d) = [qty |-> cq, notional |-> cn, fee |-> IF cf - wf >= 0 THEN cf ELSE wf]
    <3>1. wq + (cq - wq) = cq /\ wn + (cn - wn) = cn /\ wf + (IF cf - wf >= 0 THEN cf - wf ELSE 0) = IF cf - wf >= 0 THEN cf ELSE wf
      BY <2>3
    <3> QED
      BY <2>3, <2>4, <3>1 DEF Plus
  <2>6. fgWritten' \in FgTotal /\ fgWritten'.qty = cq /\ fgWritten'.notional = cn /\ fgWritten'.fee <= Len(fgVenue)
    <3>1. cf <= Len(fgVenue) /\ wf <= Len(fgVenue)
      BY <1>1, <2>3 DEF Covered
    <3> QED
      BY <2>1, <2>3, <2>5, <3>1 DEF FgTotal
  <2>7. fgOrder' = [rec EXCEPT !.total = fgWritten']
    BY <2>1
  <2>8. fgOrder' \in FgRecord /\ fgOrder'.total = fgWritten' /\ fgOrder'.expected = rec.expected
    BY <2>6, <2>7 DEF FgRecord
  <2>9. FgShape'
    BY <1>1, <1>2, <2>6, <2>8 DEF FgShape
  <2>10. Covered'
    BY <1>2, <2>3, <2>6 DEF Covered
  <2>11. fgOrder'.expected # 0 => fgWritten'.qty <= fgOrder'.expected
    BY <2>2, <2>3, <2>6, <2>8
  <2> QED
    BY <2>8, <2>9, <2>10, <2>11 DEF FgInv
<1> QED
  BY <1>3, <1>4

\* Every action keeps the ledger's invariant.
LEMMA LedgerStep == FgInv /\ [FgNext]_fgVars => FgInv'
<1> SUFFICES ASSUME FgInv, [FgNext]_fgVars PROVE FgInv'
  OBVIOUS
<1>1. FgShape /\ Covered /\ Len(fgVenue) \in Nat /\ DOMAIN fgVenue = 1..Len(fgVenue)
  BY TradeNumbers DEF FgInv
<1>2. CASE VenueExecutes
  <2>1. PICK q \in FgQtys, p \in FgPrices : fgVenue' = Append(fgVenue, [qty |-> q, price |-> p])
    BY <1>2 DEF VenueExecutes
  <2>2. [qty |-> q, price |-> p] \in FgTrade
    BY LedgerAssumption DEF FgTrade
  <2>3. /\ fgVenue' \in Seq(FgTrade) /\ Len(fgVenue') = Len(fgVenue) + 1
        /\ \A k \in 1..Len(fgVenue) : fgVenue'[k] = fgVenue[k]
    BY <1>1, <2>1, <2>2 DEF FgShape
  <2>4. DOMAIN fgVenue' = 1..Len(fgVenue') /\ 1..Len(fgVenue) \subseteq 1..Len(fgVenue')
    BY <1>1, <2>3
  <2>5. fgOrder' = fgOrder /\ fgWritten' = fgWritten
    BY <1>2 DEF VenueExecutes
  <2>6. FgShape'
    <3>1. fgOrder' \in FgRecord'
      BY <1>1, <2>4, <2>5 DEF FgShape, FgRecord
    <3> QED
      BY <1>1, <2>3, <2>5, <3>1 DEF FgShape
  <2>7. Covered'
    <3>1. PICK K \in SUBSET (1..Len(fgVenue)) :
             fgWritten.qty = SumFunctionOnSet(QtyOf, K) /\ fgWritten.notional = SumFunctionOnSet(ValueOf, K)
      BY <1>1 DEF Covered
    <3>2. IsFiniteSet(K) /\ \A k \in K : QtyOf[k] \in Int /\ ValueOf[k] \in Int
      <4>1. IsFiniteSet(1..Len(fgVenue)) /\ \A k \in 1..Len(fgVenue) : QtyOf[k] \in Nat /\ ValueOf[k] \in Nat
        BY <1>1, TradeNumbers
      <4>2. IsFiniteSet(K)
        BY <4>1, FS_Subset
      <4> QED
        BY <4>1, <4>2
    <3>3. \A k \in K : QtyOf'[k] = QtyOf[k] /\ ValueOf'[k] = ValueOf[k]
      BY <1>1, <2>3, <2>4 DEF QtyOf, ValueOf
    <3>4. SumFunctionOnSet(QtyOf, K) = SumFunctionOnSet(QtyOf', K)
      BY <3>2, <3>3, SumSame
    <3>5. SumFunctionOnSet(ValueOf, K) = SumFunctionOnSet(ValueOf', K)
      BY <3>2, <3>3, SumSame
    <3>6. fgWritten.fee <= Len(fgVenue) + 1
      <4>1. PICK w \in Nat, n \in Nat : w = fgWritten.fee /\ n = Len(fgVenue) /\ w <= n
        BY <1>1 DEF FgShape, FgTotal, Covered
      <4> QED
        BY <4>1
    <3>7. K \in SUBSET (1..Len(fgVenue'))
      BY <2>4
    <3> QED
      BY <2>3, <2>5, <3>1, <3>4, <3>5, <3>6, <3>7 DEF Covered
  <2> QED
    BY <2>5, <2>6, <2>7 DEF FgInv
<1>3. CASE Seed
  <2>1. fgOrder' = [total |-> fgWritten, seen |-> {}, expected |-> 0] /\ fgWritten' = fgWritten /\ fgVenue' = fgVenue
    BY <1>3 DEF Seed
  <2>2. fgOrder' \in FgRecord /\ fgOrder'.total = fgWritten /\ fgOrder'.expected = 0
    BY <1>1, <2>1 DEF FgShape, FgRecord
  <2>3. FgShape'
    BY <1>1, <2>1, <2>2 DEF FgShape, FgRecord
  <2>4. Covered'
    BY <1>1, <2>1 DEF Covered, QtyOf, ValueOf
  <2> QED
    BY <2>1, <2>2, <2>3, <2>4 DEF FgInv
<1>4. ASSUME NEW K \in SUBSET (1..Len(fgVenue))
      PROVE  /\ Totals(K) \in FgTotal /\ Totals(K).fee <= Len(fgVenue)
             /\ Totals(K).qty = SumFunctionOnSet(QtyOf, K) /\ Totals(K).notional = SumFunctionOnSet(ValueOf, K)
  BY <1>1, TotalsOrdered DEF Totals, FgTotal, QtyOf, ValueOf
<1>5. fgOrder \in FgRecord /\ fgOrder.total = fgWritten
  BY <1>1 DEF FgInv, FgShape
<1>6. ASSUME NEW n \in 1..Len(fgVenue), NEW withFee \in BOOLEAN, apply_cumulative(n, withFee) PROVE FgInv'
  <2>1. PICK K \in SUBSET (1..Len(fgVenue)) : K = 1..n
    BY <1>1
  <2> DEFINE cum == IF withFee THEN Totals(K) ELSE [Totals(K) EXCEPT !.fee = 0]
  <2>2. /\ cum \in FgTotal /\ cum.fee <= Len(fgVenue)
        /\ cum.qty = SumFunctionOnSet(QtyOf, K) /\ cum.notional = SumFunctionOnSet(ValueOf, K)
    BY <1>1, <1>4 DEF FgTotal
  <2>3. Advance(fgOrder, cum) /\ UNCHANGED fgVenue
    BY <1>6, <2>1 DEF apply_cumulative
  <2> HIDE DEF cum
  <2> QED
    BY <1>5, <2>2, <2>3, AdvanceCounts
<1>7. ASSUME NEW k \in DOMAIN fgVenue, apply_trade(k) PROVE FgInv'
  <2> DEFINE rec == [fgOrder EXCEPT !.seen = fgOrder.seen \cup {k}]
  <2>1. rec \in FgRecord /\ rec.total = fgWritten /\ rec.expected = fgOrder.expected /\ rec.seen \in SUBSET (1..Len(fgVenue))
    BY <1>1, <1>5 DEF FgRecord
  <2>2. Advance(rec, Totals(rec.seen)) /\ UNCHANGED fgVenue
    BY <1>7 DEF apply_trade
  <2> HIDE DEF rec
  <2>3. /\ Totals(rec.seen) \in FgTotal /\ Totals(rec.seen).fee <= Len(fgVenue)
        /\ Totals(rec.seen).qty = SumFunctionOnSet(QtyOf, rec.seen)
        /\ Totals(rec.seen).notional = SumFunctionOnSet(ValueOf, rec.seen)
    BY <1>4, <2>1
  <2> QED
    BY <2>1, <2>2, <2>3, AdvanceCounts
<1>8. CASE UNCHANGED fgVars
  BY <1>1, <1>8 DEF fgVars, FgInv, FgShape, FgRecord, Covered, QtyOf, ValueOf
<1> QED
  BY <1>2, <1>3, <1>6, <1>7, <1>8 DEF FgNext

\* Never more is written than was executed, a complete quantity has its exact value, and
\* a known order size is never exceeded: for any number of trades and any mix of late,
\* repeated and reordered reports of either kind, and restarts (fill_ledger.rs advance).
THEOREM FillsAreCountedOnce == FgSpec => []FillsCountedOnce
<1>1. FgInit => FgInv
  <2> SUFFICES ASSUME FgInit PROVE FgInv
    OBVIOUS
  <2>1. fgVenue = << >> /\ fgWritten = FgZero
    BY DEF FgInit
  <2>2. PICK e \in {0, FgExpected} : fgOrder = [total |-> FgZero, seen |-> {}, expected |-> e]
    BY DEF FgInit
  <2>3. e \in Nat
    BY LedgerAssumption
  <2>4. FgZero \in FgTotal /\ FgZero.qty = 0 /\ FgZero.notional = 0 /\ FgZero.fee = 0
    BY DEF FgZero, FgTotal
  <2>5. fgOrder \in FgRecord /\ fgOrder.total = FgZero
    BY <2>2, <2>3, <2>4 DEF FgRecord
  <2>6. FgShape
    BY <2>1, <2>4, <2>5 DEF FgShape
  <2>7. SumFunctionOnSet(QtyOf, {}) = 0 /\ SumFunctionOnSet(ValueOf, {}) = 0
    <3>1. IsFiniteSet({}) /\ (\A x \in {} : QtyOf[x] \in Int) /\ (\A x \in {} : ValueOf[x] \in Int)
      BY FS_EmptySet
    <3> QED
      BY <3>1, SumWithout
  <2>8. Covered
    <3>1. {} \in SUBSET (1..Len(fgVenue)) /\ 0 <= Len(fgVenue)
      BY <2>1
    <3> QED
      BY <2>1, <2>4, <2>7, <3>1 DEF Covered
  <2>9. fgOrder.expected # 0 => fgWritten.qty <= fgOrder.expected
    BY <2>1, <2>2, <2>3, <2>4
  <2> QED
    BY <2>1, <2>5, <2>6, <2>8, <2>9 DEF FgInv
<1> QED
  BY <1>1, LedgerStep, LedgerCounts, PTL DEF FgSpec

-----------------------------------------------------------------------------
(* A quantity taken in turn: from each element what is left, up to what it *)
(* has, the elements in the order of their ranks.                          *)

\* A finite set has an element of highest rank.
LEMMA LastOf ==
    ASSUME NEW S, IsFiniteSet(S), S # {}, NEW rank, \A x \in S : rank[x] \in Int
    PROVE  \E y \in S : \A x \in S : rank[x] <= rank[y]
<1> DEFINE Top(T) == \E y \in T : \A x \in T : rank[x] <= rank[y]
           Bad == {T \in SUBSET S : T # {} /\ ~Top(T)}
<1>1. ASSUME NEW T \in Bad, T # {}
      PROVE  \E y \in T : T \ {y} \in Bad
  <2>1. PICK y \in T : TRUE
    BY <1>1
  <2>2. T \ {y} # {}
    <3>1. SUFFICES ASSUME T \ {y} = {} PROVE Top(T)
      OBVIOUS
    <3>2. \A x \in T : rank[x] <= rank[y]
      BY <3>1
    <3> QED  BY <2>1, <3>2
  <2>3. ASSUME Top(T \ {y}) PROVE Top(T)
    <3>1. PICK z \in T \ {y} : \A x \in T \ {y} : rank[x] <= rank[z]
      BY <2>3
    <3>2. rank[y] \in Int /\ rank[z] \in Int /\ \A x \in T : rank[x] \in Int
      OBVIOUS
    <3>3. CASE rank[y] <= rank[z]
      BY <3>1, <3>3
    <3>4. CASE rank[z] <= rank[y]
      <4>1. \A x \in T : rank[x] <= rank[y]
        BY <3>1, <3>2, <3>4
      <4> QED  BY <4>1
    <3> QED  BY <3>2, <3>3, <3>4
  <2> QED  BY <2>1, <2>2, <2>3
<1>2. Bad = {}
  <2>1. Bad \in SUBSET (SUBSET S) /\ {} \notin Bad
    OBVIOUS
  <2> HIDE DEF Bad
  <2> QED  BY <1>1, <2>1, NoBadPart
<1> QED  BY <1>2

\* What r allows of a, nothing once r is used up.
Clip(r, a) == IF r <= 0 THEN 0 ELSE IF a <= r THEN a ELSE r

\* The elements before x, and what is taken of each.
Before(S, rank, x) == {y \in S : rank[y] < rank[x]}
Takes(S, f, rank, r, take) == \A x \in S : take[x] = Clip(r - SumFunctionOnSet(f, Before(S, rank, x)), f[x])

LEMMA ClipAdded ==
    ASSUME NEW r \in Int, NEW a \in Nat, NEW b \in Nat
    PROVE  /\ Clip(r, a) \in 0..a /\ Clip(r, a + b) = Clip(r - b, a) + Clip(r, b)
           /\ (r >= 0 => Clip(r, a) <= r)
           /\ (Clip(r, a) < a => r < a)
BY DEF Clip

\* The sums that come up in a sweep.
LEMMA SweepSums ==
    ASSUME NEW S, IsFiniteSet(S), NEW f, \A x \in S : f[x] \in Nat,
           NEW rank, NEW r \in Int, NEW take, Takes(S, f, rank, r, take)
    PROVE  /\ \A T \in SUBSET S : SumFunctionOnSet(f, T) \in Nat
           /\ \A x \in S : /\ SumFunctionOnSet(f, Before(S, rank, x)) \in Nat
                           /\ take[x] \in 0..f[x]
<1>1. \A T \in SUBSET S : SumFunctionOnSet(f, T) \in Nat
  BY SumOfPart
<1>2. ASSUME NEW x \in S
      PROVE  SumFunctionOnSet(f, Before(S, rank, x)) \in Nat /\ take[x] \in 0..f[x]
  <2>1. Before(S, rank, x) \in SUBSET S
    BY DEF Before
  <2>2. PICK b \in Nat, a \in Nat : b = SumFunctionOnSet(f, Before(S, rank, x)) /\ a = f[x]
    BY <1>1, <2>1
  <2>3. take[x] = Clip(r - b, a) /\ r - b \in Int
    BY <2>2 DEF Takes
  <2>4. Clip(r - b, a) \in 0..a
    BY <2>3, ClipAdded
  <2> QED  BY <2>2, <2>3, <2>4
<1> QED  BY <1>1, <1>2

\* All that is asked for is taken, or all there is.
LEMMA SweepTotal ==
    ASSUME NEW S, IsFiniteSet(S), NEW f, \A x \in S : f[x] \in Nat,
           NEW rank, \A x \in S : rank[x] \in Int, \A x, y \in S : rank[x] = rank[y] => x = y,
           NEW r \in Int, NEW take, Takes(S, f, rank, r, take)
    PROVE  SumFunctionOnSet(take, S) = Clip(r, SumFunctionOnSet(f, S))
<1>1. /\ \A T \in SUBSET S : SumFunctionOnSet(f, T) \in Nat
      /\ \A x \in S : take[x] \in 0..f[x]
  BY SweepSums
<1>2. ASSUME NEW T \in SUBSET S, NEW g, \A x \in S : g[x] \in Int
      PROVE  /\ IsFiniteSet(T) /\ SumFunctionOnSet(g, T) \in Int /\ SumFunctionOnSet(g, {}) = 0
             /\ \A y \in T : /\ SumFunctionOnSet(g, T \ {y}) \in Int
                             /\ SumFunctionOnSet(g, T) = g[y] + SumFunctionOnSet(g, T \ {y})
  <2>1. IsFiniteSet(T)
    BY FS_Subset
  <2>2. \A x \in T : g[x] \in Int
    BY <1>2
  <2> QED  BY <2>1, <2>2, SumWithout
<1>3. \A x \in S : f[x] \in Int /\ take[x] \in Int
  BY <1>1
<1> DEFINE First(T) == \A x \in T : Before(S, rank, x) \subseteq T
           Total(T) == SumFunctionOnSet(take, T) = Clip(r, SumFunctionOnSet(f, T))
           Bad == {T \in SUBSET S : First(T) /\ ~Total(T)}
<1>4. {} \notin Bad
  <2>1. SumFunctionOnSet(take, {}) = 0 /\ SumFunctionOnSet(f, {}) = 0
    BY <1>2, <1>3
  <2>2. Clip(r, 0) = 0
    BY DEF Clip
  <2> QED  BY <2>1, <2>2
<1>5. ASSUME NEW T \in Bad, T # {}
      PROVE  \E y \in T : T \ {y} \in Bad
  <2>1. PICK y \in T : \A x \in T : rank[x] <= rank[y]
    <3>1. IsFiniteSet(T) /\ \A x \in T : rank[x] \in Int
      BY FS_Subset
    <3> QED  BY <1>5, <3>1, LastOf
  <2>2. Before(S, rank, y) = T \ {y}
    <3>1. ASSUME NEW x \in Before(S, rank, y) PROVE x \in T \ {y}
      BY <2>1 DEF Before
    <3>2. ASSUME NEW x \in T \ {y} PROVE x \in Before(S, rank, y)
      <4>1. rank[x] <= rank[y] /\ rank[x] # rank[y] /\ rank[x] \in Int /\ rank[y] \in Int
        BY <2>1
      <4> QED  BY <4>1 DEF Before
    <3> QED  BY <3>1, <3>2
  <2>3. First(T \ {y})
    <3> SUFFICES ASSUME NEW x \in T \ {y}, NEW z \in Before(S, rank, x) PROVE z \in T \ {y}
      OBVIOUS
    <3>1. z \in T
      OBVIOUS
    <3>2. rank[z] < rank[x] /\ rank[x] <= rank[y] /\ rank[x] \in Int /\ rank[y] \in Int
      BY <2>1 DEF Before
    <3> QED  BY <3>1, <3>2
  <2>4. SUFFICES ASSUME Total(T \ {y}) PROVE Total(T)
    BY <2>1, <2>3
  <2>5. PICK a \in Nat, b \in Nat : a = f[y] /\ b = SumFunctionOnSet(f, T \ {y})
    BY <1>1, <2>1
  <2>6. SumFunctionOnSet(f, T) = a + b
    BY <1>2, <1>3, <2>1, <2>5
  <2>7. SumFunctionOnSet(take, T) = take[y] + Clip(r, b)
    <3>1. SumFunctionOnSet(take, T) = take[y] + SumFunctionOnSet(take, T \ {y})
      BY <1>2, <1>3, <2>1
    <3> QED  BY <2>4, <2>5, <3>1
  <2>8. take[y] = Clip(r - b, a)
    BY <2>1, <2>2, <2>5 DEF Takes
  <2>9. Clip(r, a + b) = Clip(r - b, a) + Clip(r, b)
    BY ClipAdded
  <2> QED  BY <2>6, <2>7, <2>8, <2>9
<1>6. Bad = {}
  <2>1. Bad \in SUBSET (SUBSET S)
    OBVIOUS
  <2> HIDE DEF Bad
  <2> QED  BY <1>4, <1>5, <2>1, NoBadPart
<1>7. First(S)
  BY DEF Before
<1> QED  BY <1>6, <1>7


\* A rank that splits a sweep: everything is taken before it and nothing after it.
LEMMA SweepSplits ==
    ASSUME NEW S, IsFiniteSet(S), NEW f, \A x \in S : f[x] \in Nat,
           NEW rank, \A x \in S : rank[x] \in Int, \A x, y \in S : rank[x] = rank[y] => x = y,
           NEW r \in Int, NEW take, Takes(S, f, rank, r, take)
    PROVE  \E c \in Int : \A x \in S : /\ rank[x] < c => take[x] = f[x]
                                       /\ rank[x] > c => take[x] = 0
<1>1. /\ \A T \in SUBSET S : SumFunctionOnSet(f, T) \in Nat
      /\ \A x \in S : SumFunctionOnSet(f, Before(S, rank, x)) \in Nat /\ take[x] \in 0..f[x]
  BY SweepSums
<1> DEFINE partial == {x \in S : take[x] < f[x]}
<1>2. CASE partial = {}
  <2>1. \A x \in S : take[x] = f[x]
    BY <1>1, <1>2
  <2>2. CASE S = {}
    BY <2>2
  <2>3. CASE S # {}
    <3>1. PICK y \in S : \A x \in S : rank[x] <= rank[y]
      BY <2>3, LastOf
    <3>2. rank[y] \in Int /\ \A x \in S : rank[x] \in Int /\ ~(rank[x] > rank[y])
      BY <3>1
    <3> QED  BY <2>1, <3>2
  <2> QED  BY <2>2, <2>3
<1>3. CASE partial # {}
  <2> DEFINE back == [x \in partial |-> 0 - rank[x]]
  <2>1. PICK c \in partial : \A x \in partial : back[x] <= back[c]
    <3>1. IsFiniteSet(partial) /\ \A x \in partial : back[x] \in Int
      BY FS_Subset
    <3> HIDE DEF partial, back
    <3> QED  BY <1>3, <3>1, LastOf
  <2>2. rank[c] \in Int /\ \A x \in partial : rank[c] <= rank[x]
    BY <2>1
  <2>3. ASSUME NEW x \in S, rank[x] < rank[c] PROVE take[x] = f[x]
    <3>1. x \notin partial
      BY <2>2, <2>3
    <3> QED  BY <1>1, <3>1
  <2>4. ASSUME NEW x \in S, rank[x] > rank[c] PROVE take[x] = 0
    <3>1. PICK K \in SUBSET S, J \in SUBSET S : K = Before(S, rank, x) /\ J = Before(S, rank, c)
      BY DEF Before
    <3>2. c \in K /\ J \in SUBSET (K \ {c})
      BY <2>2, <2>4, <3>1 DEF Before
    <3>3. PICK a \in Nat, b \in Nat, d \in Nat, m \in Nat :
            /\ a = SumFunctionOnSet(f, J) /\ b = SumFunctionOnSet(f, K \ {c}) /\ d = f[c] /\ m = SumFunctionOnSet(f, K)
      <4>1. SumFunctionOnSet(f, J) \in Nat /\ SumFunctionOnSet(f, K \ {c}) \in Nat /\ SumFunctionOnSet(f, K) \in Nat
        BY <1>1
      <4>2. f[c] \in Nat
        BY <2>1
      <4> QED  BY <4>1, <4>2, Zenon
    <3>4. IsFiniteSet(K) /\ IsFiniteSet(K \ {c}) /\ \A y \in K : f[y] \in Int
      BY FS_Subset
    <3>5. m = d + b
      BY <3>2, <3>3, <3>4, SumWithout
    <3>6. a <= b
      BY <3>2, <3>3, <3>4, SumOfPart
    <3>7. Clip(r - a, d) < d
      BY <2>1, <3>1, <3>3 DEF Takes
    <3>8. r - a < d
      BY <3>7, ClipAdded
    <3>9. r - m <= 0
      BY <3>5, <3>6, <3>8
    <3>10. take[x] = Clip(r - m, f[x])
      BY <3>1, <3>3 DEF Takes
    <3> QED  BY <3>9, <3>10 DEF Clip
  <2> QED  BY <2>2, <2>3, <2>4
<1> QED  BY <1>2, <1>3

\* No other way to take as much has a lower rank in total.
LEMMA SweepBest ==
    ASSUME NEW S, IsFiniteSet(S), NEW f, \A x \in S : f[x] \in Nat,
           NEW rank, \A x \in S : rank[x] \in Int, \A x, y \in S : rank[x] = rank[y] => x = y,
           NEW r \in Int, NEW take, Takes(S, f, rank, r, take),
           NEW w, \A x \in S : w[x] \in 0..f[x], SumFunctionOnSet(w, S) = SumFunctionOnSet(take, S),
           NEW g, NEW h, \A x \in S : g[x] = rank[x] * take[x] /\ h[x] = rank[x] * w[x]
    PROVE  SumFunctionOnSet(g, S) <= SumFunctionOnSet(h, S)
<1>1. \A x \in S : f[x] \in Nat /\ take[x] \in 0..f[x] /\ w[x] \in 0..f[x] /\ rank[x] \in Int
  BY SweepSums
<1>2. PICK c \in Int : \A x \in S : (rank[x] < c => take[x] = f[x]) /\ (rank[x] > c => take[x] = 0)
  <2>1. /\ IsFiniteSet(S) /\ (\A x \in S : f[x] \in Nat) /\ (\A x \in S : rank[x] \in Int)
        /\ (\A x, y \in S : rank[x] = rank[y] => x = y) /\ r \in Int /\ Takes(S, f, rank, r, take)
    OBVIOUS
  <2> QED  BY ONLY <2>1, SweepSplits
<1> DEFINE u == [x \in S |-> rank[x] * take[x] - c * take[x]]
           v == [x \in S |-> rank[x] * w[x] - c * w[x]]
<1>3. ASSUME NEW x \in S
      PROVE  /\ u[x] \in Int /\ v[x] \in Int /\ u[x] <= v[x] /\ take[x] \in Int /\ w[x] \in Int
             /\ g[x] \in Int /\ h[x] \in Int
             /\ g[x] = c * take[x] + u[x] /\ h[x] = c * w[x] + v[x]
  <2>1. PICK k \in Int, a \in Nat, t \in Nat, m \in Nat :
          k = rank[x] /\ a = f[x] /\ t = take[x] /\ m = w[x] /\ t <= a /\ m <= a
    BY <1>1
  <2>2. (k < c => t = a) /\ (k > c => t = 0)
    BY <1>2, <2>1
  <2>3. u[x] = k * t - c * t /\ v[x] = k * m - c * m /\ g[x] = k * t /\ h[x] = k * m
    BY <2>1
  <2>4. PICK i \in Int, j \in Int, y \in Int, z \in Int : i = k * t /\ j = k * m /\ y = c * t /\ z = c * m
    OBVIOUS
  <2>5. i - y <= j - z
    <3>1. CASE k < c
      <4>1. (c - k) * m <= (c - k) * t
        <5>1. c - k \in Nat /\ m <= t
          BY <2>1, <2>2, <3>1
        <5> QED  BY <5>1, TimesOrdered
      <4>2. (c - k) * m = z - j /\ (c - k) * t = y - i
        BY <2>4
      <4> QED  BY <4>1, <4>2
    <3>2. CASE k > c
      <4>1. (k - c) * t <= (k - c) * m
        BY <2>2, <3>2, TimesOrdered
      <4>2. (k - c) * m = j - z /\ (k - c) * t = i - y
        BY <2>4
      <4> QED  BY <4>1, <4>2
    <3>3. CASE k = c
      BY <2>4, <3>3
    <3> QED  BY <3>1, <3>2, <3>3
  <2>6. u[x] = i - y /\ v[x] = j - z /\ g[x] = i /\ h[x] = j /\ c * take[x] = y /\ c * w[x] = z
    BY <2>1, <2>3, <2>4
  <2>7. take[x] \in Int /\ w[x] \in Int
    BY <2>1
  <2> QED  BY <2>5, <2>6, <2>7
<1> HIDE DEF u, v
<1>4. SumFunctionOnSet(g, S) = c * SumFunctionOnSet(take, S) + SumFunctionOnSet(u, S)
  <2>1. \A x \in S : take[x] \in Int /\ u[x] \in Int /\ g[x] = c * take[x] + u[x]
    BY <1>3
  <2> QED  BY ONLY <2>1, IsFiniteSet(S), c \in Int, SumAdded
<1>5. SumFunctionOnSet(h, S) = c * SumFunctionOnSet(w, S) + SumFunctionOnSet(v, S)
  <2>1. \A x \in S : w[x] \in Int /\ v[x] \in Int /\ h[x] = c * w[x] + v[x]
    BY <1>3
  <2> QED  BY ONLY <2>1, IsFiniteSet(S), c \in Int, SumAdded
<1>6. SumFunctionOnSet(u, S) <= SumFunctionOnSet(v, S)
  <2>1. \A x \in S : u[x] \in Int /\ v[x] \in Int /\ u[x] <= v[x]
    BY <1>3
  <2> QED  BY ONLY <2>1, IsFiniteSet(S), SumOrdered
<1>7. PICK a \in Int, b \in Int, t \in Int :
        a = SumFunctionOnSet(u, S) /\ b = SumFunctionOnSet(v, S) /\ t = SumFunctionOnSet(take, S)
  <2>1. \A x \in S : u[x] \in Int
    BY <1>3
  <2>2. \A x \in S : v[x] \in Int
    BY <1>3
  <2>3. \A x \in S : take[x] \in Int
    BY <1>3
  <2>4. SumFunctionOnSet(u, S) \in Int
    BY <2>1, SumWithout
  <2>5. SumFunctionOnSet(v, S) \in Int
    BY <2>2, SumWithout
  <2>6. SumFunctionOnSet(take, S) \in Int
    BY <2>3, SumWithout
  <2> QED  BY <2>4, <2>5, <2>6, Zenon
<1>8. SumFunctionOnSet(g, S) = c * t + a /\ SumFunctionOnSet(h, S) = c * t + b /\ a <= b
  BY <1>4, <1>5, <1>6, <1>7
<1>9. PICK d \in Int : d = c * t
  OBVIOUS
<1> QED  BY <1>8, <1>9

\* Negated numbers add up to the negated sum.
LEMMA SumNegated ==
    ASSUME NEW S, IsFiniteSet(S), NEW f, NEW h, \A x \in S : f[x] \in Int /\ h[x] = 0 - f[x]
    PROVE  SumFunctionOnSet(f, S) \in Int /\ SumFunctionOnSet(h, S) = 0 - SumFunctionOnSet(f, S)
<1> DEFINE z == [x \in S |-> 0]
<1>1. \A x \in S : z[x] \in Int /\ f[x] \in Int /\ h[x] \in Int /\ z[x] = 1 * z[x] + z[x] /\ z[x] = 1 * f[x] + h[x]
  OBVIOUS
<1> HIDE DEF z
<1>2. SumFunctionOnSet(z, S) = 1 * SumFunctionOnSet(z, S) + SumFunctionOnSet(z, S)
  <2>1. \A x \in S : z[x] \in Int /\ z[x] = 1 * z[x] + z[x]
    BY <1>1
  <2> QED  BY ONLY <2>1, IsFiniteSet(S), 1 \in Int, SumAdded
<1>3. SumFunctionOnSet(z, S) = 1 * SumFunctionOnSet(f, S) + SumFunctionOnSet(h, S)
  <2>1. \A x \in S : f[x] \in Int /\ h[x] \in Int /\ z[x] = 1 * f[x] + h[x]
    BY <1>1
  <2> QED  BY ONLY <2>1, IsFiniteSet(S), 1 \in Int, SumAdded
<1>4. PICK a \in Int, b \in Int, c \in Int :
         a = SumFunctionOnSet(z, S) /\ b = SumFunctionOnSet(f, S) /\ c = SumFunctionOnSet(h, S)
  <2>1. SumFunctionOnSet(z, S) \in Int
    BY <1>1, SumWithout
  <2>2. SumFunctionOnSet(f, S) \in Int
    BY <1>1, SumWithout
  <2>3. SumFunctionOnSet(h, S) \in Int
    BY <1>1, SumWithout
  <2> QED  BY <2>1, <2>2, <2>3, Zenon
<1>5. a = 1 * a + a /\ a = 1 * b + c
  BY <1>2, <1>3, <1>4
<1>6. c = 0 - b
  BY ONLY <1>5, a \in Int, b \in Int, c \in Int
<1> QED  BY <1>4, <1>6

-----------------------------------------------------------------------------
(* The order book: which slots are queued, which are free. *)

LEMMA ObFacts ==
    /\ ObCapacity \in Nat /\ 0 \notin ObIds /\ ObPrices \subseteq Nat
    /\ IsFiniteSet(ObSlots) /\ Cardinality(ObSlots) = ObCapacity
<1>1. ObCapacity \in Nat /\ 0 \notin ObIds /\ ObPrices \subseteq Nat
  BY BookParameters
<1>2. IsFiniteSet(1..ObCapacity) /\ Cardinality(1..ObCapacity) = ObCapacity
  BY <1>1, FS_Interval
<1> QED  BY <1>1, <1>2 DEF ObSlots

\* A book: levels by side and price, none of them empty.
IsBook(b) ==
    /\ DOMAIN b = ObSides
    /\ \A s \in ObSides : /\ DOMAIN b[s] \subseteq ObPrices
                          /\ \A p \in DOMAIN b[s] : b[s][p] \in Seq(ObSlots) /\ b[s][p] # << >>

\* No slot is queued twice.
OnceQueued(b) ==
    \A s, t \in ObSides, p, q \in ObPrices :
        \A k \in 1..Len(Level(b[s], p)), m \in 1..Len(Level(b[t], q)) :
            Level(b[s], p)[k] = Level(b[t], q)[m] => s = t /\ p = q /\ k = m

InBook(b, i) ==
    \E s \in ObSides, p \in ObPrices : \E k \in 1..Len(Level(b[s], p)) : Level(b[s], p)[k] = i

\* The sequence of free slots has no slot twice.
FreeOnce(free) ==
    free \in Seq(ObSlots) /\ \A m, n \in 1..Len(free) : free[m] = free[n] => m = n

IsFree(free, i) == \E n \in 1..Len(free) : free[n] = i

\* A slot is either queued or free when it has been used, and has an order when queued.
Accounted(pool, free, next, book) ==
    /\ pool \in [ObSlots -> ObEntry] /\ next \in 0..ObCapacity
    /\ FreeOnce(free) /\ IsBook(book) /\ OnceQueued(book)
    /\ \A i \in ObSlots : /\ ~(InBook(book, i) /\ IsFree(free, i))
                          /\ InBook(book, i) \/ IsFree(free, i) <=> i <= next
                          /\ pool[i] # ObNone <=> InBook(book, i)

SlotsInv == Accounted(obPool, obFree, obNext, obBook)

LEMMA EmptyQueue == << >> \in Seq(ObSlots) /\ Len(<< >>) = 0
OBVIOUS

LEMMA LevelType ==
    ASSUME NEW b, IsBook(b), NEW s \in ObSides, NEW p
    PROVE  Level(b[s], p) \in Seq(ObSlots)
BY EmptyQueue DEF IsBook, Level

\* The book c is b with these levels on one side.
SideSet(b, side, levels, c) ==
    DOMAIN c = ObSides /\ c[side] = levels /\ \A s \in ObSides : s # side => c[s] = b[s]

\* One level replaced: it has the new queue, the others keep theirs, and it is gone when
\* the new queue is empty.
LEMMA LevelSet ==
    ASSUME NEW b, IsBook(b), NEW side \in ObSides, NEW p \in ObPrices, NEW q \in Seq(ObSlots),
           NEW c, SideSet(b, side, WithLevel(b[side], p, q), c)
    PROVE  /\ IsBook(c)
           /\ \A s \in ObSides, x \in ObPrices :
                 Level(c[s], x) = IF s = side /\ x = p THEN q ELSE Level(b[s], x)
<1> DEFINE w == WithLevel(b[side], p, q)
<1>1. /\ DOMAIN w = (DOMAIN b[side] \cup {p}) \ (IF q = << >> THEN {p} ELSE {})
      /\ \A x \in DOMAIN w : w[x] = IF x = p THEN q ELSE b[side][x]
  BY DEF WithLevel
<1> HIDE DEF w
<1>2. DOMAIN c = ObSides /\ c[side] = w /\ \A s \in ObSides : s # side => c[s] = b[s]
  BY DEF SideSet, w
<1>3. IsBook(c)
  <2>1. DOMAIN w \subseteq ObPrices /\ \A x \in DOMAIN w : w[x] \in Seq(ObSlots) /\ w[x] # << >>
    BY <1>1 DEF IsBook
  <2> QED  BY <1>2, <2>1 DEF IsBook
<1>4. ASSUME NEW s \in ObSides, NEW x \in ObPrices
      PROVE  Level(c[s], x) = IF s = side /\ x = p THEN q ELSE Level(b[s], x)
  <2>1. CASE s # side
    BY <1>2, <2>1
  <2>2. CASE s = side
    <3>1. Level(w, x) = IF x = p THEN q ELSE Level(b[side], x)
      BY <1>1 DEF Level
    <3> QED  BY <1>2, <2>2, <3>1
  <2> QED  BY <2>1, <2>2
<1> QED  BY <1>3, <1>4

\* A slot put at the back of a level.
LEMMA PutInBook ==
    ASSUME NEW b, IsBook(b), OnceQueued(b), NEW side \in ObSides, NEW p \in ObPrices,
           NEW i \in ObSlots, ~InBook(b, i),
           NEW c, SideSet(b, side, WithLevel(b[side], p, Append(Level(b[side], p), i)), c)
    PROVE  IsBook(c) /\ OnceQueued(c) /\ \A j : InBook(c, j) <=> InBook(b, j) \/ j = i
<1> DEFINE old == Level(b[side], p)
           new == Append(old, i)
<1>1. old \in Seq(ObSlots)
  BY LevelType
<1> HIDE DEF old
<1>2. /\ new \in Seq(ObSlots) /\ Len(new) = Len(old) + 1 /\ Len(old) \in Nat
      /\ \A k \in 1..Len(new) : new[k] = IF k = Len(old) + 1 THEN i ELSE old[k]
      /\ \A k \in 1..Len(old) : new[k] = old[k] /\ k \in 1..Len(new)
      /\ new[Len(new)] = i /\ Len(new) \in 1..Len(new)
  BY <1>1
<1> HIDE DEF new
<1>3. /\ IsBook(c)
      /\ \A s \in ObSides, x \in ObPrices :
            Level(c[s], x) = IF s = side /\ x = p THEN new ELSE Level(b[s], x)
  <2>1. SideSet(b, side, WithLevel(b[side], p, new), c) /\ new \in Seq(ObSlots)
    BY <1>2 DEF new, old
  <2> QED  BY ONLY IsBook(b), side \in ObSides, p \in ObPrices, <2>1, LevelSet
<1>4. ASSUME NEW s \in ObSides, NEW x \in ObPrices, NEW k \in 1..Len(Level(c[s], x))
      PROVE  \/ Level(c[s], x)[k] = i /\ s = side /\ x = p /\ k = Len(new)
             \/ k \in 1..Len(Level(b[s], x)) /\ Level(c[s], x)[k] = Level(b[s], x)[k] /\ Level(b[s], x)[k] # i
  <2>1. ASSUME k \in 1..Len(Level(b[s], x)) PROVE Level(b[s], x)[k] # i
    BY <2>1 DEF InBook
  <2>2. CASE s = side /\ x = p
    <3>1. Level(c[s], x) = new /\ Level(b[s], x) = old
      BY <1>3, <2>2 DEF old
    <3>2. k \in 1..Len(new)
      BY <1>4, <3>1
    <3>3. CASE k = Len(old) + 1
      BY <1>2, <2>2, <3>1, <3>2, <3>3
    <3>4. CASE k # Len(old) + 1
      <4>1. k \in 1..Len(old)
        BY <1>2, <3>2, <3>4
      <4>2. new[k] = old[k]
        BY <1>2, <4>1
      <4> QED  BY <2>1, <3>1, <4>1, <4>2
    <3> QED  BY <3>3, <3>4
  <2>3. CASE ~(s = side /\ x = p)
    <3>1. Level(c[s], x) = Level(b[s], x)
      BY <1>3, <2>3
    <3> QED  BY <1>4, <2>1, <3>1
  <2> QED  BY <2>2, <2>3
<1>5. OnceQueued(c)
  <2> SUFFICES ASSUME NEW s \in ObSides, NEW t \in ObSides, NEW x \in ObPrices, NEW y \in ObPrices,
                      NEW k \in 1..Len(Level(c[s], x)), NEW m \in 1..Len(Level(c[t], y)),
                      Level(c[s], x)[k] = Level(c[t], y)[m]
               PROVE  s = t /\ x = y /\ k = m
    BY DEF OnceQueued
  <2>1. CASE Level(c[s], x)[k] = i
    <3>1. s = side /\ x = p /\ k = Len(new)
      BY <1>4, <2>1
    <3>2. Level(c[t], y)[m] = i
      BY <2>1
    <3>3. t = side /\ y = p /\ m = Len(new)
      BY <1>4, <3>2
    <3> QED  BY <3>1, <3>3
  <2>2. CASE Level(c[s], x)[k] # i
    <3>1. /\ k \in 1..Len(Level(b[s], x)) /\ m \in 1..Len(Level(b[t], y))
          /\ Level(b[s], x)[k] = Level(b[t], y)[m]
      BY <1>4, <2>2
    <3> QED  BY <3>1 DEF OnceQueued
  <2> QED  BY <2>1, <2>2
<1>6. ASSUME NEW j PROVE InBook(c, j) <=> InBook(b, j) \/ j = i
  <2>1. ASSUME InBook(c, j) PROVE InBook(b, j) \/ j = i
    <3>1. PICK s \in ObSides, x \in ObPrices : \E k \in 1..Len(Level(c[s], x)) : Level(c[s], x)[k] = j
      BY <2>1 DEF InBook
    <3>2. PICK k \in 1..Len(Level(c[s], x)) : Level(c[s], x)[k] = j
      BY <3>1
    <3> QED  BY <1>4, <3>2 DEF InBook
  <2>2. ASSUME InBook(b, j) PROVE InBook(c, j)
    <3>1. PICK s \in ObSides, x \in ObPrices : \E k \in 1..Len(Level(b[s], x)) : Level(b[s], x)[k] = j
      BY <2>2 DEF InBook
    <3>2. PICK k \in 1..Len(Level(b[s], x)) : Level(b[s], x)[k] = j
      BY <3>1
    <3>3. k \in 1..Len(Level(c[s], x)) /\ Level(c[s], x)[k] = j
      <4>1. CASE s = side /\ x = p
        <5>1. Level(c[s], x) = new /\ Level(b[s], x) = old
          BY <1>3, <4>1 DEF old
        <5> QED  BY <1>2, <3>2, <5>1
      <4>2. CASE ~(s = side /\ x = p)
        BY <1>3, <3>2, <4>2
      <4> QED  BY <4>1, <4>2
    <3> QED  BY <3>3 DEF InBook
  <2>3. InBook(c, i)
    <3>1. Level(c[side], p) = new
      BY <1>3
    <3> QED  BY <1>2, <3>1 DEF InBook
  <2> QED  BY <2>1, <2>2, <2>3
<1> QED  BY <1>3, <1>5, <1>6


\* Queues made of orders of the old ones, in any order but each once: nothing is queued
\* twice.
LEMMA StaysOnce ==
    ASSUME NEW b, NEW c, OnceQueued(b), NEW g,
           \A s \in ObSides, x \in ObPrices : \A k \in 1..Len(Level(c[s], x)) :
              /\ g[s][x][k] \in 1..Len(Level(b[s], x)) /\ Level(c[s], x)[k] = Level(b[s], x)[g[s][x][k]]
              /\ \A m \in 1..Len(Level(c[s], x)) : g[s][x][k] = g[s][x][m] => k = m
    PROVE  OnceQueued(c) /\ \A j : InBook(c, j) => InBook(b, j)
<1>1. OnceQueued(c)
  <2> SUFFICES ASSUME NEW s \in ObSides, NEW t \in ObSides, NEW x \in ObPrices, NEW y \in ObPrices,
                      NEW k \in 1..Len(Level(c[s], x)), NEW m \in 1..Len(Level(c[t], y)),
                      Level(c[s], x)[k] = Level(c[t], y)[m]
               PROVE  s = t /\ x = y /\ k = m
    BY DEF OnceQueued
  <2>1. /\ g[s][x][k] \in 1..Len(Level(b[s], x)) /\ g[t][y][m] \in 1..Len(Level(b[t], y))
        /\ Level(b[s], x)[g[s][x][k]] = Level(b[t], y)[g[t][y][m]]
    OBVIOUS
  <2>2. s = t /\ x = y /\ g[s][x][k] = g[t][y][m]
    BY <2>1 DEF OnceQueued
  <2> QED  BY <2>2
<1>2. ASSUME NEW j, InBook(c, j) PROVE InBook(b, j)
  <2>1. PICK s \in ObSides, x \in ObPrices : \E k \in 1..Len(Level(c[s], x)) : Level(c[s], x)[k] = j
    BY <1>2 DEF InBook
  <2>2. PICK k \in 1..Len(Level(c[s], x)) : Level(c[s], x)[k] = j
    BY <2>1
  <2>3. g[s][x][k] \in 1..Len(Level(b[s], x)) /\ Level(b[s], x)[g[s][x][k]] = j
    BY <2>2
  <2> QED  BY <2>3 DEF InBook
<1> QED  BY <1>1, <1>2

\* RemoveAt takes one element out.
LEMMA Removed ==
    ASSUME NEW q \in Seq(ObSlots), NEW k \in 1..Len(q)
    PROVE  /\ RemoveAt(q, k) \in Seq(ObSlots) /\ Len(RemoveAt(q, k)) = Len(q) - 1 /\ Len(q) \in Nat
           /\ \A m \in 1..(Len(q) - 1) : RemoveAt(q, k)[m] = q[IF m < k THEN m ELSE m + 1]
<1>1. PICK u : u = SubSeq(q, 1, k - 1)
  OBVIOUS
<1>2. PICK v : v = SubSeq(q, k + 1, Len(q))
  OBVIOUS
<1>3. u \in Seq(ObSlots) /\ Len(u) = k - 1 /\ \A m \in 1..(k - 1) : u[m] = q[m]
  BY <1>1
<1>4. v \in Seq(ObSlots) /\ Len(v) = Len(q) - k /\ \A m \in 1..(Len(q) - k) : v[m] = q[k + m]
  BY <1>2
<1>5. RemoveAt(q, k) = u \o v
  BY <1>1, <1>2 DEF RemoveAt
<1>6. /\ u \o v \in Seq(ObSlots) /\ Len(u \o v) = Len(u) + Len(v)
      /\ \A m \in 1..(Len(u) + Len(v)) : (u \o v)[m] = IF m <= Len(u) THEN u[m] ELSE v[m - Len(u)]
  <2>1. u \o v \in Seq(ObSlots) /\ Len(u \o v) = Len(u) + Len(v)
    <3>1. u \in Seq(ObSlots) /\ v \in Seq(ObSlots)
      BY <1>3, <1>4
    <3> QED  BY ONLY <3>1
  <2>2. \A m \in 1..(Len(u) + Len(v)) : (u \o v)[m] = IF m <= Len(u) THEN u[m] ELSE v[m - Len(u)]
    BY <1>3, <1>4
  <2> QED  BY <2>1, <2>2
<1>7. Len(q) \in Nat /\ Len(u) + Len(v) = Len(q) - 1
  BY <1>3, <1>4
<1>8. ASSUME NEW m \in 1..(Len(q) - 1)
      PROVE  (u \o v)[m] = q[IF m < k THEN m ELSE m + 1]
  <2>1. CASE m < k
    BY <1>3, <1>6, <1>7, <2>1
  <2>2. CASE m >= k
    <3>1. m - (k - 1) \in 1..(Len(q) - k) /\ k + (m - (k - 1)) = m + 1
      BY <1>7, <2>2
    <3>2. v[m - (k - 1)] = q[m + 1]
      BY <1>4, <3>1
    <3>3. (u \o v)[m] = v[m - (k - 1)]
      BY <1>3, <1>6, <1>7, <2>2
    <3> QED  BY <2>2, <3>2, <3>3
  <2> QED  BY <1>7, <2>1, <2>2
<1> QED  BY <1>5, <1>6, <1>7, <1>8

\* A slot taken out of its level.
LEMMA TakeFromBook ==
    ASSUME NEW b, IsBook(b), OnceQueued(b), NEW side \in ObSides, NEW p \in ObPrices,
           NEW k \in 1..Len(Level(b[side], p)),
           NEW c, SideSet(b, side, WithLevel(b[side], p, RemoveAt(Level(b[side], p), k)), c)
    PROVE  /\ IsBook(c) /\ OnceQueued(c)
           /\ \A j : InBook(c, j) <=> InBook(b, j) /\ j # Level(b[side], p)[k]
<1> DEFINE old == Level(b[side], p)
           new == RemoveAt(old, k)
<1>1. old \in Seq(ObSlots) /\ k \in 1..Len(old)
  BY LevelType
<1> HIDE DEF old
<1>2. /\ new \in Seq(ObSlots) /\ Len(new) = Len(old) - 1 /\ Len(old) \in Nat
      /\ \A m \in 1..(Len(old) - 1) : new[m] = old[IF m < k THEN m ELSE m + 1]
  BY <1>1, Removed
<1> HIDE DEF new
<1>3. /\ IsBook(c)
      /\ \A s \in ObSides, x \in ObPrices :
            Level(c[s], x) = IF s = side /\ x = p THEN new ELSE Level(b[s], x)
  <2>1. SideSet(b, side, WithLevel(b[side], p, new), c) /\ new \in Seq(ObSlots)
    BY <1>2 DEF new, old
  <2> QED  BY ONLY IsBook(b), side \in ObSides, p \in ObPrices, <2>1, LevelSet
<1> DEFINE At(s, x, m) == IF s = side /\ x = p /\ m >= k THEN m + 1 ELSE m
           g == [s \in ObSides |-> [x \in ObPrices |-> [m \in Nat |-> At(s, x, m)]]]
<1>4. ASSUME NEW s \in ObSides, NEW x \in ObPrices, NEW m \in 1..Len(Level(c[s], x))
      PROVE  /\ m \in Nat /\ At(s, x, m) \in 1..Len(Level(b[s], x))
             /\ Level(c[s], x)[m] = Level(b[s], x)[At(s, x, m)] /\ (s = side /\ x = p => At(s, x, m) # k)
  <2>1. CASE s = side /\ x = p
    <3>1. Level(c[s], x) = new /\ Level(b[s], x) = old
      BY <1>3, <2>1 DEF old
    <3>2. m \in 1..(Len(old) - 1)
      BY <1>2, <1>4, <3>1
    <3>3. new[m] = old[IF m < k THEN m ELSE m + 1]
      BY <1>2, <3>2
    <3> QED  BY <1>1, <1>2, <2>1, <3>1, <3>2, <3>3
  <2>2. CASE ~(s = side /\ x = p)
    <3>1. Level(c[s], x) = Level(b[s], x)
      BY <1>3, <2>2
    <3>2. Len(Level(b[s], x)) \in Nat
      BY LevelType
    <3> QED  BY <1>4, <2>2, <3>1, <3>2
  <2> QED  BY <2>1, <2>2
<1>5. ASSUME NEW s \in ObSides, NEW x \in ObPrices, NEW m \in 1..Len(Level(c[s], x)),
             NEW n \in 1..Len(Level(c[s], x)), At(s, x, m) = At(s, x, n)
      PROVE  m = n
  BY <1>1, <1>2, <1>4, <1>5
<1>6. \A s \in ObSides, x \in ObPrices, m \in Nat : g[s][x][m] = At(s, x, m)
  OBVIOUS
<1>7. OnceQueued(c) /\ \A j : InBook(c, j) => InBook(b, j)
  <2> HIDE DEF At, g
  <2>1. \A s \in ObSides, x \in ObPrices : \A m \in 1..Len(Level(c[s], x)) :
              /\ g[s][x][m] \in 1..Len(Level(b[s], x)) /\ Level(c[s], x)[m] = Level(b[s], x)[g[s][x][m]]
              /\ \A n \in 1..Len(Level(c[s], x)) : g[s][x][m] = g[s][x][n] => m = n
    BY <1>4, <1>5, <1>6
  <2> QED  BY <2>1, StaysOnce
<1>8. ASSUME NEW j, InBook(c, j) PROVE j # old[k]
  <2>1. PICK s \in ObSides, x \in ObPrices : \E m \in 1..Len(Level(c[s], x)) : Level(c[s], x)[m] = j
    BY <1>8 DEF InBook
  <2>2. PICK m \in 1..Len(Level(c[s], x)) : Level(c[s], x)[m] = j
    BY <2>1
  <2> HIDE DEF At
  <2>3. /\ At(s, x, m) \in 1..Len(Level(b[s], x)) /\ Level(b[s], x)[At(s, x, m)] = j
        /\ (s = side /\ x = p => At(s, x, m) # k)
    BY <1>4, <2>2
  <2> QED  BY <1>1, <2>3 DEF OnceQueued, old
<1>9. ASSUME NEW j, InBook(b, j), j # old[k] PROVE InBook(c, j)
  <2>1. PICK s \in ObSides, x \in ObPrices : \E m \in 1..Len(Level(b[s], x)) : Level(b[s], x)[m] = j
    BY <1>9 DEF InBook
  <2>2. PICK m \in 1..Len(Level(b[s], x)) : Level(b[s], x)[m] = j
    BY <2>1
  <2>3. CASE ~(s = side /\ x = p)
    BY <1>3, <2>2, <2>3 DEF InBook
  <2>4. CASE s = side /\ x = p
    <3>1. Level(c[s], x) = new /\ m \in 1..Len(old) /\ old[m] = j
      BY <1>3, <2>2, <2>4 DEF old
    <3>2. m # k
      BY <1>9, <3>1
    <3>3. PICK n \in 1..(Len(old) - 1) : m = IF n < k THEN n ELSE n + 1
      <4>1. CASE m < k
        BY <1>1, <1>2, <3>1, <4>1
      <4>2. CASE m > k
        <5>1. m - 1 \in 1..(Len(old) - 1) /\ ~(m - 1 < k) /\ m = (m - 1) + 1
          BY <1>1, <1>2, <3>1, <4>2
        <5> QED  BY <5>1
      <4> QED  BY <1>1, <1>2, <3>1, <3>2, <4>1, <4>2
    <3>4. new[n] = j /\ n \in 1..Len(new)
      BY <1>2, <3>1, <3>3
    <3> QED  BY <3>1, <3>4 DEF InBook
  <2> QED  BY <2>3, <2>4
<1> QED  BY <1>3, <1>7, <1>8, <1>9 DEF old


\* The first orders of every level of one side taken out.
LEMMA SweepBook ==
    ASSUME NEW b, IsBook(b), OnceQueued(b), NEW side \in ObSides,
           NEW f, \A p \in ObPrices : f[p] \in Nat /\ f[p] <= Len(Level(b[side], p)),
           NEW c, SideSet(b, side, [p \in {p \in DOMAIN b[side] : f[p] < Len(b[side][p])} |->
                                      SubSeq(b[side][p], f[p] + 1, Len(b[side][p]))], c)
    PROVE  /\ IsBook(c) /\ OnceQueued(c)
           /\ \A j : InBook(c, j) <=> /\ InBook(b, j)
                                      /\ ~ \E p \in ObPrices : \E k \in 1..f[p] : Level(b[side], p)[k] = j
<1> DEFINE w == [p \in {p \in DOMAIN b[side] : f[p] < Len(b[side][p])} |->
                    SubSeq(b[side][p], f[p] + 1, Len(b[side][p]))]
<1>1. /\ DOMAIN w = {p \in DOMAIN b[side] : f[p] < Len(b[side][p])}
      /\ \A p \in DOMAIN w : w[p] = SubSeq(b[side][p], f[p] + 1, Len(b[side][p]))
  OBVIOUS
<1> HIDE DEF w
<1>2. DOMAIN c = ObSides /\ c[side] = w /\ \A s \in ObSides : s # side => c[s] = b[s]
  BY DEF SideSet, w
<1>3. ASSUME NEW x \in ObPrices
      PROVE  /\ Level(b[side], x) \in Seq(ObSlots) /\ Len(Level(b[side], x)) \in Nat
             /\ Level(w, x) \in Seq(ObSlots) /\ Len(Level(w, x)) = Len(Level(b[side], x)) - f[x]
             /\ \A k \in 1..Len(Level(w, x)) : Level(w, x)[k] = Level(b[side], x)[k + f[x]]
             /\ (x \in DOMAIN w => w[x] # << >>)
  <2>1. PICK q \in Seq(ObSlots) : q = Level(b[side], x)
    BY LevelType
  <2>2. Len(q) \in Nat /\ f[x] \in Nat /\ f[x] <= Len(q)
    BY <2>1
  <2>3. CASE x \in DOMAIN w
    <3>1. q = b[side][x] /\ f[x] < Len(q) /\ Level(w, x) = SubSeq(q, f[x] + 1, Len(q)) /\ w[x] = Level(w, x)
      BY <1>1, <2>1, <2>3 DEF Level
    <3>2. PICK n \in Nat : n = f[x] /\ n < Len(q)
      BY <2>2, <3>1
    <3>3. /\ SubSeq(q, n + 1, Len(q)) \in Seq(ObSlots) /\ Len(SubSeq(q, n + 1, Len(q))) = Len(q) - n
          /\ \A k \in 1..(Len(q) - n) : SubSeq(q, n + 1, Len(q))[k] = q[k + n]
      BY <2>2, <3>2
    <3>4. SubSeq(q, n + 1, Len(q)) # << >>
      <4>1. Len(SubSeq(q, n + 1, Len(q))) # 0
        BY <2>2, <3>2, <3>3
      <4> QED  BY ONLY <4>1, EmptyQueue
    <3> QED  BY <2>1, <2>2, <3>1, <3>2, <3>3, <3>4
  <2>4. CASE x \notin DOMAIN w
    <3>1. Level(w, x) = << >>
      BY <2>4 DEF Level
    <3>2. f[x] = Len(q)
      <4>1. CASE x \in DOMAIN b[side]
        <5>1. q = b[side][x]
          BY <2>1, <4>1 DEF Level
        <5> QED  BY <1>1, <2>2, <2>4, <4>1, <5>1
      <4>2. CASE x \notin DOMAIN b[side]
        <5>1. q = << >>
          BY <2>1, <4>2 DEF Level
        <5> QED  BY <2>2, <5>1, EmptyQueue
      <4> QED  BY <4>1, <4>2
    <3> QED  BY <2>1, <2>2, <2>4, <3>1, <3>2, EmptyQueue
  <2> QED  BY <2>3, <2>4
<1>4. IsBook(c)
  <2>1. DOMAIN w \subseteq ObPrices
    BY <1>1 DEF IsBook
  <2>2. \A x \in DOMAIN w : w[x] \in Seq(ObSlots) /\ w[x] # << >>
    BY <1>3, <2>1 DEF Level
  <2> QED  BY <1>2, <2>1, <2>2 DEF IsBook
<1> DEFINE At(s, x, m) == IF s = side THEN m + f[x] ELSE m
           g == [s \in ObSides |-> [x \in ObPrices |-> [m \in Nat |-> At(s, x, m)]]]
<1>5. ASSUME NEW s \in ObSides, NEW x \in ObPrices, NEW m \in 1..Len(Level(c[s], x))
      PROVE  /\ m \in Nat /\ At(s, x, m) \in 1..Len(Level(b[s], x))
             /\ Level(c[s], x)[m] = Level(b[s], x)[At(s, x, m)] /\ (s = side => At(s, x, m) > f[x])
  <2>1. CASE s = side
    <3>1. Level(c[s], x) = Level(w, x) /\ m \in 1..(Len(Level(b[side], x)) - f[x])
      BY <1>2, <1>3, <2>1
    <3>2. f[x] \in Nat /\ Len(Level(b[side], x)) \in Nat
      BY <1>3
    <3>3. Level(c[s], x)[m] = Level(b[side], x)[m + f[x]]
      BY <1>3, <3>1
    <3> QED  BY <2>1, <3>1, <3>2, <3>3
  <2>2. CASE s # side
    <3>1. Level(c[s], x) = Level(b[s], x)
      BY <1>2, <2>2
    <3>2. Len(Level(b[s], x)) \in Nat
      BY LevelType
    <3> QED  BY <1>5, <2>2, <3>1, <3>2
  <2> QED  BY <2>1, <2>2
<1>6. ASSUME NEW s \in ObSides, NEW x \in ObPrices, NEW m \in 1..Len(Level(c[s], x)),
             NEW n \in 1..Len(Level(c[s], x)), At(s, x, m) = At(s, x, n)
      PROVE  m = n
  BY <1>5, <1>6
<1>7. \A s \in ObSides, x \in ObPrices, m \in Nat : g[s][x][m] = At(s, x, m)
  OBVIOUS
<1>8. OnceQueued(c) /\ \A j : InBook(c, j) => InBook(b, j)
  <2> HIDE DEF At, g
  <2>1. \A s \in ObSides, x \in ObPrices : \A m \in 1..Len(Level(c[s], x)) :
              /\ g[s][x][m] \in 1..Len(Level(b[s], x)) /\ Level(c[s], x)[m] = Level(b[s], x)[g[s][x][m]]
              /\ \A n \in 1..Len(Level(c[s], x)) : g[s][x][m] = g[s][x][n] => m = n
    BY <1>5, <1>6, <1>7
  <2> QED  BY ONLY <2>1, OnceQueued(b), StaysOnce
<1>9. ASSUME NEW j, InBook(c, j), NEW p \in ObPrices, NEW k \in 1..f[p] PROVE Level(b[side], p)[k] # j
  <2>1. PICK s \in ObSides, x \in ObPrices : \E m \in 1..Len(Level(c[s], x)) : Level(c[s], x)[m] = j
    BY <1>9 DEF InBook
  <2>2. PICK m \in 1..Len(Level(c[s], x)) : Level(c[s], x)[m] = j
    BY <2>1
  <2> HIDE DEF At
  <2>3. /\ At(s, x, m) \in 1..Len(Level(b[s], x)) /\ Level(b[s], x)[At(s, x, m)] = j
        /\ (s = side => At(s, x, m) > f[x])
    BY <1>5, <2>2
  <2>4. k \in 1..Len(Level(b[side], p)) /\ k <= f[p]
    BY <1>3
  <2>5. SUFFICES ASSUME Level(b[side], p)[k] = j PROVE FALSE
    OBVIOUS
  <2>6. s = side /\ x = p /\ At(s, x, m) = k
    BY <2>3, <2>4, <2>5 DEF OnceQueued
  <2>7. At(s, x, m) > f[p] /\ f[p] \in Nat /\ k \in Nat
    BY <2>3, <2>4, <2>6
  <2> QED  BY <2>4, <2>6, <2>7
<1>10. ASSUME NEW j, InBook(b, j), ~ \E p \in ObPrices : \E k \in 1..f[p] : Level(b[side], p)[k] = j
       PROVE  InBook(c, j)
  <2>1. PICK s \in ObSides, x \in ObPrices : \E m \in 1..Len(Level(b[s], x)) : Level(b[s], x)[m] = j
    BY <1>10 DEF InBook
  <2>2. PICK m \in 1..Len(Level(b[s], x)) : Level(b[s], x)[m] = j
    BY <2>1
  <2>3. CASE s # side
    BY <1>2, <2>2, <2>3 DEF InBook
  <2>4. CASE s = side
    <3>1. m \notin 1..f[x]
      BY <1>10, <2>2, <2>4
    <3>2. /\ f[x] \in Nat /\ Len(Level(b[side], x)) \in Nat /\ m \in 1..Len(Level(b[side], x))
          /\ Len(Level(w, x)) = Len(Level(b[side], x)) - f[x]
      BY <1>3, <2>2, <2>4
    <3>3. m - f[x] \in 1..Len(Level(w, x)) /\ (m - f[x]) + f[x] = m
      BY <3>1, <3>2
    <3>4. Level(w, x)[m - f[x]] = j
      BY <1>3, <2>2, <2>4, <3>3
    <3> QED  BY <1>2, <2>4, <3>3, <3>4 DEF InBook
  <2> QED  BY <2>3, <2>4
<1> QED  BY <1>4, <1>8, <1>9, <1>10
\* No queue is longer than the pool.
LEMMA QueueFits ==
    ASSUME NEW b, IsBook(b), OnceQueued(b), NEW s \in ObSides, NEW p \in ObPrices
    PROVE  Len(Level(b[s], p)) \in Nat /\ Len(Level(b[s], p)) <= ObCapacity
<1>1. PICK q \in Seq(ObSlots) : q = Level(b[s], p)
  BY LevelType
<1>2. Len(q) \in Nat /\ \A k, m \in 1..Len(q) : q[k] \in ObSlots /\ (q[k] = q[m] => k = m)
  BY <1>1 DEF OnceQueued
<1>3. PICK f \in [1..Len(q) -> ObSlots] : \A k \in 1..Len(q) : f[k] = q[k]
  <2>1. [k \in 1..Len(q) |-> q[k]] \in [1..Len(q) -> ObSlots]
    BY <1>2
  <2> QED  BY <2>1
<1>4. IsFiniteSet(1..Len(q)) /\ Cardinality(1..Len(q)) = Len(q)
  <2>1. PICK n \in Nat : n = Len(q)
    BY <1>2
  <2>2. IsFiniteSet(1..n) /\ Cardinality(1..n) = n
    BY FS_Interval
  <2> QED  BY <2>1, <2>2
<1>5. IsFiniteSet(ObSlots) /\ Cardinality(ObSlots) = ObCapacity /\ ObCapacity \in Nat
  BY ObFacts
<1>6. ~(Cardinality(ObSlots) < Cardinality(1..Len(q)))
  <2>1. SUFFICES ASSUME Cardinality(ObSlots) < Cardinality(1..Len(q)) PROVE FALSE
    OBVIOUS
  <2>2. \E k, m \in 1..Len(q) : k # m /\ f[k] = f[m]
    BY ONLY <1>3, <1>4, <1>5, <2>1, f \in [1..Len(q) -> ObSlots], FS_PigeonHole
  <2> QED  BY <1>2, <1>3, <2>2
<1> QED  BY <1>1, <1>2, <1>4, <1>5, <1>6

-----------------------------------------------------------------------------
(* The sequence of free slots. *)

LEMMA FreeHead ==
    ASSUME NEW free, FreeOnce(free), free # << >>
    PROVE  /\ Head(free) \in ObSlots /\ IsFree(free, Head(free)) /\ FreeOnce(Tail(free))
           /\ \A j : IsFree(Tail(free), j) <=> IsFree(free, j) /\ j # Head(free)
<1>1. free \in Seq(ObSlots)
  BY DEF FreeOnce
<1>2. /\ Len(free) \in Nat /\ Len(free) > 0 /\ Head(free) = free[1] /\ free[1] \in ObSlots
      /\ Tail(free) \in Seq(ObSlots) /\ Len(Tail(free)) = Len(free) - 1
      /\ \A n \in 1..(Len(free) - 1) : Tail(free)[n] = free[n + 1]
  BY <1>1
<1>3. PICK t : t = Tail(free)
  OBVIOUS
<1>4. IsFree(free, free[1])
  BY <1>2 DEF IsFree
<1>5. FreeOnce(t)
  BY <1>2, <1>3 DEF FreeOnce
<1>6. ASSUME NEW j, IsFree(t, j) PROVE IsFree(free, j) /\ j # free[1]
  <2>1. PICK n \in 1..Len(t) : t[n] = j
    BY <1>6 DEF IsFree
  <2>2. n + 1 \in 1..Len(free) /\ free[n + 1] = j /\ n + 1 # 1 /\ 1 \in 1..Len(free)
    BY <1>2, <1>3, <2>1
  <2> QED  BY <2>2 DEF IsFree, FreeOnce
<1>7. ASSUME NEW j, IsFree(free, j), j # free[1] PROVE IsFree(t, j)
  <2>1. PICK n \in 1..Len(free) : free[n] = j
    BY <1>7 DEF IsFree
  <2>2. n - 1 \in 1..Len(t) /\ (n - 1) + 1 = n
    BY <1>2, <1>3, <1>7, <2>1
  <2>3. t[n - 1] = j
    BY <1>2, <1>3, <2>1, <2>2
  <2> QED  BY <2>2, <2>3 DEF IsFree
<1> QED  BY <1>2, <1>3, <1>4, <1>5, <1>6, <1>7

LEMMA FreeJoined ==
    ASSUME NEW free, FreeOnce(free), NEW more, FreeOnce(more),
           \A j : ~(IsFree(free, j) /\ IsFree(more, j))
    PROVE  /\ FreeOnce(free \o more)
           /\ \A j : IsFree(free \o more, j) <=> IsFree(free, j) \/ IsFree(more, j)
<1>1. free \in Seq(ObSlots) /\ more \in Seq(ObSlots)
  BY DEF FreeOnce
<1>2. PICK u : u = free \o more
  OBVIOUS
<1>3. u \in Seq(ObSlots) /\ Len(u) = Len(free) + Len(more)
  BY ONLY <1>1, <1>2
<1>4. \A n \in 1..(Len(free) + Len(more)) : u[n] = IF n <= Len(free) THEN free[n] ELSE more[n - Len(free)]
  BY ONLY <1>1, <1>2
<1>5. PICK a \in Nat, b \in Nat : a = Len(free) /\ b = Len(more)
  BY <1>1
<1>6. /\ \A n \in 1..a : u[n] = free[n] /\ n \in 1..Len(u) /\ IsFree(free, u[n])
      /\ \A n \in 1..b : u[n + a] = more[n] /\ n + a \in 1..Len(u)
      /\ \A n \in 1..Len(u) : n > a => u[n] = more[n - a] /\ n - a \in 1..b /\ IsFree(more, u[n])
  <2>1. Len(u) = a + b /\ \A n \in 1..(a + b) : u[n] = IF n <= a THEN free[n] ELSE more[n - a]
    BY <1>3, <1>4, <1>5
  <2>2. ASSUME NEW n \in 1..a PROVE u[n] = free[n] /\ n \in 1..Len(u) /\ IsFree(free, u[n])
    BY <1>5, <2>1 DEF IsFree
  <2>3. ASSUME NEW n \in 1..b PROVE u[n + a] = more[n] /\ n + a \in 1..Len(u)
    <3>1. n + a \in 1..(a + b) /\ ~(n + a <= a) /\ (n + a) - a = n
      OBVIOUS
    <3> QED  BY <2>1, <3>1
  <2>4. ASSUME NEW n \in 1..Len(u), n > a
        PROVE  u[n] = more[n - a] /\ n - a \in 1..b /\ IsFree(more, u[n])
    <3>1. n - a \in 1..b /\ n \in 1..(a + b) /\ ~(n <= a)
      BY <2>1, <2>4
    <3> QED  BY <1>5, <2>1, <3>1 DEF IsFree
  <2> QED  BY <2>2, <2>3, <2>4
<1>7. FreeOnce(u)
  <2> SUFFICES ASSUME NEW m \in 1..Len(u), NEW n \in 1..Len(u), u[m] = u[n] PROVE m = n
    BY <1>3 DEF FreeOnce
  <2>1. CASE m <= a /\ n <= a
    <3>1. m \in 1..a /\ n \in 1..a /\ free[m] = free[n]
      BY <1>6, <2>1
    <3> QED  BY <1>5, <3>1 DEF FreeOnce
  <2>2. CASE m > a /\ n > a
    <3>1. m - a \in 1..b /\ n - a \in 1..b /\ more[m - a] = more[n - a]
      BY <1>6, <2>2
    <3>2. m - a = n - a
      BY <1>5, <3>1 DEF FreeOnce
    <3> QED  BY <3>2
  <2>3. CASE m <= a /\ n > a
    <3>1. m \in 1..a
      BY <2>3
    <3> QED  BY <1>6, <2>3, <3>1
  <2>4. CASE m > a /\ n <= a
    <3>1. n \in 1..a
      BY <2>4
    <3> QED  BY <1>6, <2>4, <3>1
  <2>5. m \in Int /\ n \in Int
    OBVIOUS
  <2> QED  BY <2>1, <2>2, <2>3, <2>4, <2>5
<1>8. ASSUME NEW j, IsFree(u, j) PROVE IsFree(free, j) \/ IsFree(more, j)
  <2>1. PICK n \in 1..Len(u) : u[n] = j
    BY <1>8 DEF IsFree
  <2>2. CASE n > a
    BY <1>6, <2>1, <2>2
  <2>3. CASE n <= a
    <3>1. n \in 1..a
      BY <2>3
    <3> QED  BY <1>6, <2>1, <3>1
  <2> QED  BY <2>2, <2>3
<1>9. ASSUME NEW j, IsFree(free, j) PROVE IsFree(u, j)
  BY <1>5, <1>6, <1>9 DEF IsFree
<1>10. ASSUME NEW j, IsFree(more, j) PROVE IsFree(u, j)
  <2>1. PICK n \in 1..b : more[n] = j
    BY <1>5, <1>10 DEF IsFree
  <2> QED  BY <1>6, <2>1 DEF IsFree
<1> QED  BY <1>2, <1>7, <1>8, <1>9, <1>10

LEMMA FreeAppended ==
    ASSUME NEW free, FreeOnce(free), NEW i \in ObSlots, ~IsFree(free, i)
    PROVE  /\ FreeOnce(Append(free, i))
           /\ \A j : IsFree(Append(free, i), j) <=> IsFree(free, j) \/ j = i
<1>1. free \in Seq(ObSlots)
  BY DEF FreeOnce
<1>2. PICK u : u = Append(free, i)
  OBVIOUS
<1>3. /\ u \in Seq(ObSlots) /\ Len(u) = Len(free) + 1 /\ Len(free) \in Nat
      /\ \A n \in 1..Len(free) : u[n] = free[n] /\ n \in 1..Len(u) /\ u[n] # i
      /\ u[Len(u)] = i /\ Len(u) \in 1..Len(u)
      /\ \A n \in 1..Len(u) : n = Len(u) \/ n \in 1..Len(free)
  BY <1>1, <1>2 DEF IsFree
<1>4. FreeOnce(u)
  BY <1>3 DEF FreeOnce
<1>5. \A j : IsFree(u, j) <=> IsFree(free, j) \/ j = i
  BY <1>3 DEF IsFree
<1> QED  BY <1>2, <1>4, <1>5

-----------------------------------------------------------------------------
(* Every operation keeps the slots accounted for. *)

LEMMA Entries ==
    /\ \A id \in ObIds, q \in Nat : [id |-> id, qty |-> q] \in ObEntry /\ [id |-> id, qty |-> q] # ObNone
    /\ \A e \in ObEntry : e # ObNone => e \in [id : ObIds, qty : Nat]
    /\ \A e \in [id : ObIds, qty : Nat], q \in Nat :
          [e EXCEPT !.qty = q] \in ObEntry /\ [e EXCEPT !.qty = q] # ObNone
    /\ ObNone \in ObEntry
<1>1. 0 \notin ObIds
  BY ObFacts
<1>2. ASSUME NEW id \in ObIds, NEW q \in Nat
      PROVE  [id |-> id, qty |-> q] \in ObEntry /\ [id |-> id, qty |-> q] # ObNone
  BY <1>1 DEF ObEntry, ObNone
<1>3. ASSUME NEW e \in [id : ObIds, qty : Nat], NEW q \in Nat
      PROVE  [e EXCEPT !.qty = q] \in ObEntry /\ [e EXCEPT !.qty = q] # ObNone
  BY <1>1 DEF ObEntry, ObNone
<1>4. ObNone \in ObEntry /\ \A e \in ObEntry : e # ObNone => e \in [id : ObIds, qty : Nat]
  BY DEF ObEntry
<1> QED  BY <1>2, <1>3, <1>4

\* An order put in the book.
LEMMA AddKeeps ==
    ASSUME SlotsInv, NEW side \in ObSides, NEW p \in ObPrices, NEW id \in ObIds, NEW qty \in Nat,
           Added(side, obBook[side], p, id, qty)
    PROVE  SlotsInv'
<1>1. PICK i \in allocate :
        /\ obPool' = [obPool EXCEPT ![i] = [id |-> id, qty |-> qty]]
        /\ IF obFree # << >> THEN obFree' = Tail(obFree) /\ UNCHANGED obNext
                             ELSE obNext' = obNext + 1 /\ UNCHANGED obFree
        /\ obBook' = [obBook EXCEPT ![side] = WithLevel(obBook[side], p, Append(Level(obBook[side], p), i))]
  BY DEF Added
<1>2. /\ obPool \in [ObSlots -> ObEntry] /\ obNext \in 0..ObCapacity /\ ObCapacity \in Nat
      /\ FreeOnce(obFree) /\ IsBook(obBook) /\ OnceQueued(obBook)
      /\ \A j \in ObSlots : /\ ~(InBook(obBook, j) /\ IsFree(obFree, j))
                            /\ InBook(obBook, j) \/ IsFree(obFree, j) <=> j <= obNext
                            /\ obPool[j] # ObNone <=> InBook(obBook, j)
  BY ObFacts DEF SlotsInv, Accounted
<1>3. /\ i \in ObSlots /\ ~InBook(obBook, i) /\ FreeOnce(obFree') /\ obNext' \in 0..ObCapacity
      /\ \A j \in ObSlots : /\ IsFree(obFree', j) <=> IsFree(obFree, j) /\ j # i
                            /\ j <= obNext' <=> j <= obNext \/ j = i
  <2>1. CASE obFree # << >>
    <3>1. i = Head(obFree) /\ obFree' = Tail(obFree) /\ obNext' = obNext
      BY <1>1, <2>1 DEF allocate
    <3>2. /\ i \in ObSlots /\ IsFree(obFree, i) /\ FreeOnce(obFree')
          /\ \A j : IsFree(obFree', j) <=> IsFree(obFree, j) /\ j # i
      BY <1>2, <2>1, <3>1, FreeHead
    <3>3. i <= obNext
      BY <1>2, <3>2
    <3> QED  BY <1>2, <3>1, <3>2, <3>3
  <2>2. CASE obFree = << >>
    <3>1. i = obNext + 1 /\ obNext < ObCapacity /\ obFree' = obFree /\ obNext' = obNext + 1
      BY <1>1, <2>2 DEF allocate
    <3>2. \A j : ~IsFree(obFree, j)
      BY <2>2, EmptyQueue DEF IsFree
    <3>3. i \in ObSlots /\ obNext' \in 0..ObCapacity
      BY <1>2, <3>1 DEF ObSlots
    <3>4. ~(i <= obNext) /\ \A j \in ObSlots : j <= obNext' <=> j <= obNext \/ j = i
      BY <1>2, <3>1 DEF ObSlots
    <3> QED  BY <1>2, <3>1, <3>2, <3>3, <3>4
  <2> QED  BY <2>1, <2>2
<1>4. SideSet(obBook, side, WithLevel(obBook[side], p, Append(Level(obBook[side], p), i)), obBook')
  BY <1>1, <1>2 DEF SideSet, IsBook
<1>5. IsBook(obBook') /\ OnceQueued(obBook') /\ \A j : InBook(obBook', j) <=> InBook(obBook, j) \/ j = i
  BY ONLY <1>2, <1>3, <1>4, side \in ObSides, p \in ObPrices, PutInBook
<1>6. /\ obPool' \in [ObSlots -> ObEntry]
      /\ \A j \in ObSlots : obPool'[j] # ObNone <=> obPool[j] # ObNone \/ j = i
  <2>1. PICK e \in ObEntry : e = [id |-> id, qty |-> qty] /\ e # ObNone
    BY Entries
  <2>2. obPool' = [obPool EXCEPT ![i] = e]
    BY <1>1, <2>1
  <2> QED  BY <1>2, <1>3, <2>1, <2>2
<1>7. \A j \in ObSlots : /\ ~(InBook(obBook', j) /\ IsFree(obFree', j))
                         /\ InBook(obBook', j) \/ IsFree(obFree', j) <=> j <= obNext'
                         /\ obPool'[j] # ObNone <=> InBook(obBook', j)
  BY <1>2, <1>3, <1>5, <1>6, Zenon
<1>8. Accounted(obPool', obFree', obNext', obBook')
  BY <1>3, <1>5, <1>6, <1>7 DEF Accounted
<1> QED  BY <1>8 DEF SlotsInv

\* The order found by its id in a queue.
LEMMA Found ==
    ASSUME SlotsInv, NEW side \in ObSides, NEW p \in ObPrices, NEW id,
           NEW k \in Position(Level(obBook[side], p), id)
    PROVE  /\ k \in 1..Len(Level(obBook[side], p)) /\ Level(obBook[side], p)[k] \in ObSlots
           /\ InBook(obBook, Level(obBook[side], p)[k])
<1>1. PICK q \in Seq(ObSlots) : q = Level(obBook[side], p)
  BY LevelType DEF SlotsInv, Accounted
<1>2. DOMAIN q = 1..Len(q) /\ Len(q) \in Nat
  BY <1>1
<1> DEFINE at == {i \in DOMAIN q : obPool[q[i]].id = id}
<1>3. k \in at
  <2>1. at # {} /\ k = Min(at)
    BY <1>1 DEF Position
  <2>2. at \in SUBSET Int
    BY <1>2
  <2>3. \E x \in at : \A y \in at : x <= y
    <3> HIDE DEF at
    <3>1. at \in SUBSET Nat
      BY <1>2 DEF at
    <3> QED  BY <2>1, <3>1, Smallest
  <2> QED  BY <2>1, <2>3 DEF Min
<1>4. k \in 1..Len(q) /\ q[k] \in ObSlots
  BY <1>1, <1>2, <1>3
<1> QED  BY <1>1, <1>4 DEF InBook

LEMMA EditKeeps ==
    ASSUME SlotsInv, NEW side \in ObSides, NEW p \in ObPrices, NEW id, NEW qty \in Nat,
           EditLimit(side, p, id, qty)
    PROVE  SlotsInv'
<1>1. PICK k \in Position(Level(obBook[side], p), id) :
        /\ obPool' = [obPool EXCEPT ![Level(obBook[side], p)[k]].qty = qty]
        /\ UNCHANGED <<obFree, obNext, obBook>>
  BY DEF EditLimit
<1>2. PICK i \in ObSlots : i = Level(obBook[side], p)[k] /\ InBook(obBook, i)
  BY <1>1, Found
<1>3. obPool \in [ObSlots -> ObEntry] /\ obPool[i] \in [id : ObIds, qty : Nat]
  BY <1>2, Entries DEF SlotsInv, Accounted
<1>4. PICK e \in ObEntry : e = [obPool[i] EXCEPT !.qty = qty] /\ e # ObNone
  BY <1>3, Entries
<1>5. obPool' = [obPool EXCEPT ![i] = e]
  BY <1>1, <1>2, <1>3, <1>4
<1>6. obPool' \in [ObSlots -> ObEntry] /\ \A j \in ObSlots : obPool'[j] # ObNone <=> InBook(obBook, j)
  BY <1>2, <1>3, <1>4, <1>5 DEF SlotsInv, Accounted
<1>7. Accounted(obPool', obFree', obNext', obBook')
  BY <1>1, <1>6 DEF SlotsInv, Accounted
<1> QED  BY <1>7 DEF SlotsInv

LEMMA RemoveKeeps ==
    ASSUME SlotsInv, NEW side \in ObSides, NEW p \in ObPrices, NEW id, RemoveLimit(side, p, id)
    PROVE  SlotsInv'
<1> DEFINE queue == Level(obBook[side], p)
<1>1. PICK k \in Position(queue, id) :
        /\ obBook' = [obBook EXCEPT ![side] = WithLevel(@, p, RemoveAt(queue, k))]
        /\ obPool' = [obPool EXCEPT ![queue[k]] = ObNone]
        /\ obFree' = Append(obFree, queue[k]) /\ obNext' = obNext
  BY DEF RemoveLimit
<1>2. PICK i \in ObSlots : i = queue[k] /\ InBook(obBook, i) /\ k \in 1..Len(queue)
  BY <1>1, Found
<1>3. /\ obPool \in [ObSlots -> ObEntry] /\ obNext \in 0..ObCapacity
      /\ FreeOnce(obFree) /\ IsBook(obBook) /\ OnceQueued(obBook)
      /\ \A j \in ObSlots : /\ ~(InBook(obBook, j) /\ IsFree(obFree, j))
                            /\ InBook(obBook, j) \/ IsFree(obFree, j) <=> j <= obNext
                            /\ obPool[j] # ObNone <=> InBook(obBook, j)
  BY DEF SlotsInv, Accounted
<1>4. FreeOnce(obFree') /\ \A j : IsFree(obFree', j) <=> IsFree(obFree, j) \/ j = i
  BY <1>1, <1>2, <1>3, FreeAppended
<1>5. SideSet(obBook, side, WithLevel(obBook[side], p, RemoveAt(Level(obBook[side], p), k)), obBook')
  BY <1>1, <1>3 DEF SideSet, IsBook
<1>6. IsBook(obBook') /\ OnceQueued(obBook') /\ \A j : InBook(obBook', j) <=> InBook(obBook, j) /\ j # i
  <2>1. /\ IsBook(obBook') /\ OnceQueued(obBook')
        /\ \A j : InBook(obBook', j) <=> InBook(obBook, j) /\ j # Level(obBook[side], p)[k]
    BY ONLY <1>2, <1>3, <1>5, side \in ObSides, p \in ObPrices, TakeFromBook
  <2> QED  BY <1>2, <2>1
<1>7. /\ obPool' \in [ObSlots -> ObEntry]
      /\ \A j \in ObSlots : obPool'[j] # ObNone <=> obPool[j] # ObNone /\ j # i
  <2>1. obPool' = [obPool EXCEPT ![i] = ObNone]
    BY <1>1, <1>2
  <2> QED  BY <1>3, <2>1, Entries
<1>8. \A j \in ObSlots : /\ ~(InBook(obBook', j) /\ IsFree(obFree', j))
                         /\ InBook(obBook', j) \/ IsFree(obFree', j) <=> j <= obNext'
                         /\ obPool'[j] # ObNone <=> InBook(obBook', j)
  BY <1>1, <1>2, <1>3, <1>4, <1>6, <1>7
<1>9. Accounted(obPool', obFree', obNext', obBook')
  BY <1>1, <1>3, <1>4, <1>6, <1>7, <1>8 DEF Accounted
<1> QED  BY <1>9 DEF SlotsInv

LEMMA ModifyKeeps ==
    ASSUME SlotsInv, NEW side \in ObSides, NEW old \in ObPrices, NEW id \in ObIds, NEW new \in ObPrices,
           NEW qty \in Nat, ModifyLimit(side, old, id, new, qty)
    PROVE  SlotsInv'
<1> DEFINE queue == Level(obBook[side], old)
<1>1. CASE Position(queue, id) = {}
  <2>1. Added(side, obBook[side], new, id, qty)
    BY <1>1 DEF ModifyLimit
  <2> QED  BY <2>1, AddKeeps
<1>2. CASE Position(queue, id) # {}
  <2> DEFINE rest(k) == WithLevel(obBook[side], old, RemoveAt(queue, k))
  <2>1. PICK k \in Position(queue, id) :
          /\ obBook' = [obBook EXCEPT ![side] = WithLevel(rest(k), new, Append(Level(rest(k), new), queue[k]))]
          /\ obPool' = [obPool EXCEPT ![queue[k]].qty = qty]
          /\ obFree' = obFree /\ obNext' = obNext
    BY <1>2 DEF ModifyLimit
  <2>2. PICK i \in ObSlots : i = queue[k] /\ InBook(obBook, i) /\ k \in 1..Len(queue)
    BY <2>1, Found
  <2>3. IsBook(obBook) /\ OnceQueued(obBook)
    BY DEF SlotsInv, Accounted
  <2>4. PICK mid : mid = [obBook EXCEPT ![side] = rest(k)]
    OBVIOUS
  <2>5. SideSet(obBook, side, WithLevel(obBook[side], old, RemoveAt(Level(obBook[side], old), k)), mid)
    BY <2>1, <2>3, <2>4 DEF SideSet, IsBook
  <2>6. IsBook(mid) /\ OnceQueued(mid) /\ \A j : InBook(mid, j) <=> InBook(obBook, j) /\ j # i
    <3>1. /\ IsBook(mid) /\ OnceQueued(mid)
          /\ \A j : InBook(mid, j) <=> InBook(obBook, j) /\ j # Level(obBook[side], old)[k]
      BY ONLY <2>2, <2>3, <2>5, side \in ObSides, old \in ObPrices, TakeFromBook
    <3> QED  BY <2>2, <3>1
  <2>7. SideSet(mid, side, WithLevel(mid[side], new, Append(Level(mid[side], new), i)), obBook')
    <3>1. mid[side] = rest(k) /\ \A s \in ObSides : s # side => mid[s] = obBook[s]
      BY <2>1, <2>5 DEF SideSet
    <3>2. /\ DOMAIN obBook' = ObSides /\ obBook'[side] = WithLevel(rest(k), new, Append(Level(rest(k), new), i))
          /\ \A s \in ObSides : s # side => obBook'[s] = obBook[s]
      BY <2>1, <2>2, <2>3 DEF IsBook
    <3> QED  BY <3>1, <3>2 DEF SideSet
  <2>8. IsBook(obBook') /\ OnceQueued(obBook') /\ \A j : InBook(obBook', j) <=> InBook(mid, j) \/ j = i
    BY ONLY <2>6, <2>7, side \in ObSides, new \in ObPrices, i \in ObSlots, PutInBook
  <2>9. \A j : InBook(obBook', j) <=> InBook(obBook, j)
    BY <2>2, <2>6, <2>8
  <2>10. obPool \in [ObSlots -> ObEntry] /\ obPool[i] \in [id : ObIds, qty : Nat]
    BY <2>2, Entries DEF SlotsInv, Accounted
  <2>11. PICK e \in ObEntry : e = [obPool[i] EXCEPT !.qty = qty] /\ e # ObNone
    BY <2>10, Entries
  <2>12. obPool' = [obPool EXCEPT ![i] = e]
    BY <2>1, <2>2, <2>10, <2>11
  <2>13. obPool' \in [ObSlots -> ObEntry] /\ \A j \in ObSlots : obPool'[j] # ObNone <=> InBook(obBook, j)
    BY <2>2, <2>10, <2>11, <2>12 DEF SlotsInv, Accounted
  <2>14. Accounted(obPool', obFree', obNext', obBook')
    BY <2>1, <2>8, <2>9, <2>13 DEF SlotsInv, Accounted
  <2> QED  BY <2>14 DEF SlotsInv
<1> QED  BY <1>1, <1>2

-----------------------------------------------------------------------------
(* A market order. *)

\* The quantities queued within the limit.
LEMMA QueuedOrders ==
    ASSUME SlotsInv, NEW side \in ObSides, NEW limit \in ObPrices, NEW p \in Eligible(side, limit)
    PROVE  /\ IsFiniteSet(Eligible(side, limit)) /\ p \in ObPrices /\ p \in DOMAIN obBook[side]
           /\ obBook[side][p] = Level(obBook[side], p) /\ obBook[side][p] \in Seq(ObSlots)
           /\ DOMAIN obBook[side][p] = 1..Len(obBook[side][p]) /\ Len(obBook[side][p]) \in Nat
           /\ IsFiniteSet(1..Len(obBook[side][p]))
           /\ DOMAIN Quantities(side, p) = 1..Len(obBook[side][p])
           /\ \A k \in 1..Len(obBook[side][p]) :
                 /\ obBook[side][p][k] \in ObSlots /\ InBook(obBook, obBook[side][p][k])
                 /\ obPool[obBook[side][p][k]] \in [id : ObIds, qty : Nat]
                 /\ Quantities(side, p)[k] = obPool[obBook[side][p][k]].qty /\ Quantities(side, p)[k] \in Nat
<1>1. p \in DOMAIN obBook[side] /\ Eligible(side, limit) \subseteq DOMAIN obBook[side]
  BY DEF Eligible
<1>2. DOMAIN obBook[side] \subseteq ObPrices /\ obBook[side][p] \in Seq(ObSlots)
  BY <1>1 DEF SlotsInv, Accounted, IsBook
<1>3. IsFiniteSet(Eligible(side, limit))
  <2>1. Eligible(side, limit) \in SUBSET ObPrices /\ IsFiniteSet(ObPrices)
    BY <1>1, <1>2, BookParameters
  <2> QED  BY <2>1, FS_Subset
<1>4. PICK q \in Seq(ObSlots) : q = obBook[side][p]
  BY <1>2
<1>5. DOMAIN q = 1..Len(q) /\ Len(q) \in Nat /\ q = Level(obBook[side], p)
  BY <1>1, <1>4 DEF Level
<1>6. IsFiniteSet(1..Len(q))
  BY <1>5, FS_Interval
<1>7. ASSUME NEW k \in 1..Len(q)
      PROVE  /\ q[k] \in ObSlots /\ InBook(obBook, q[k]) /\ obPool[q[k]] \in [id : ObIds, qty : Nat]
             /\ obPool[q[k]].qty \in Nat
  <2>1. q[k] \in ObSlots
    BY <1>4
  <2>2. InBook(obBook, q[k])
    BY <1>1, <1>2, <1>5 DEF InBook
  <2>3. obPool[q[k]] \in [id : ObIds, qty : Nat]
    BY <2>1, <2>2, Entries DEF SlotsInv, Accounted
  <2> QED  BY <2>1, <2>2, <2>3
<1>8. DOMAIN Quantities(side, p) = 1..Len(q) /\ \A k \in 1..Len(q) : Quantities(side, p)[k] = obPool[q[k]].qty
  BY <1>4, <1>5 DEF Quantities
<1> QED  BY <1>1, <1>2, <1>3, <1>4, <1>5, <1>6, <1>7, <1>8

\* What is taken of an order.
LEMMA Taken ==
    ASSUME SlotsInv, NEW side \in ObSides, NEW limit \in ObPrices, NEW asked \in Nat,
           NEW p \in Eligible(side, limit), NEW k \in 1..Len(obBook[side][p])
    PROVE  /\ Depth(side, p) \in Nat /\ Remaining(side, limit, asked, p, k) \in Int
           /\ ExecutedOf(side, limit, asked, p, k) =
                 IF Remaining(side, limit, asked, p, k) <= 0 THEN 0
                 ELSE IF Quantities(side, p)[k] <= Remaining(side, limit, asked, p, k)
                      THEN Quantities(side, p)[k] ELSE Remaining(side, limit, asked, p, k)
           /\ ExecutedOf(side, limit, asked, p, k) \in 0..Quantities(side, p)[k]
<1>1. ASSUME NEW x \in Eligible(side, limit)
      PROVE  /\ IsFiniteSet(1..Len(obBook[side][x])) /\ Depth(side, x) \in Nat
             /\ \A T \in SUBSET (1..Len(obBook[side][x])) : SumFunctionOnSet(Quantities(side, x), T) \in Nat
  <2>1. IsFiniteSet(1..Len(obBook[side][x])) /\ DOMAIN Quantities(side, x) = 1..Len(obBook[side][x])
    BY QueuedOrders
  <2>2. \A n \in 1..Len(obBook[side][x]) : Quantities(side, x)[n] \in Nat
    BY QueuedOrders
  <2>3. ASSUME NEW T \in SUBSET (1..Len(obBook[side][x]))
        PROVE  SumFunctionOnSet(Quantities(side, x), T) \in Nat
    BY <2>1, <2>2, SumOfPart
  <2> QED  BY <2>1, <2>3 DEF Depth, SumFunction
<1>2. Ahead(side, limit, p, k) \in Int
  <2>1. PICK E : E = Eligible(side, limit)
    OBVIOUS
  <2>2. PICK d : d = [q \in E |-> Depth(side, q)]
    OBVIOUS
  <2>3. PICK B \in SUBSET E : B = {q \in E : Better(side, q, p)}
    OBVIOUS
  <2>4. IsFiniteSet(E)
    BY <2>1, QueuedOrders
  <2>5. SumFunctionOnSet(d, B) \in Nat
    <3>1. \A q \in E : d[q] \in Nat
      BY <1>1, <2>1, <2>2
    <3> QED  BY <2>4, <3>1, SumOfPart
  <2>6. 1..(k - 1) \in SUBSET (1..Len(obBook[side][p]))
    BY QueuedOrders
  <2>7. SumFunctionOnSet(Quantities(side, p), 1..(k - 1)) \in Nat
    BY <1>1, <2>6
  <2>8. Ahead(side, limit, p, k) = SumFunctionOnSet(d, B) + SumFunctionOnSet(Quantities(side, p), 1..(k - 1))
    BY <2>1, <2>2, <2>3 DEF Ahead
  <2> QED  BY <2>5, <2>7, <2>8
<1>3. PICK q \in Nat, r \in Int : q = Quantities(side, p)[k] /\ r = Remaining(side, limit, asked, p, k)
  <2>1. Quantities(side, p)[k] \in Nat
    BY QueuedOrders
  <2>2. Remaining(side, limit, asked, p, k) \in Int
    BY <1>2 DEF Remaining
  <2> QED  BY <2>1, <2>2, Zenon
<1>4. ExecutedOf(side, limit, asked, p, k) = IF r <= 0 THEN 0 ELSE Min({q, r})
  BY <1>3 DEF ExecutedOf
<1>5. Min({q, r}) = IF q <= r THEN q ELSE r
  BY MinOfTwo
<1> QED  BY <1>1, <1>3, <1>4, <1>5


\* The orders executed in full are among those of the level.
LEMMA FilledFits ==
    ASSUME SlotsInv, NEW side \in ObSides, NEW limit \in ObPrices, NEW asked, NEW p \in ObPrices
    PROVE  /\ Filled(side, limit, asked, p) \in Nat
           /\ Filled(side, limit, asked, p) <= Len(Level(obBook[side], p))
           /\ Len(Level(obBook[side], p)) \in 0..ObCapacity
           /\ (p \notin Eligible(side, limit) => Filled(side, limit, asked, p) = 0)
<1>1. Len(Level(obBook[side], p)) \in 0..ObCapacity
  BY QueueFits, ObFacts DEF SlotsInv, Accounted
<1>2. CASE p \notin Eligible(side, limit)
  BY <1>1, <1>2 DEF Filled
<1>3. CASE p \in Eligible(side, limit)
  <2>1. PICK n \in Nat : n = Len(obBook[side][p]) /\ DOMAIN obBook[side][p] = 1..n /\ n = Len(Level(obBook[side], p))
    BY <1>3, QueuedOrders
  <2>2. PICK K \in SUBSET (1..n) : Filled(side, limit, asked, p) = Cardinality(K)
    BY <1>3, <2>1 DEF Filled
  <2>3. IsFiniteSet(1..n) /\ Cardinality(1..n) = n
    BY FS_Interval
  <2>4. Cardinality(K) \in Nat /\ Cardinality(K) <= n
    BY <2>3, FS_Subset, FS_CardinalityType
  <2> QED  BY <1>1, <1>3, <2>1, <2>2, <2>4
<1> QED  BY <1>2, <1>3

LEMMA MatchKeeps ==
    ASSUME SlotsInv, NEW side \in ObSides, NEW limit \in ObPrices, NEW asked \in Nat,
           MatchMarket(side, limit, asked)
    PROVE  SlotsInv'
<1> DEFINE Queue(p) == obBook[side][p]
           filled(p) == Filled(side, limit, asked, p)
           levels == {p \in DOMAIN obBook[side] : filled(p) < Len(Queue(p))}
           gone == {a \in Eligible(side, limit) \X ObSlots : a[2] <= filled(a[1])}
           Slot(a) == Queue(a[1])[a[2]]
           TakenAt(i) == {a \in Eligible(side, limit) \X ObSlots :
                            /\ a[2] \in DOMAIN Queue(a[1]) /\ Slot(a) = i
                            /\ Remaining(side, limit, asked, a[1], a[2]) > 0}
           Left(i) == LET a == CHOOSE a \in TakenAt(i) : TRUE
                      IN  [obPool[i] EXCEPT !.qty = @ - ExecutedOf(side, limit, asked, a[1], a[2])]
           b == obBook
           f == [p \in ObPrices |-> filled(p)]
           Swept(j) == \E p \in ObPrices : \E k \in 1..f[p] : Level(b[side], p)[k] = j
<1>1. /\ obBook' = [obBook EXCEPT ![side] = [p \in levels |-> SubSeq(Queue(p), filled(p) + 1, Len(Queue(p)))]]
      /\ obPool' = [i \in ObSlots |-> IF \E a \in gone : Slot(a) = i THEN ObNone
                                      ELSE IF TakenAt(i) = {} THEN obPool[i] ELSE Left(i)]
      /\ obNext' = obNext
  BY DEF MatchMarket
<1>2. PICK freed \in Bijection(1..Cardinality(gone), gone) :
         obFree' = obFree \o [n \in DOMAIN freed |-> Slot(freed[n])]
  BY DEF MatchMarket
<1>3. /\ obPool \in [ObSlots -> ObEntry] /\ obNext \in 0..ObCapacity /\ ObCapacity \in Nat
      /\ FreeOnce(obFree) /\ IsBook(b) /\ OnceQueued(b)
      /\ \A j \in ObSlots : /\ ~(InBook(b, j) /\ IsFree(obFree, j))
                            /\ InBook(b, j) \/ IsFree(obFree, j) <=> j <= obNext
                            /\ obPool[j] # ObNone <=> InBook(b, j)
  BY ObFacts DEF SlotsInv, Accounted
<1>4. \A p \in ObPrices : /\ f[p] = filled(p) /\ f[p] \in Nat /\ f[p] <= Len(Level(b[side], p))
                          /\ Len(Level(b[side], p)) \in 0..ObCapacity
                          /\ (p \notin Eligible(side, limit) => f[p] = 0)
  BY FilledFits
<1>5. DOMAIN b[side] \subseteq ObPrices /\ \A p \in DOMAIN b[side] : Level(b[side], p) = b[side][p]
  BY <1>3 DEF IsBook, Level
<1>6. \A p \in Eligible(side, limit) : p \in ObPrices /\ p \in DOMAIN b[side] /\ Level(b[side], p) = Queue(p)
  BY <1>5 DEF Eligible
<1>7. /\ IsBook(obBook') /\ OnceQueued(obBook')
      /\ \A j : InBook(obBook', j) <=> InBook(b, j) /\ ~Swept(j)
  <2> DEFINE w == [p \in {p \in DOMAIN b[side] : f[p] < Len(b[side][p])} |->
                     SubSeq(b[side][p], f[p] + 1, Len(b[side][p]))]
  <2>1. [p \in levels |-> SubSeq(Queue(p), filled(p) + 1, Len(Queue(p)))] = w
    BY <1>4, <1>5
  <2>2. SideSet(b, side, w, obBook')
    <3> HIDE DEF w
    <3>1. obBook' = [obBook EXCEPT ![side] = w]
      BY <1>1, <2>1
    <3> QED  BY <1>3, <3>1 DEF SideSet, IsBook
  <2>3. \A p \in ObPrices : f[p] \in Nat /\ f[p] <= Len(Level(b[side], p))
    BY <1>4
  <2> HIDE DEF f, b
  <2> QED  BY ONLY <1>3, <2>2, <2>3, side \in ObSides, SweepBook
<1>8. ASSUME NEW a \in gone
      PROVE  /\ a[1] \in ObPrices /\ a[2] \in 1..f[a[1]] /\ a[2] \in 1..Len(Level(b[side], a[1]))
             /\ Slot(a) = Level(b[side], a[1])[a[2]] /\ Slot(a) \in ObSlots /\ InBook(b, Slot(a))
  <2>1. a[1] \in Eligible(side, limit) /\ a[2] \in ObSlots /\ a[2] <= filled(a[1])
    OBVIOUS
  <2>2. a[1] \in ObPrices /\ Level(b[side], a[1]) = Queue(a[1]) /\ Level(b[side], a[1]) \in Seq(ObSlots)
    BY <1>3, <1>6, <2>1, LevelType
  <2>3. a[2] \in 1..f[a[1]]
    BY <1>3, <1>4, <2>1, <2>2 DEF ObSlots
  <2>4. a[2] \in 1..Len(Level(b[side], a[1]))
    BY <1>4, <2>2, <2>3
  <2>5. Level(b[side], a[1])[a[2]] \in ObSlots
    BY <2>2, <2>4
  <2> QED  BY <2>2, <2>3, <2>4, <2>5 DEF InBook
<1>9. \A j : Swept(j) <=> \E a \in gone : Slot(a) = j
  <2>1. ASSUME NEW j, Swept(j) PROVE \E a \in gone : Slot(a) = j
    <3>1. PICK p \in ObPrices : \E k \in 1..f[p] : Level(b[side], p)[k] = j
      BY <2>1
    <3>2. PICK k \in 1..f[p] : Level(b[side], p)[k] = j
      BY <3>1
    <3>3. k \in ObSlots /\ f[p] # 0 /\ k <= filled(p)
      BY <1>3, <1>4, <3>2 DEF ObSlots
    <3>4. p \in Eligible(side, limit)
      BY <1>4, <3>3
    <3>5. <<p, k>> \in gone /\ Slot(<<p, k>>) = j
      BY <1>6, <3>2, <3>3, <3>4
    <3> QED  BY <3>5
  <2>2. ASSUME NEW j, NEW a \in gone, Slot(a) = j PROVE Swept(j)
    BY <1>8, <2>2
  <2> QED  BY <2>1, <2>2
<1>10. ASSUME NEW x \in gone, NEW y \in gone, Slot(x) = Slot(y) PROVE x = y
  <2>1. x[1] = y[1] /\ x[2] = y[2]
    <3> HIDE DEF gone, f, b
    <3>1. PICK s, t, k, m : s = x[1] /\ t = y[1] /\ k = x[2] /\ m = y[2]
      OBVIOUS
    <3>2. /\ s \in ObPrices /\ t \in ObPrices /\ k \in 1..Len(Level(b[side], s)) /\ m \in 1..Len(Level(b[side], t))
          /\ Level(b[side], s)[k] = Level(b[side], t)[m]
      BY <1>8, <1>10, <3>1
    <3> QED  BY <1>3, <3>1, <3>2 DEF OnceQueued
  <2>2. x = <<x[1], x[2]>> /\ y = <<y[1], y[2]>>
    OBVIOUS
  <2> QED  BY <2>1, <2>2
<1> HIDE DEF gone
<1>11. PICK u : u = [n \in DOMAIN freed |-> Slot(freed[n])]
  OBVIOUS
<1>12. FreeOnce(u) /\ \A j : IsFree(u, j) <=> Swept(j)
  <2>1. IsFiniteSet(gone)
    <3>1. IsFiniteSet(Eligible(side, limit)) /\ IsFiniteSet(ObSlots)
      <4>1. Eligible(side, limit) \in SUBSET ObPrices /\ IsFiniteSet(ObPrices)
        BY <1>6, BookParameters
      <4> QED  BY <4>1, ObFacts, FS_Subset
    <3>2. IsFiniteSet(Eligible(side, limit) \X ObSlots)
      BY <3>1, FS_Product
    <3> QED  BY <3>2, FS_Subset DEF gone
  <2>2. PICK n \in Nat : n = Cardinality(gone)
    BY <2>1, FS_CardinalityType
  <2>3. /\ freed \in [1..n -> gone] /\ \A x, y \in 1..n : freed[x] = freed[y] => x = y
        /\ \A a \in gone : \E x \in 1..n : freed[x] = a
    BY <1>2, <2>2 DEF Bijection, Injection, Surjection, IsInjective
  <2>4. DOMAIN u = 1..n /\ \A x \in 1..n : u[x] = Slot(freed[x]) /\ freed[x] \in gone
    BY <1>11, <2>3
  <2>5. u \in Seq(ObSlots) /\ Len(u) = n
    <3> HIDE DEF Slot
    <3>1. \A x \in 1..n : u[x] \in ObSlots
      BY <1>8, <2>4
    <3>2. u = [x \in 1..n |-> u[x]]
      BY <1>11, <2>3
    <3> QED  BY <3>1, <3>2
  <2>6. FreeOnce(u)
    <3> HIDE DEF Slot
    <3> SUFFICES ASSUME NEW x \in 1..n, NEW y \in 1..n, u[x] = u[y] PROVE x = y
      BY <2>5 DEF FreeOnce
    <3>1. freed[x] = freed[y]
      BY <1>10, <2>4
    <3> QED  BY <2>3, <3>1
  <2>7. \A j : IsFree(u, j) <=> \E a \in gone : Slot(a) = j
    <3> HIDE DEF Slot
    <3> QED  BY <2>3, <2>4, <2>5 DEF IsFree
  <2> HIDE DEF Slot, Swept
  <2> QED  BY <1>9, <2>6, <2>7
<1>13. \A j : Swept(j) => InBook(b, j) /\ j \in ObSlots
  BY <1>8, <1>9
<1>14. FreeOnce(obFree') /\ \A j : IsFree(obFree', j) <=> IsFree(obFree, j) \/ Swept(j)
  <2> HIDE DEF Swept
  <2>1. obFree' = obFree \o u
    BY <1>2, <1>11
  <2>2. \A j : ~(IsFree(obFree, j) /\ IsFree(u, j))
    BY <1>3, <1>12, <1>13
  <2>3. FreeOnce(obFree \o u) /\ \A j : IsFree(obFree \o u, j) <=> IsFree(obFree, j) \/ IsFree(u, j)
    BY ONLY <1>3, <1>12, <2>2, FreeJoined
  <2> QED  BY <1>12, <2>1, <2>3
<1>15. ASSUME NEW i \in ObSlots
       PROVE  obPool'[i] \in ObEntry /\ (obPool'[i] # ObNone <=> InBook(b, i) /\ ~Swept(i))
  <2> HIDE DEF Slot, Swept, TakenAt, Left, b
  <2>1. CASE Swept(i)
    <3>1. obPool'[i] = ObNone
      BY <1>1, <1>9, <2>1
    <3> QED  BY <2>1, <3>1, Entries
  <2>2. CASE ~Swept(i) /\ TakenAt(i) = {}
    <3>1. obPool'[i] = obPool[i]
      BY <1>1, <1>9, <2>2
    <3> QED  BY <1>3, <2>2, <3>1
  <2>3. CASE ~Swept(i) /\ TakenAt(i) # {}
    <3>1. obPool'[i] = Left(i)
      BY <1>1, <1>9, <2>3
    <3>2. PICK a \in TakenAt(i) : Left(i) = [obPool[i] EXCEPT !.qty = @ - ExecutedOf(side, limit, asked, a[1], a[2])]
      BY <2>3 DEF Left
    <3>3. a[1] \in Eligible(side, limit) /\ a[2] \in DOMAIN Queue(a[1]) /\ Queue(a[1])[a[2]] = i
      BY DEF TakenAt, Slot
    <3>4. a[2] \in 1..Len(Queue(a[1]))
      BY <3>3, QueuedOrders
    <3>5. /\ InBook(obBook, i) /\ obPool[i] \in [id : ObIds, qty : Nat]
          /\ Quantities(side, a[1])[a[2]] = obPool[i].qty
      BY <3>3, <3>4, QueuedOrders
    <3>6. ExecutedOf(side, limit, asked, a[1], a[2]) \in 0..Quantities(side, a[1])[a[2]]
      BY <3>3, <3>4, Taken
    <3>7. PICK q \in Nat : q = obPool[i].qty - ExecutedOf(side, limit, asked, a[1], a[2])
      <4>1. PICK x \in Nat : x = obPool[i].qty
        BY <3>5
      <4> QED  BY <3>5, <3>6, <4>1
    <3>8. Left(i) = [obPool[i] EXCEPT !.qty = q]
      BY <3>2, <3>5, <3>7
    <3>9. Left(i) \in ObEntry /\ Left(i) # ObNone
      BY <3>5, <3>8, Entries
    <3> QED  BY <2>3, <3>1, <3>5, <3>9 DEF b
  <2> QED  BY <2>1, <2>2, <2>3
<1>16. obPool' \in [ObSlots -> ObEntry]
  <2>1. obPool' = [i \in ObSlots |-> obPool'[i]]
    BY <1>1
  <2> QED  BY <1>15, <2>1
<1>17. \A j \in ObSlots : /\ ~(InBook(obBook', j) /\ IsFree(obFree', j))
                          /\ InBook(obBook', j) \/ IsFree(obFree', j) <=> j <= obNext'
                          /\ obPool'[j] # ObNone <=> InBook(obBook', j)
  <2> HIDE DEF Swept, b
  <2> QED  BY <1>1, <1>3, <1>7, <1>13, <1>14, <1>15
<1>18. Accounted(obPool', obFree', obNext', obBook')
  BY <1>1, <1>3, <1>7, <1>14, <1>16, <1>17 DEF Accounted
<1> QED  BY <1>18 DEF SlotsInv


LEMMA BookInit == ObInit => SlotsInv
<1> SUFFICES ASSUME ObInit PROVE SlotsInv
  OBVIOUS
<1>1. /\ obPool = [i \in ObSlots |-> ObNone] /\ obFree = << >> /\ obNext = 0
      /\ obBook = [s \in ObSides |-> << >>]
  BY DEF ObInit
<1>2. \A s \in ObSides : obBook[s] = << >> /\ DOMAIN obBook[s] = {}
  BY <1>1
<1>3. \A s \in ObSides, p \in ObPrices : Level(obBook[s], p) = << >>
  BY <1>2 DEF Level
<1>4. IsBook(obBook)
  BY <1>1, <1>2 DEF IsBook
<1>5. OnceQueued(obBook) /\ \A i : ~InBook(obBook, i)
  <2>1. \A s \in ObSides, p \in ObPrices : 1..Len(Level(obBook[s], p)) = {}
    BY <1>3, EmptyQueue
  <2> QED  BY <2>1 DEF OnceQueued, InBook
<1>6. FreeOnce(obFree) /\ \A i : ~IsFree(obFree, i)
  BY <1>1, EmptyQueue DEF FreeOnce, IsFree
<1>7. obPool \in [ObSlots -> ObEntry] /\ (\A i \in ObSlots : obPool[i] = ObNone) /\ obNext \in 0..ObCapacity
  BY <1>1, Entries, ObFacts
<1>8. \A i \in ObSlots : ~(i <= obNext)
  BY <1>1 DEF ObSlots
<1> QED  BY <1>4, <1>5, <1>6, <1>7, <1>8 DEF SlotsInv, Accounted

LEMMA BookStep == SlotsInv /\ [ObNext]_obVars => SlotsInv'
<1> SUFFICES ASSUME SlotsInv, [ObNext]_obVars PROVE SlotsInv'
  OBVIOUS
<1>1. ObQtys \subseteq Nat /\ ObSweeps \subseteq Nat
  BY BookParameters
<1>2. CASE UNCHANGED obVars
  BY <1>2 DEF obVars, SlotsInv
<1>3. CASE ObNext
  <2>1. PICK side \in ObSides, p \in ObPrices :
          \/ \E id \in ObIds, q \in ObQtys : AddLimit(side, p, id, q) \/ EditLimit(side, p, id, q)
          \/ \E id \in ObIds : RemoveLimit(side, p, id)
          \/ \E id \in ObIds, new \in ObPrices, q \in ObQtys \cup {0} : ModifyLimit(side, p, id, new, q)
          \/ \E q \in ObSweeps : MatchMarket(side, p, q)
    BY <1>3 DEF ObNext
  <2>2. ASSUME NEW id \in ObIds, NEW q \in ObQtys, AddLimit(side, p, id, q)
        PROVE  SlotsInv'
    BY <1>1, <2>2, AddKeeps DEF AddLimit
  <2>3. ASSUME NEW id \in ObIds, NEW q \in ObQtys, EditLimit(side, p, id, q)
        PROVE  SlotsInv'
    BY <1>1, <2>3, EditKeeps
  <2>4. ASSUME NEW id \in ObIds, RemoveLimit(side, p, id)
        PROVE  SlotsInv'
    BY <2>4, RemoveKeeps
  <2>5. ASSUME NEW id \in ObIds, NEW new \in ObPrices, NEW q \in ObQtys \cup {0}, ModifyLimit(side, p, id, new, q)
        PROVE  SlotsInv'
    <3>1. q \in Nat
      BY <1>1
    <3> QED  BY <2>5, <3>1, ModifyKeeps
  <2>6. ASSUME NEW q \in ObSweeps, MatchMarket(side, p, q)
        PROVE  SlotsInv'
    BY <1>1, <2>6, MatchKeeps
  <2> QED  BY <2>1, <2>2, <2>3, <2>4, <2>5, <2>6
<1> QED  BY <1>2, <1>3

LEMMA BookTyped == SlotsInv => ObTypeOK
BY DEF SlotsInv, Accounted, FreeOnce, IsBook, ObTypeOK

\* What the invariant says of one slot, counted.
LEMMA BookCounted == SlotsInv => SlotsAccounted
<1> SUFFICES ASSUME SlotsInv PROVE SlotsAccounted
  OBVIOUS
<1> DEFINE Queues == {q \in ObSides \X ObPrices : q[2] \in DOMAIN obBook[q[1]]}
           In(i) == {a \in Queues \X ObSlots :
                       LET queue == obBook[a[1][1]][a[1][2]] IN a[2] \in DOMAIN queue /\ queue[a[2]] = i}
           FreeAt(i) == {k \in DOMAIN obFree : obFree[k] = i}
<1>1. /\ obNext \in 0..ObCapacity /\ FreeOnce(obFree) /\ IsBook(obBook) /\ OnceQueued(obBook)
      /\ \A i \in ObSlots : /\ ~(InBook(obBook, i) /\ IsFree(obFree, i))
                            /\ InBook(obBook, i) \/ IsFree(obFree, i) <=> i <= obNext
                            /\ obPool[i] # ObNone <=> InBook(obBook, i)
  BY DEF SlotsInv, Accounted
<1>2. \A q \in Queues : obBook[q[1]][q[2]] # << >>
  BY <1>1 DEF IsBook
<1>3. \A s \in ObSides, p \in ObPrices :
         /\ Len(Level(obBook[s], p)) \in Nat /\ Len(Level(obBook[s], p)) <= ObCapacity
         /\ DOMAIN Level(obBook[s], p) = 1..Len(Level(obBook[s], p))
         /\ (p \in DOMAIN obBook[s] => Level(obBook[s], p) = obBook[s][p])
         /\ (p \notin DOMAIN obBook[s] => Len(Level(obBook[s], p)) = 0)
  <2> SUFFICES ASSUME NEW s \in ObSides, NEW p \in ObPrices
               PROVE  /\ Len(Level(obBook[s], p)) \in Nat /\ Len(Level(obBook[s], p)) <= ObCapacity
                      /\ DOMAIN Level(obBook[s], p) = 1..Len(Level(obBook[s], p))
                      /\ (p \in DOMAIN obBook[s] => Level(obBook[s], p) = obBook[s][p])
                      /\ (p \notin DOMAIN obBook[s] => Len(Level(obBook[s], p)) = 0)
    OBVIOUS
  <2>1. Level(obBook[s], p) \in Seq(ObSlots)
    BY <1>1, LevelType
  <2>2. Len(Level(obBook[s], p)) \in Nat /\ Len(Level(obBook[s], p)) <= ObCapacity
    BY <1>1, QueueFits
  <2>3. DOMAIN Level(obBook[s], p) = 1..Len(Level(obBook[s], p))
    BY <2>1
  <2>4. p \notin DOMAIN obBook[s] => Len(Level(obBook[s], p)) = 0
    BY EmptyQueue DEF Level
  <2> QED  BY <2>2, <2>3, <2>4 DEF Level
<1>4. ASSUME NEW i, InBook(obBook, i) PROVE \E a : In(i) = {a}
  <2>1. PICK s \in ObSides, p \in ObPrices : \E k \in 1..Len(Level(obBook[s], p)) : Level(obBook[s], p)[k] = i
    BY <1>4 DEF InBook
  <2>2. PICK k \in 1..Len(Level(obBook[s], p)) : Level(obBook[s], p)[k] = i
    BY <2>1
  <2>3. p \in DOMAIN obBook[s]
    BY <1>3, <2>2
  <2>4. k \in ObSlots
    <3>1. Len(Level(obBook[s], p)) \in Nat /\ Len(Level(obBook[s], p)) <= ObCapacity /\ ObCapacity \in Nat
      BY <1>3, ObFacts
    <3> QED  BY <2>2, <3>1 DEF ObSlots
  <2>5. <<<<s, p>>, k>> \in In(i)
    BY <1>3, <2>2, <2>3, <2>4
  <2>6. ASSUME NEW a \in In(i) PROVE a = <<<<s, p>>, k>>
    <3>1. PICK t \in ObSides, x \in ObPrices, m \in ObSlots : a = <<<<t, x>>, m>>
      OBVIOUS
    <3>2. x \in DOMAIN obBook[t] /\ m \in DOMAIN obBook[t][x] /\ obBook[t][x][m] = i
      BY <3>1
    <3>3. m \in 1..Len(Level(obBook[t], x)) /\ Level(obBook[t], x)[m] = i
      BY <1>3, <3>2
    <3>4. t = s /\ x = p /\ m = k
      BY <1>1, <2>2, <3>3 DEF OnceQueued
    <3> QED  BY <3>1, <3>4
  <2>7. In(i) = {<<<<s, p>>, k>>}
    <3> HIDE DEF In
    <3> QED  BY <2>5, <2>6
  <2> QED  BY <2>7
<1>5. ASSUME NEW i, ~InBook(obBook, i) PROVE In(i) = {}
  <2> SUFFICES ASSUME NEW a \in In(i) PROVE FALSE
    OBVIOUS
  <2>1. PICK t \in ObSides, x \in ObPrices, m \in ObSlots : a = <<<<t, x>>, m>>
    OBVIOUS
  <2>2. x \in DOMAIN obBook[t] /\ m \in DOMAIN obBook[t][x] /\ obBook[t][x][m] = i
    BY <2>1
  <2>3. m \in 1..Len(Level(obBook[t], x)) /\ Level(obBook[t], x)[m] = i
    BY <1>3, <2>2
  <2> QED  BY <1>5, <2>3 DEF InBook
<1>6. DOMAIN obFree = 1..Len(obFree)
  BY <1>1 DEF FreeOnce
<1>7. ASSUME NEW i, IsFree(obFree, i) PROVE \E a : FreeAt(i) = {a}
  <2>1. PICK k \in 1..Len(obFree) : obFree[k] = i
    BY <1>7 DEF IsFree
  <2>2. FreeAt(i) = {k}
    BY <1>1, <1>6, <2>1 DEF FreeOnce
  <2> QED  BY <2>2
<1>8. ASSUME NEW i, ~IsFree(obFree, i) PROVE FreeAt(i) = {}
  BY <1>6, <1>8 DEF IsFree
<1>9. ASSUME NEW i \in ObSlots
      PROVE  /\ Cardinality(In(i)) + Cardinality(FreeAt(i)) = IF i <= obNext THEN 1 ELSE 0
             /\ obPool[i] # ObNone <=> In(i) # {}
  <2> HIDE DEF In, FreeAt
  <2>1. Cardinality({}) = 0 /\ \A a : Cardinality({a}) = 1
    BY FS_EmptySet, FS_Singleton
  <2>2. CASE InBook(obBook, i)
    <3>1. ~IsFree(obFree, i) /\ i <= obNext /\ obPool[i] # ObNone
      BY <1>1, <2>2
    <3>2. FreeAt(i) = {} /\ \E a : In(i) = {a}
      BY <1>4, <1>8, <2>2, <3>1
    <3>3. Cardinality(In(i)) = 1 /\ Cardinality(FreeAt(i)) = 0 /\ In(i) # {}
      BY <2>1, <3>2
    <3> QED  BY <3>1, <3>3
  <2>3. CASE ~InBook(obBook, i) /\ IsFree(obFree, i)
    <3>1. i <= obNext /\ obPool[i] = ObNone
      BY <1>1, <2>3
    <3>2. In(i) = {} /\ \E a : FreeAt(i) = {a}
      BY <1>5, <1>7, <2>3
    <3>3. Cardinality(In(i)) = 0 /\ Cardinality(FreeAt(i)) = 1
      BY <2>1, <3>2
    <3> QED  BY <3>1, <3>2, <3>3
  <2>4. CASE ~InBook(obBook, i) /\ ~IsFree(obFree, i)
    <3>1. ~(i <= obNext) /\ obPool[i] = ObNone
      BY <1>1, <2>4
    <3>2. In(i) = {} /\ FreeAt(i) = {}
      BY <1>5, <1>8, <2>4
    <3> QED  BY <2>1, <3>1, <3>2
  <2> QED  BY <2>2, <2>3, <2>4
<1> QED  BY <1>2, <1>9 DEF SlotsAccounted

\* The book keeps its types: levels map prices to sequences of the pool's slots and every
\* entry has an id of an order or is the empty entry (OrderEntryPool, OrderBook).
THEOREM ObTypes == ObSpec => []ObTypeOK
<1>1. ObSpec => []SlotsInv
  BY BookInit, BookStep, PTL DEF ObSpec
<1> QED  BY <1>1, BookTyped, PTL

\* Whatever is added, edited, moved, removed or matched, a slot of the pool is queued
\* once, or free once, or was never used, and has an order exactly when it is queued: no
\* slot leaks and none serves two orders, for every capacity (allocate, free, the levels).
THEOREM BookSlots == ObSpec => []SlotsAccounted
<1>1. ObSpec => []SlotsInv
  BY BookInit, BookStep, PTL DEF ObSpec
<1> QED  BY <1>1, BookCounted, PTL

-----------------------------------------------------------------------------
(* A market order takes the best prices. *)

\* The depth of the levels within the limit, and of those better than p.
Depths(side, limit) == [q \in Eligible(side, limit) |-> Depth(side, q)]
BetterThan(side, limit, p) == {q \in Eligible(side, limit) : Better(side, q, p)}
DepthAhead(side, limit, p) == SumFunctionOnSet(Depths(side, limit), BetterThan(side, limit, p))

LEMMA DepthsNat ==
    ASSUME SlotsInv, NEW side \in ObSides, NEW limit \in ObPrices
    PROVE  /\ IsFiniteSet(Eligible(side, limit)) /\ Eligible(side, limit) \in SUBSET ObPrices
           /\ DOMAIN Depths(side, limit) = Eligible(side, limit)
           /\ \A p \in Eligible(side, limit) : /\ Depths(side, limit)[p] = Depth(side, p) /\ Depth(side, p) \in Nat
                                               /\ DepthAhead(side, limit, p) \in Nat
<1>1. IsFiniteSet(Eligible(side, limit)) /\ Eligible(side, limit) \in SUBSET ObPrices
  <2>1. Eligible(side, limit) \in SUBSET ObPrices /\ IsFiniteSet(ObPrices)
    BY BookParameters DEF Eligible, SlotsInv, Accounted, IsBook
  <2> QED  BY <2>1, FS_Subset
<1>2. ASSUME NEW p \in Eligible(side, limit) PROVE Depth(side, p) \in Nat
  <2>1. /\ IsFiniteSet(1..Len(obBook[side][p])) /\ DOMAIN Quantities(side, p) = 1..Len(obBook[side][p])
        /\ \A n \in 1..Len(obBook[side][p]) : Quantities(side, p)[n] \in Nat
    BY QueuedOrders
  <2>2. SumFunctionOnSet(Quantities(side, p), 1..Len(obBook[side][p])) \in Nat
    BY <2>1, SumOfPart
  <2> QED  BY <2>1, <2>2 DEF Depth, SumFunction
<1>3. DOMAIN Depths(side, limit) = Eligible(side, limit) /\ \A p \in Eligible(side, limit) : Depths(side, limit)[p] = Depth(side, p)
  BY DEF Depths
<1>4. ASSUME NEW p \in Eligible(side, limit) PROVE DepthAhead(side, limit, p) \in Nat
  <2>1. BetterThan(side, limit, p) \in SUBSET Eligible(side, limit)
    BY DEF BetterThan
  <2>2. \A q \in Eligible(side, limit) : Depths(side, limit)[q] \in Nat
    BY <1>2, <1>3
  <2> QED  BY <1>1, <2>1, <2>2, SumOfPart DEF DepthAhead
<1> QED  BY <1>1, <1>2, <1>3, <1>4

\* What one level gives: what is left when it is reached, up to its depth.
LEMMA LevelSwept ==
    ASSUME SlotsInv, NEW side \in ObSides, NEW limit \in ObPrices, NEW asked \in Nat,
           NEW p \in Eligible(side, limit)
    PROVE  /\ SumFunction(Executions(side, limit, asked, p)) = Clip(asked - DepthAhead(side, limit, p), Depth(side, p))
           /\ DOMAIN Executions(side, limit, asked, p) = 1..Len(obBook[side][p])
           /\ \A k \in 1..Len(obBook[side][p]) : Executions(side, limit, asked, p)[k] \in Nat
<1>1. PICK n \in Nat : n = Len(obBook[side][p]) /\ DOMAIN obBook[side][p] = 1..n /\ DOMAIN Quantities(side, p) = 1..n
  BY QueuedOrders
<1>2. PICK f : f = Quantities(side, p)
  OBVIOUS
<1>3. PICK take : take = Executions(side, limit, asked, p)
  OBVIOUS
<1>4. PICK A \in Nat : A = DepthAhead(side, limit, p)
  BY DepthsNat
<1> DEFINE rank == [k \in 1..n |-> k]
<1>5. IsFiniteSet(1..n) /\ \A k \in 1..n : f[k] \in Nat
  BY <1>1, <1>2, QueuedOrders
<1>6. DOMAIN take = 1..n /\ \A k \in 1..n : take[k] = ExecutedOf(side, limit, asked, p, k)
  BY <1>1, <1>3 DEF Executions
<1>7. ASSUME NEW k \in 1..n
      PROVE  take[k] = Clip((asked - A) - SumFunctionOnSet(f, Before(1..n, rank, k)), f[k]) /\ take[k] \in Nat
  <2>1. Before(1..n, rank, k) = 1..(k - 1)
    BY DEF Before
  <2>2. PICK s \in Nat : s = SumFunctionOnSet(f, 1..(k - 1))
    <3>1. 1..(k - 1) \in SUBSET (1..n)
      OBVIOUS
    <3> QED  BY <1>5, <3>1, SumOfPart
  <2>3. Remaining(side, limit, asked, p, k) = asked - (A + s)
    BY <1>2, <1>4, <2>2 DEF Remaining, Ahead, DepthAhead, Depths, BetterThan
  <2>4. PICK r \in Int : r = (asked - A) - s /\ r = Remaining(side, limit, asked, p, k)
    BY <2>3
  <2>5. /\ ExecutedOf(side, limit, asked, p, k) = IF r <= 0 THEN 0 ELSE IF f[k] <= r THEN f[k] ELSE r
        /\ ExecutedOf(side, limit, asked, p, k) \in 0..f[k]
    BY <1>1, <1>2, <2>4, Taken
  <2>6. take[k] = Clip(r, f[k])
    BY <1>6, <2>5 DEF Clip
  <2>7. take[k] \in Nat
    BY <1>5, <1>6, <2>5
  <2> QED  BY <2>1, <2>2, <2>4, <2>6, <2>7
<1>8. Takes(1..n, f, rank, asked - A, take)
  BY <1>7 DEF Takes
<1>9. (\A k \in 1..n : rank[k] \in Int) /\ (\A x, y \in 1..n : rank[x] = rank[y] => x = y) /\ asked - A \in Int
  OBVIOUS
<1>10. SumFunctionOnSet(take, 1..n) = Clip(asked - A, SumFunctionOnSet(f, 1..n))
  <2> HIDE DEF rank
  <2> QED  BY ONLY <1>5, <1>8, <1>9, SweepTotal
<1>11. SumFunction(take) = SumFunctionOnSet(take, 1..n) /\ Depth(side, p) = SumFunctionOnSet(f, 1..n)
  BY <1>1, <1>2, <1>6 DEF SumFunction, Depth
<1> QED  BY <1>1, <1>3, <1>4, <1>6, <1>7, <1>10, <1>11

\* The cost of a level is its price times what it gives.
LEMMA LevelCost ==
    ASSUME SlotsInv, NEW side \in ObSides, NEW limit \in ObPrices, NEW asked \in Nat,
           NEW p \in Eligible(side, limit)
    PROVE  SumFunction([k \in DOMAIN obBook[side][p] |-> p * Executions(side, limit, asked, p)[k]])
              = p * SumFunction(Executions(side, limit, asked, p))
<1>1. PICK S : S = DOMAIN obBook[side][p]
  OBVIOUS
<1>2. PICK e : e = Executions(side, limit, asked, p)
  OBVIOUS
<1>3. IsFiniteSet(S) /\ DOMAIN e = S /\ (\A k \in S : e[k] \in Nat) /\ p \in Nat
  <2>1. IsFiniteSet(S) /\ S = 1..Len(obBook[side][p]) /\ p \in ObPrices
    BY <1>1, QueuedOrders
  <2>2. DOMAIN e = S /\ \A k \in S : e[k] \in Nat
    BY <1>2, <2>1, LevelSwept
  <2> QED  BY <2>1, <2>2, BookParameters
<1> DEFINE c == [k \in S |-> p * e[k]]
           z == [k \in S |-> 0]
<1>4. \A k \in S : e[k] \in Int /\ z[k] \in Int /\ c[k] = p * e[k] + z[k] /\ z[k] = 0 - z[k]
  BY <1>3
<1> HIDE DEF c, z
<1>5. SumFunctionOnSet(c, S) = p * SumFunctionOnSet(e, S) + SumFunctionOnSet(z, S)
  <2>1. \A k \in S : e[k] \in Int /\ z[k] \in Int /\ c[k] = p * e[k] + z[k]
    BY <1>4
  <2>2. p \in Int
    BY <1>3
  <2> QED  BY ONLY <1>3, <2>1, <2>2, SumAdded
<1>6. SumFunctionOnSet(z, S) \in Int /\ SumFunctionOnSet(z, S) = 0 - SumFunctionOnSet(z, S)
  <2>1. \A k \in S : z[k] \in Int /\ z[k] = 0 - z[k]
    BY <1>4
  <2> QED  BY ONLY <1>3, <2>1, SumNegated
<1>7. SumFunctionOnSet(z, S) = 0
  BY ONLY <1>6
<1>8. PICK t \in Int : t = p * SumFunctionOnSet(e, S)
  <2>1. SumFunctionOnSet(e, S) \in Nat
    BY <1>3, SumOfPart
  <2> QED  BY <1>3, <2>1
<1>9. SumFunctionOnSet(c, S) = p * SumFunctionOnSet(e, S)
  BY <1>5, <1>7, <1>8
<1>10. SumFunction(c) = SumFunctionOnSet(c, S) /\ SumFunction(e) = SumFunctionOnSet(e, S)
  BY <1>3 DEF SumFunction, c
<1> QED  BY <1>1, <1>2, <1>9, <1>10 DEF c

LEMMA BookBest == SlotsInv => MatchIsBest
<1> SUFFICES ASSUME SlotsInv, NEW side \in ObSides, NEW limit \in ObPrices, NEW asked \in ObSweeps
             PROVE  LET levels == Eligible(side, limit)
                        got == Match(side, limit, asked)
                        Ways == {w \in [levels -> 0..asked] :
                                    (\A p \in levels : w[p] <= Depth(side, p)) /\ SumFunction(w) = got.executed}
                        costs == {SumFunction([p \in levels |-> p * w[p]]) : w \in Ways}
                    IN  /\ got.executed = Min({asked, SumFunction([p \in levels |-> Depth(side, p)])})
                        /\ got.cost = IF side = "Ask" THEN Min(costs) ELSE Max(costs)
  BY DEF MatchIsBest
<1> DEFINE levels == Eligible(side, limit)
           got == Match(side, limit, asked)
           d == Depths(side, limit)
           e == [p \in levels |-> SumFunction(Executions(side, limit, asked, p))]
           rank == [p \in levels |-> IF side = "Ask" THEN p ELSE 0 - p]
           Cost(w) == SumFunction([p \in levels |-> p * w[p]])
           Ways == {w \in [levels -> 0..asked] :
                       (\A p \in levels : w[p] <= Depth(side, p)) /\ SumFunction(w) = got.executed}
           costs == {Cost(w) : w \in Ways}
<1>1. asked \in Nat
  BY BookParameters
<1>2. /\ IsFiniteSet(levels) /\ levels \in SUBSET ObPrices /\ DOMAIN d = levels
      /\ \A p \in levels : d[p] = Depth(side, p) /\ d[p] \in Nat /\ DepthAhead(side, limit, p) \in Nat
  BY DepthsNat
<1>3. \A p \in levels : p \in Nat
  BY <1>2, BookParameters
<1>4. (\A p \in levels : rank[p] \in Int) /\ (\A x, y \in levels : rank[x] = rank[y] => x = y)
  BY <1>3
<1>5. ASSUME NEW p \in levels PROVE e[p] = Clip(asked - SumFunctionOnSet(d, Before(levels, rank, p)), d[p])
  <2>1. \A q \in levels : Better(side, q, p) <=> rank[q] < rank[p]
    BY <1>3 DEF Better, ObSides
  <2>2. BetterThan(side, limit, p) = Before(levels, rank, p)
    BY <2>1 DEF BetterThan, Before
  <2>3. e[p] = Clip(asked - DepthAhead(side, limit, p), Depth(side, p))
    BY <1>1, LevelSwept
  <2> HIDE DEF rank, e
  <2> QED  BY <1>2, <2>2, <2>3 DEF DepthAhead
<1>6. Takes(levels, d, rank, asked, e)
  BY <1>5 DEF Takes
<1> HIDE DEF d, e, rank, levels
<1>7. \A p \in levels : e[p] \in 0..d[p]
  <2>1. (\A p \in levels : d[p] \in Nat) /\ asked \in Int
    BY <1>1, <1>2
  <2> QED  BY ONLY <1>2, <1>6, <2>1, SweepSums
<1>8. SumFunctionOnSet(e, levels) = Clip(asked, SumFunctionOnSet(d, levels))
  <2>1. (\A p \in levels : d[p] \in Nat) /\ asked \in Int
    BY <1>1, <1>2
  <2> QED  BY ONLY <1>2, <1>4, <1>6, <2>1, SweepTotal
<1>9. SumFunctionOnSet(d, levels) \in Nat
  BY <1>2, SumOfPart
<1>10. got.executed = SumFunction(e) /\ SumFunction(e) = SumFunctionOnSet(e, levels) /\ SumFunction(d) = SumFunctionOnSet(d, levels)
  BY <1>2 DEF Match, SumFunction, e, levels
<1>11. d = [p \in levels |-> Depth(side, p)]
  BY DEF d, Depths, levels
<1>12. got.executed = Min({asked, SumFunction([p \in levels |-> Depth(side, p)])})
  <2>1. PICK s \in Nat : s = SumFunctionOnSet(d, levels)
    BY <1>9
  <2>2. Clip(asked, s) = IF asked <= s THEN asked ELSE s
    BY <1>1 DEF Clip
  <2>3. Min({asked, s}) = IF asked <= s THEN asked ELSE s
    BY <1>1, MinOfTwo
  <2> QED  BY <1>8, <1>10, <1>11, <2>1, <2>2, <2>3
<1>13. got.cost = Cost(e)
  <2>1. got.cost = SumFunction([p \in levels |->
                     SumFunction([k \in DOMAIN obBook[side][p] |-> p * Executions(side, limit, asked, p)[k]])])
    BY DEF Match, levels
  <2>2. \A p \in levels : SumFunction([k \in DOMAIN obBook[side][p] |-> p * Executions(side, limit, asked, p)[k]])
                             = p * e[p]
    BY <1>1, LevelCost DEF e, levels
  <2> QED  BY <2>1, <2>2
<1>14. e \in Ways
  <2>1. \A p \in levels : e[p] \in 0..asked
    <3> SUFFICES ASSUME NEW p \in levels PROVE e[p] \in 0..asked
      OBVIOUS
    <3>1. PICK b \in Nat, a \in Nat : b = DepthAhead(side, limit, p) /\ a = Depth(side, p)
      BY <1>2
    <3>2. e[p] = Clip(asked - b, a)
      BY <1>1, <3>1, LevelSwept DEF e, levels
    <3> QED  BY <1>1, <3>2 DEF Clip
  <2>2. e \in [levels -> 0..asked]
    BY <2>1 DEF e
  <2>3. \A p \in levels : e[p] <= Depth(side, p)
    BY <1>2, <1>7
  <2> QED  BY <1>10, <2>2, <2>3
<1>15. ASSUME NEW w \in Ways
       PROVE  /\ \A p \in levels : w[p] \in 0..d[p]
              /\ SumFunctionOnSet(w, levels) = SumFunctionOnSet(e, levels)
  <2>1. w \in [levels -> 0..asked] /\ SumFunction(w) = got.executed /\ \A p \in levels : w[p] <= Depth(side, p)
    OBVIOUS
  <2>2. SumFunction(w) = SumFunctionOnSet(w, levels)
    BY <2>1 DEF SumFunction
  <2>3. \A p \in levels : w[p] \in 0..d[p]
    BY <1>2, <2>1
  <2> QED  BY <1>10, <2>1, <2>2, <2>3
<1> HIDE DEF got, Ways
<1>16. ASSUME NEW w \in Ways
       PROVE  /\ Cost(w) \in Int /\ Cost(e) \in Int
              /\ (side = "Ask" => Cost(e) <= Cost(w)) /\ (side # "Ask" => Cost(w) <= Cost(e))
  <2>1. PICK g : g = [p \in levels |-> p * e[p]]
    OBVIOUS
  <2>2. PICK h : h = [p \in levels |-> p * w[p]]
    OBVIOUS
  <2>3. Cost(e) = SumFunctionOnSet(g, levels) /\ Cost(w) = SumFunctionOnSet(h, levels)
    BY <2>1, <2>2 DEF SumFunction
  <2>4. \A p \in levels : g[p] = p * e[p] /\ h[p] = p * w[p] /\ e[p] \in Nat /\ w[p] \in Nat /\ p \in Nat
    BY <1>2, <1>3, <1>7, <1>15, <2>1, <2>2
  <2>5. \A p \in levels : g[p] \in Int /\ h[p] \in Int
    BY <2>4
  <2>6. SumFunctionOnSet(g, levels) \in Int
    <3>1. \A p \in levels : g[p] \in Int
      BY <2>5
    <3> QED  BY ONLY <1>2, <3>1, SumWithout
  <2>7. SumFunctionOnSet(h, levels) \in Int
    <3>1. \A p \in levels : h[p] \in Int
      BY <2>5
    <3> QED  BY ONLY <1>2, <3>1, SumWithout
  <2>8. /\ IsFiniteSet(levels) /\ (\A p \in levels : d[p] \in Nat) /\ asked \in Int
        /\ (\A p \in levels : w[p] \in 0..d[p]) /\ SumFunctionOnSet(w, levels) = SumFunctionOnSet(e, levels)
    BY <1>1, <1>2, <1>15
  <2>9. CASE side = "Ask"
    <3>1. \A p \in levels : g[p] = rank[p] * e[p] /\ h[p] = rank[p] * w[p]
      BY <2>4, <2>9 DEF rank
    <3>2. SumFunctionOnSet(g, levels) <= SumFunctionOnSet(h, levels)
      BY ONLY <1>4, <1>6, <2>8, <3>1, SweepBest
    <3> QED  BY <2>3, <2>6, <2>7, <2>9, <3>2
  <2>10. CASE side # "Ask"
    <3>1. PICK u : u = [p \in levels |-> 0 - g[p]]
      OBVIOUS
    <3>2. PICK v : v = [p \in levels |-> 0 - h[p]]
      OBVIOUS
    <3>3. \A p \in levels : u[p] = rank[p] * e[p] /\ v[p] = rank[p] * w[p]
      <4> SUFFICES ASSUME NEW p \in levels PROVE u[p] = rank[p] * e[p] /\ v[p] = rank[p] * w[p]
        OBVIOUS
      <4>1. u[p] = 0 - p * e[p] /\ v[p] = 0 - p * w[p] /\ rank[p] = 0 - p
        BY <2>4, <2>10, <3>1, <3>2 DEF rank
      <4>2. PICK a \in Nat, b \in Nat, c \in Nat : a = e[p] /\ b = w[p] /\ c = p
        BY <2>4
      <4>3. 0 - c * a = (0 - c) * a /\ 0 - c * b = (0 - c) * b
        OBVIOUS
      <4> QED  BY <4>1, <4>2, <4>3
    <3>4. SumFunctionOnSet(u, levels) <= SumFunctionOnSet(v, levels)
      BY ONLY <1>4, <1>6, <2>8, <3>3, SweepBest
    <3>5. SumFunctionOnSet(u, levels) = 0 - SumFunctionOnSet(g, levels)
      <4>1. \A p \in levels : g[p] \in Int /\ u[p] = 0 - g[p]
        BY <2>5, <3>1
      <4> QED  BY ONLY <2>8, <4>1, SumNegated
    <3>6. SumFunctionOnSet(v, levels) = 0 - SumFunctionOnSet(h, levels)
      <4>1. \A p \in levels : h[p] \in Int /\ v[p] = 0 - h[p]
        BY <2>5, <3>2
      <4> QED  BY ONLY <2>8, <4>1, SumNegated
    <3>7. SumFunctionOnSet(h, levels) <= SumFunctionOnSet(g, levels)
      BY ONLY <2>6, <2>7, <3>4, <3>5, <3>6
    <3> QED  BY <2>3, <2>6, <2>7, <2>10, <3>7
  <2> QED  BY <2>9, <2>10
<1> HIDE DEF Cost
<1>17. got.cost = IF side = "Ask" THEN Min(costs) ELSE Max(costs)
  <2>1. Cost(e) \in costs /\ costs \in SUBSET Int
    BY <1>14, <1>16
  <2>2. CASE side = "Ask"
    <3>1. \A y \in costs : Cost(e) <= y
      BY <1>16, <2>2
    <3> HIDE DEF costs
    <3>2. Min(costs) \in costs /\ \A y \in costs : Min(costs) <= y
      BY <2>1, <3>1 DEF Min
    <3>3. Min(costs) = Cost(e)
      <4>1. PICK a \in Int, m \in Int : a = Cost(e) /\ m = Min(costs)
        <5>1. Cost(e) \in Int /\ Min(costs) \in Int
          BY <2>1, <3>2
        <5> QED  BY <5>1, Zenon
      <4>2. a <= m /\ m <= a
        BY <2>1, <3>1, <3>2, <4>1
      <4>3. a = m
        BY <4>2
      <4> QED  BY <4>1, <4>3
    <3> QED  BY <1>13, <2>2, <3>3
  <2>3. CASE side # "Ask"
    <3>1. \A y \in costs : y <= Cost(e)
      BY <1>16, <2>3
    <3> HIDE DEF costs
    <3>2. Max(costs) \in costs /\ \A y \in costs : Max(costs) >= y
      BY <2>1, <3>1 DEF Max
    <3>3. Max(costs) = Cost(e)
      <4>1. PICK a \in Int, m \in Int : a = Cost(e) /\ m = Max(costs)
        <5>1. Cost(e) \in Int /\ Max(costs) \in Int
          BY <2>1, <3>2
        <5> QED  BY <5>1, Zenon
      <4>2. a <= m /\ m <= a
        BY <2>1, <3>1, <3>2, <4>1
      <4>3. a = m
        BY <4>2
      <4> QED  BY <4>1, <4>3
    <3> QED  BY <1>13, <2>3, <3>3
  <2> QED  BY <2>2, <2>3
<1> QED  BY <1>12, <1>17 DEF levels, got, Ways, costs, Cost

\* A market order of any size within any limit takes all it asks for or all there is, and
\* no other way to take as much is cheaper, or brings more when it sells, whatever the
\* book has become (match_market_bid, match_market_ask).
THEOREM BookMatches == ObSpec => []MatchIsBest
<1>1. ObSpec => []SlotsInv
  BY BookInit, BookStep, PTL DEF ObSpec
<1> QED  BY <1>1, BookBest, PTL
=============================================================================
