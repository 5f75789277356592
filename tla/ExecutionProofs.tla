--------------------------- MODULE ExecutionProofs ---------------------------
(***************************************************************************)
(* Proofs about the execution handler, each for every value of the         *)
(* constants: the permits of the backpressure controller, the accounting   *)
(* of a graceful shutdown, the one exit of a multi-leg group, the eviction *)
(* of the bounded dead letter queue, the rate kept by the token bucket,    *)
(* the overshoots of the pre-trade gate and of the sliding window, the     *)
(* exposure of hedged pairs, the recovery of the write-ahead log and the   *)
(* limit of the retry worker.                                              *)
(***************************************************************************)
EXTENDS Backpressure, BoundedDlq, DlqRetryWorker, ExecutionRisk, GracefulShutdown, MultiLeg, OrderWal, PairExposure,
        RateLimiter, SetLemmas, SequenceTheorems

-----------------------------------------------------------------------------
(* Backpressure. *)

BpPcs == {"idle", "checked", "waiting", "held"}
BpRequest == [pc : BpPcs, exchange : BpExchanges]
BpRecord ==
    [depth : Nat, permits : Nat, state : {"Normal", "Throttled", "Saturated"}, pressure : BOOLEAN]
BpHeld == {t \in BpTasks : bpTask[t].pc = "held"}

BpInv ==
    /\ bp \in BpRecord
    /\ bpTask \in [BpTasks -> BpRequest]
    /\ NoPermitLost

LEMMA PcNames == \A pc \in {"idle", "checked", "waiting", "held"} : pc \in BpPcs
BY DEF BpPcs

LEMMA HeldFinite == IsFiniteSet(BpHeld) /\ Cardinality(BpHeld) \in Nat
<1>1. BpHeld \subseteq BpTasks
  BY DEF BpHeld
<1> QED
  BY <1>1, BackpressureAssumption, FS_Subset, FS_CardinalityType

\* A move of one request changes the requests that hold a permit by that one at most.
LEMMA HeldAfter ==
    ASSUME bpTask \in [BpTasks -> BpRequest],
           NEW t \in BpTasks, NEW pc \in BpPcs, BpGoto(t, pc)
    PROVE  /\ bpTask' \in [BpTasks -> BpRequest]
           /\ BpHeld' = IF pc = "held" THEN BpHeld \cup {t} ELSE BpHeld \ {t}
<1>1. /\ bpTask' \in [BpTasks -> BpRequest]
      /\ bpTask'[t].pc = pc /\ \A u \in BpTasks \ {t} : bpTask'[u] = bpTask[u]
  BY DEF BpGoto, BpRequest
<1> QED
  BY <1>1 DEF BpHeld

LEMMA BpStep == BpInv /\ [BpNext]_bpVars => BpInv'
<1> SUFFICES ASSUME BpInv, [BpNext]_bpVars PROVE BpInv'
  OBVIOUS
<1> USE DEF BpHeld
<1>0. /\ bp.depth = Cardinality(BpHeld) /\ bp.permits + bp.depth >= BpPermits
      /\ bp.depth \in Nat /\ bp.permits \in Nat /\ BpPermits \in Nat
  BY BackpressureAssumption DEF BpInv, NoPermitLost, BpRecord
<1>1. IsFiniteSet(BpHeld)
  BY HeldFinite
<1> HIDE DEF BpHeld
<1>2. ASSUME BpHeld' = BpHeld, bp'.depth = bp.depth, bp'.permits = bp.permits,
             bp' \in BpRecord,
             bpTask' \in [BpTasks -> BpRequest]
      PROVE  BpInv'
  BY <1>0, <1>2 DEF BpInv, NoPermitLost, BpHeld
<1>3. ASSUME NEW t \in BpTasks, NEW e \in BpExchanges, try_acquire_for_exchange(t, e) PROVE BpInv'
  <2>1. /\ bp' = bp /\ bpTask[t].pc # "held"
        /\ bpTask' = [bpTask EXCEPT ![t] = [pc |-> "checked", exchange |-> e]]
    BY <1>3 DEF try_acquire_for_exchange
  <2>2. bpTask' \in [BpTasks -> BpRequest]
    BY <2>1 DEF BpInv, BpRequest, BpPcs
  <2>3. BpHeld' = BpHeld
    BY <2>1 DEF BpHeld, BpInv
  <2> QED
    BY <1>2, <2>1, <2>2, <2>3 DEF BpInv
<1>4. ASSUME NEW t \in BpTasks, CheckDepth(t) PROVE BpInv'
  <2>1. bpTask[t].pc = "checked" /\ (BpGoto(t, "idle") \/ BpGoto(t, "waiting"))
    BY <1>4 DEF CheckDepth
  <2>2. t \notin BpHeld
    BY <2>1 DEF BpHeld
  <2>3. BpHeld' = BpHeld /\ bpTask' \in [BpTasks -> BpRequest]
    BY <2>1, <2>2, HeldAfter, PcNames DEF BpInv
  <2>4. /\ bp'.depth = bp.depth /\ bp'.permits = bp.permits
        /\ bp' \in BpRecord
    BY <1>4 DEF CheckDepth, BpInv, BpRecord
  <2> QED
    BY <1>2, <2>3, <2>4
<1>5. ASSUME NEW t \in BpTasks, AcquirePermit(t) PROVE BpInv'
  <2>1. bpTask[t].pc = "waiting" /\ bp.permits > 0 /\ BpGoto(t, "held")
    BY <1>5 DEF AcquirePermit
  <2>2. t \notin BpHeld
    BY <2>1 DEF BpHeld
  <2>3. BpHeld' = BpHeld \cup {t} /\ bpTask' \in [BpTasks -> BpRequest]
    BY <2>1, HeldAfter, PcNames DEF BpInv
  <2>4. Cardinality(BpHeld') = bp.depth + 1
    BY <1>0, <1>1, <2>2, <2>3, FS_AddElement
  <2>5. bp.depth + 1 \in Nat /\ bp.permits - 1 \in Nat
    BY <1>0, <2>1
  <2>6. /\ bp'.depth = bp.depth + 1 /\ bp'.permits = bp.permits - 1
        /\ bp' \in BpRecord
    BY <1>0, <1>5, <2>5 DEF AcquirePermit, BpInv, BpRecord
  <2>7. bp'.permits + bp'.depth >= BpPermits
    BY <1>0, <2>6
  <2> QED
    BY <2>3, <2>4, <2>6, <2>7 DEF BpInv, NoPermitLost, BpHeld
<1>6. ASSUME NEW t \in BpTasks, PermitTimeout(t) PROVE BpInv'
  <2>1. bpTask[t].pc = "waiting" /\ BpGoto(t, "idle") /\ bp' = bp
    BY <1>6 DEF PermitTimeout
  <2>2. t \notin BpHeld
    BY <2>1 DEF BpHeld
  <2>3. BpHeld' = BpHeld /\ bpTask' \in [BpTasks -> BpRequest]
    BY <2>1, <2>2, HeldAfter, PcNames DEF BpInv
  <2> QED
    BY <1>2, <2>1, <2>3 DEF BpInv
<1>7. ASSUME NEW t \in BpTasks, release(t) PROVE BpInv'
  <2>1. bpTask[t].pc = "held" /\ BpGoto(t, "idle") /\ bp' = [bp EXCEPT !.depth = @ - 1, !.permits = @ + 2]
    BY <1>7 DEF release
  <2>2. t \in BpHeld
    BY <2>1 DEF BpHeld
  <2>3. BpHeld' = BpHeld \ {t} /\ bpTask' \in [BpTasks -> BpRequest]
    BY <2>1, HeldAfter, PcNames DEF BpInv
  <2>4. Cardinality(BpHeld') = bp.depth - 1
    BY <1>0, <1>1, <2>2, <2>3, FS_RemoveElement
  <2>5. Cardinality(BpHeld') \in Nat
    <3>1. IsFiniteSet(BpHeld')
      BY <1>1, <2>3, FS_RemoveElement
    <3> QED
      BY <3>1, FS_CardinalityType
  <2>6. bp.depth - 1 \in Nat /\ bp.permits + 2 \in Nat
    BY <1>0, <2>4, <2>5
  <2>7. /\ bp'.depth = bp.depth - 1 /\ bp'.permits = bp.permits + 2
        /\ bp' \in BpRecord
    BY <2>1, <2>6 DEF BpInv, BpRecord
  <2>8. bp'.permits + bp'.depth >= BpPermits
    BY <1>0, <2>7
  <2> QED
    BY <2>3, <2>4, <2>7, <2>8 DEF BpInv, NoPermitLost, BpHeld
<1>8. ASSUME bp' = bp, bpTask' = bpTask PROVE BpInv'
  BY <1>8 DEF BpInv, NoPermitLost
<1> QED
  BY <1>3, <1>4, <1>5, <1>6, <1>7, <1>8 DEF BpNext, bpVars, record_exchange_error, record_exchange_success

\* No permit of the rate semaphore leaks and the depth counts exactly the permits held,
\* for every set of requests, permits and limits (backpressure.rs try_acquire, release).
THEOREM NoPermitIsLost == BpSpec => []NoPermitLost
<1>1. BpInit => BpInv
  <2> SUFFICES ASSUME BpInit PROVE BpInv
    OBVIOUS
  <2>1. /\ bp = [depth |-> 0, permits |-> BpPermits, state |-> "Normal", pressure |-> FALSE]
        /\ bpTask \in [BpTasks -> BpRequest]
        /\ {t \in BpTasks : bpTask[t].pc = "held"} = {}
    BY BackpressureAssumption DEF BpInit, BpRequest, BpPcs
  <2>2. bp.depth = Cardinality({t \in BpTasks : bpTask[t].pc = "held"})
    BY <2>1, FS_EmptySet
  <2>3. bp.permits + bp.depth >= BpPermits
    BY <2>1, BackpressureAssumption
  <2>4. bp \in BpRecord
    BY <2>1, BackpressureAssumption DEF BpRecord
  <2> QED
    BY <2>1, <2>2, <2>3, <2>4 DEF BpInv, NoPermitLost
<1>2. BpInv => NoPermitLost
  BY DEF BpInv
<1> QED
  BY <1>1, <1>2, BpStep, PTL DEF BpSpec

-----------------------------------------------------------------------------
(* Graceful shutdown. *)

OrdersLeft == IF sdPhase = "cancelling" THEN sdTodo ELSE {}
PositionsLeft == IF sdPhase = "closing" THEN sdTodo ELSE {}
StillOpen == {o \in sdListed.orders \ OrdersLeft : sdOrder[o] = "open"}

\* What is listed is counted, and of what was handled only failures may still be open.
SdCountInv ==
    /\ OrdersLeft \subseteq sdListed.orders
    /\ sdResult.cancelled + sdResult.failed + Cardinality(OrdersLeft) = Cardinality(sdListed.orders)
    /\ Cardinality(StillOpen) <= sdResult.failed
    /\ \A o \in sdListed.orders : sdOrder[o] \notin {"none", "admitted"}

SdCloseInv ==
    /\ PositionsLeft \subseteq sdListed.positions
    /\ \A o \in sdListed.positions : sdOrder[o] \in {"position", "closed"}
    /\ sdResult.success => \A o \in sdListed.positions \ PositionsLeft : sdOrder[o] # "position"

SdCloseCount ==
    sdResult.closed + sdResult.notClosed + Cardinality(PositionsLeft) = Cardinality(sdListed.positions)

SdPhaseInv ==
    /\ sdPhase \notin {"cancelling", "closing"} => sdTodo = {}
    /\ sdPhase \in {"running", "initiated"} => sdListed.orders = {}
    /\ sdPhase \in {"running", "initiated", "cancelling"} => sdListed.positions = {}

SdInv == SdTypeOK /\ SdCountInv /\ SdCloseInv /\ SdCloseCount /\ SdPhaseInv

LEMMA SdFinite == \A S : S \subseteq SdOrders => IsFiniteSet(S) /\ Cardinality(S) \in Nat
BY ShutdownAssumption, FS_Subset, FS_CardinalityType

LEMMA SdNumbers ==
    ASSUME SdTypeOK
    PROVE  /\ sdResult.cancelled \in Nat /\ sdResult.failed \in Nat
           /\ sdListed.orders \subseteq SdOrders /\ sdListed.positions \subseteq SdOrders
           /\ StillOpen \subseteq SdOrders /\ OrdersLeft \subseteq SdOrders
           /\ IsFiniteSet(StillOpen) /\ Cardinality(StillOpen) \in Nat
           /\ IsFiniteSet(OrdersLeft) /\ Cardinality(OrdersLeft) \in Nat
           /\ IsFiniteSet(sdListed.orders) /\ Cardinality(sdListed.orders) \in Nat
<1>1. sdResult.cancelled \in Nat /\ sdResult.failed \in Nat
  BY DEF SdTypeOK
<1>2. sdListed.orders \subseteq SdOrders /\ sdListed.positions \subseteq SdOrders
  BY DEF SdTypeOK
<1>3. StillOpen \subseteq SdOrders /\ OrdersLeft \subseteq SdOrders
  BY <1>2 DEF SdTypeOK, StillOpen, OrdersLeft
<1> QED
  BY <1>1, <1>2, <1>3, SdFinite

\* An order that moves while nothing else does: a listed order never opens again.
LEMMA SdOrderMoves ==
    ASSUME SdInv, UNCHANGED <<sdPhase, sdTodo, sdListed, sdResult>>, NEW o \in SdOrders, NEW s \in SdOrderStates,
           sdOrder' = [sdOrder EXCEPT ![o] = s],
           \/ sdOrder[o] = "none" /\ s = "admitted"
           \/ sdOrder[o] = "admitted" /\ s = "open"
           \/ sdOrder[o] = "open" /\ s = "position"
    PROVE  SdInv'
<1>1. SdTypeOK'
  BY DEF SdInv, SdTypeOK
<1>2. sdOrder'[o] = s /\ \A k \in SdOrders : k # o => sdOrder'[k] = sdOrder[k]
  BY DEF SdInv, SdTypeOK
<1>3. sdListed.orders \subseteq SdOrders /\ sdListed.positions \subseteq SdOrders
  BY SdNumbers DEF SdInv
<1>4. OrdersLeft' = OrdersLeft /\ PositionsLeft' = PositionsLeft
  BY DEF OrdersLeft, PositionsLeft
<1>5. StillOpen' \in SUBSET StillOpen
  BY <1>2, <1>3, <1>4 DEF StillOpen, SdInv, SdCountInv
<1>6. Cardinality(StillOpen') <= Cardinality(StillOpen) /\ Cardinality(StillOpen') \in Nat
  BY <1>5, SdNumbers, FS_Subset, FS_CardinalityType DEF SdInv
<1>7. Cardinality(StillOpen') <= sdResult.failed
  BY <1>6, SdNumbers DEF SdInv, SdCountInv
<1>8. \A k \in sdListed.orders : sdOrder'[k] \notin {"none", "admitted"}
  BY <1>2, <1>3 DEF SdInv, SdCountInv
<1>9. \A k \in sdListed.positions : k # o
  BY DEF SdInv, SdCloseInv
<1>10. \A k \in sdListed.positions : sdOrder'[k] = sdOrder[k]
  BY <1>2, <1>3, <1>9
<1>11. SdCountInv'
  BY <1>4, <1>7, <1>8 DEF SdInv, SdCountInv
<1>12. SdCloseInv'
  BY <1>4, <1>10 DEF SdInv, SdCloseInv
<1>13. SdCloseCount'
  BY <1>4 DEF SdInv, SdCloseCount
<1> QED
  BY <1>1, <1>11, <1>12, <1>13 DEF SdInv, SdPhaseInv

\* One chunk of cancels.
LEMMA SdChunk == SdInv /\ CancelChunk => SdInv'
<1> SUFFICES ASSUME SdInv, CancelChunk PROVE SdInv'
  OBVIOUS
<1>1. PICK chunk \in SUBSET sdTodo, gone \in SUBSET SdOrders, ok \in SUBSET SdOrders :
         /\ ok \subseteq gone
         /\ gone \subseteq {o \in chunk : sdOrder[o] = "open"}
         /\ sdOrder' = [o \in SdOrders |-> IF o \in gone THEN "cancelled" ELSE sdOrder[o]]
         /\ sdResult' = [sdResult EXCEPT !.cancelled = @ + Cardinality(ok),
                                         !.failed = @ + Cardinality(chunk) - Cardinality(ok)]
         /\ sdTodo' = sdTodo \ chunk
  <2>1. sdTodo \subseteq SdOrders
    BY DEF SdInv, SdTypeOK
  <2> QED
    BY <2>1 DEF CancelChunk
<1>2. sdPhase = "cancelling" /\ UNCHANGED <<sdPhase, sdListed>>
  BY DEF CancelChunk
<1> DEFINE n == Cardinality(chunk)
           k == Cardinality(ok)
<1>3. sdTodo \in SUBSET SdOrders /\ chunk \in SUBSET SdOrders /\ ok \in SUBSET chunk
  BY <1>1 DEF SdInv, SdTypeOK
<1>4. /\ n \in Nat /\ k \in Nat /\ Cardinality(chunk \ ok) = n - k /\ IsFiniteSet(chunk \ ok)
      /\ Cardinality(chunk \ ok) \in Nat
      /\ Cardinality(sdTodo') = Cardinality(sdTodo) - n /\ Cardinality(sdTodo) \in Nat
  BY <1>1, <1>3, CountWithout, SdFinite
<1> HIDE DEF n, k
<1>5. sdResult.cancelled + k \in Nat /\ sdResult.failed + n - k \in Nat
  BY <1>4, SdNumbers DEF SdInv
<1>6. /\ sdResult'.cancelled = sdResult.cancelled + k /\ sdResult'.failed = sdResult.failed + n - k
      /\ sdResult'.success = sdResult.success
  BY <1>1 DEF n, k, SdInv, SdTypeOK
<1>7. SdTypeOK'
  <2>1. sdResult' = [sdResult EXCEPT !.cancelled = sdResult.cancelled + k, !.failed = sdResult.failed + n - k]
    BY <1>1 DEF n, k, SdInv, SdTypeOK
  <2>2. sdResult' \in [cancelled : Nat, failed : Nat, closed : Nat, notClosed : Nat, success : BOOLEAN,
                       savedOrders : SUBSET SdOrders, savedPositions : SUBSET SdOrders]
    BY <1>5, <2>1 DEF SdInv, SdTypeOK
  <2>3. sdOrder' \in [SdOrders -> SdOrderStates]
    BY <1>1 DEF SdInv, SdTypeOK, SdOrderStates
  <2> QED
    BY <1>1, <1>2, <2>2, <2>3 DEF SdInv, SdTypeOK
<1>8. OrdersLeft = sdTodo /\ OrdersLeft' = sdTodo \ chunk /\ PositionsLeft' = {} /\ PositionsLeft = {}
  BY <1>1, <1>2 DEF OrdersLeft, PositionsLeft
<1>9. StillOpen' \in SUBSET (StillOpen \cup (chunk \ ok))
  BY <1>1, <1>2, <1>3, <1>8, SdNumbers DEF StillOpen, SdInv
<1>10. Cardinality(StillOpen') <= Cardinality(StillOpen) + (n - k) /\ IsFiniteSet(StillOpen')
  BY <1>4, <1>9, SdNumbers, CountCovered DEF SdInv
<1>11. Cardinality(StillOpen') \in Nat
  BY <1>10, FS_CardinalityType
<1>12. Cardinality(StillOpen') <= sdResult'.failed
  <2>1. Cardinality(StillOpen) <= sdResult.failed
    BY DEF SdInv, SdCountInv
  <2> QED
    BY <1>4, <1>6, <1>10, <1>11, <2>1, SdNumbers DEF SdInv
<1>13. sdResult'.cancelled + sdResult'.failed + Cardinality(OrdersLeft') = Cardinality(sdListed.orders)
  <2>1. sdResult.cancelled + sdResult.failed + Cardinality(sdTodo) = Cardinality(sdListed.orders)
    BY <1>8 DEF SdInv, SdCountInv
  <2>2. Cardinality(OrdersLeft') = Cardinality(sdTodo) - n
    BY <1>1, <1>4, <1>8
  <2> QED
    BY <1>4, <1>6, <2>1, <2>2, SdNumbers DEF SdInv
<1>14. \A o \in sdListed.orders : sdOrder'[o] \notin {"none", "admitted"}
  BY <1>1, SdNumbers DEF SdInv, SdCountInv
<1>15. SdCountInv'
  BY <1>2, <1>8, <1>12, <1>13, <1>14 DEF SdInv, SdCountInv
<1>16. sdListed.positions = {}
  BY <1>2 DEF SdInv, SdPhaseInv
<1>17. SdCloseCount'
  <2>1. sdResult'.closed = sdResult.closed /\ sdResult'.notClosed = sdResult.notClosed
    BY <1>1 DEF SdInv, SdTypeOK
  <2> QED
    BY <1>2, <1>8, <2>1 DEF SdInv, SdCloseCount
<1> QED
  BY <1>2, <1>7, <1>8, <1>15, <1>16, <1>17 DEF SdInv, SdCloseInv, SdPhaseInv

\* The deadline of the cancel phase: what was not reached counts as failed.
LEMMA SdCancelDeadline == SdInv /\ CancelDeadline => SdInv'
<1> SUFFICES ASSUME SdInv, CancelDeadline PROVE SdInv'
  OBVIOUS
<1>1. sdPhase = "cancelling" /\ sdTodo' = {} /\ UNCHANGED <<sdOrder, sdPhase, sdListed>>
  BY DEF CancelDeadline
<1> DEFINE rest == sdResult.failed + Cardinality(sdListed.orders) - sdResult.cancelled - sdResult.failed
<1>2. OrdersLeft = sdTodo /\ OrdersLeft' = {} /\ PositionsLeft' = {} /\ PositionsLeft = {}
  BY <1>1 DEF OrdersLeft, PositionsLeft
<1>3. /\ sdResult.cancelled + sdResult.failed + Cardinality(sdTodo) = Cardinality(sdListed.orders)
      /\ Cardinality(StillOpen) <= sdResult.failed
  BY <1>2 DEF SdInv, SdCountInv
<1>4. Cardinality(sdTodo) \in Nat /\ IsFiniteSet(sdTodo)
  BY SdFinite DEF SdInv, SdTypeOK
<1>5. rest = sdResult.failed + Cardinality(sdTodo) /\ rest \in Nat
  BY <1>3, <1>4, SdNumbers DEF SdInv
<1>6. sdResult' = [sdResult EXCEPT !.failed = rest]
  BY DEF CancelDeadline, SdInv, SdTypeOK
<1> HIDE DEF rest
<1>7. sdResult'.failed = rest /\ sdResult'.cancelled = sdResult.cancelled /\ sdResult'.success = sdResult.success
  BY <1>6 DEF SdInv, SdTypeOK
<1>8. SdTypeOK'
  <2>1. sdResult' \in [cancelled : Nat, failed : Nat, closed : Nat, notClosed : Nat, success : BOOLEAN,
                       savedOrders : SUBSET SdOrders, savedPositions : SUBSET SdOrders]
    BY <1>5, <1>6 DEF SdInv, SdTypeOK
  <2> QED
    BY <1>1, <2>1 DEF SdInv, SdTypeOK
<1>9. StillOpen' \in SUBSET (StillOpen \cup sdTodo)
  BY <1>1, <1>2 DEF StillOpen
<1>10. Cardinality(StillOpen') <= Cardinality(StillOpen) + Cardinality(sdTodo) /\ IsFiniteSet(StillOpen')
  BY <1>4, <1>9, SdNumbers, CountCovered DEF SdInv
<1>11. Cardinality(StillOpen') \in Nat
  BY <1>10, FS_CardinalityType
<1>12. Cardinality(StillOpen') <= sdResult'.failed
  BY <1>3, <1>4, <1>5, <1>7, <1>10, <1>11, SdNumbers DEF SdInv
<1>13. sdResult'.cancelled + sdResult'.failed + 0 = Cardinality(sdListed.orders)
  BY <1>3, <1>4, <1>5, <1>7, SdNumbers DEF SdInv
<1>14. SdCountInv'
  <2>1. Cardinality(OrdersLeft') = 0
    BY <1>2, FS_EmptySet
  <2> QED
    BY <1>1, <1>2, <1>12, <1>13, <2>1 DEF SdInv, SdCountInv
<1>15. sdListed.positions = {}
  BY <1>1 DEF SdInv, SdPhaseInv
<1>16. SdCloseCount'
  <2>1. sdResult'.closed = sdResult.closed /\ sdResult'.notClosed = sdResult.notClosed
    BY <1>6 DEF SdInv, SdTypeOK
  <2> QED
    BY <1>1, <1>2, <2>1 DEF SdInv, SdCloseCount
<1> QED
  BY <1>1, <1>2, <1>8, <1>14, <1>15, <1>16 DEF SdInv, SdCloseInv, SdPhaseInv

\* What a step that neither lists, cancels nor moves an order keeps.
LEMMA SdCountKept ==
    ASSUME SdInv, UNCHANGED sdOrder, OrdersLeft' = OrdersLeft, sdListed'.orders = sdListed.orders,
           sdResult'.cancelled = sdResult.cancelled, sdResult'.failed = sdResult.failed
    PROVE  SdCountInv'
<1>1. StillOpen' = StillOpen
  BY DEF StillOpen
<1> QED
  BY <1>1 DEF SdInv, SdCountInv

\* A step from one phase to the next that finds nothing left to do.
LEMMA SdNextPhase ==
    ASSUME SdInv, UNCHANGED <<sdOrder, sdListed>>, sdTodo = {}, sdTodo' = {}, SdTypeOK',
           sdResult'.cancelled = sdResult.cancelled, sdResult'.failed = sdResult.failed,
           sdResult'.closed = sdResult.closed, sdResult'.notClosed = sdResult.notClosed,
           sdResult'.success => sdResult.success,
           sdPhase' \in SdPhases \ {"running"},
           sdPhase' = "initiated" => sdPhase = "running",
           sdPhase' = "cancelling" => sdPhase = "initiated"
    PROVE  SdInv'
<1>1. OrdersLeft = {} /\ OrdersLeft' = {} /\ PositionsLeft = {} /\ PositionsLeft' = {}
  BY DEF OrdersLeft, PositionsLeft
<1>2. SdCountInv'
  BY <1>1, SdCountKept
<1>3. SdCloseInv' /\ SdCloseCount'
  BY <1>1 DEF SdInv, SdCloseInv, SdCloseCount
<1>4. SdPhaseInv'
  BY DEF SdInv, SdPhaseInv
<1> QED
  BY <1>2, <1>3, <1>4 DEF SdInv

LEMMA SdBegins == SdInv /\ BeginCancelling => SdInv'
<1> SUFFICES ASSUME SdInv, BeginCancelling PROVE SdInv'
  OBVIOUS
<1>1. /\ sdPhase = "initiated" /\ sdPhase' = "cancelling" /\ sdTodo' = SdIn("open")
      /\ sdListed' = [sdListed EXCEPT !.orders = SdIn("open")] /\ UNCHANGED <<sdOrder, sdResult>>
  BY DEF BeginCancelling, SdEnter
<1>2. SdIn("open") \subseteq SdOrders
  BY DEF SdIn
<1>3. sdListed'.orders = SdIn("open") /\ sdListed'.positions = sdListed.positions
  BY <1>1 DEF SdInv, SdTypeOK
<1>4. SdTypeOK'
  BY <1>1, <1>2 DEF SdInv, SdTypeOK, SdPhases
<1>5. OrdersLeft = {} /\ OrdersLeft' = SdIn("open") /\ PositionsLeft' = {} /\ PositionsLeft = {} /\ sdListed.orders = {}
  BY <1>1 DEF OrdersLeft, PositionsLeft, SdInv, SdPhaseInv
<1>6. StillOpen' = {}
  BY <1>3, <1>5 DEF StillOpen
<1>7. sdResult.cancelled + sdResult.failed + 0 = 0
  BY <1>5, FS_EmptySet DEF SdInv, SdCountInv
<1>8. sdResult.cancelled = 0 /\ sdResult.failed = 0
  BY <1>7, SdNumbers DEF SdInv
<1>9. Cardinality(SdIn("open")) \in Nat
  BY <1>2, SdFinite
<1>10. /\ sdResult'.cancelled + sdResult'.failed + Cardinality(OrdersLeft') = Cardinality(sdListed'.orders)
       /\ Cardinality(StillOpen') <= sdResult'.failed
  <2>1. Cardinality(StillOpen') = 0
    BY <1>6, FS_EmptySet
  <2> QED
    BY <1>1, <1>3, <1>5, <1>8, <1>9, <2>1
<1>11. SdCountInv'
  <2>1. \A o \in sdListed'.orders : sdOrder'[o] \notin {"none", "admitted"}
    BY <1>1, <1>3 DEF SdIn
  <2> QED
    BY <1>3, <1>5, <1>10, <2>1 DEF SdCountInv
<1>12. sdListed.positions = {}
  BY <1>1 DEF SdInv, SdPhaseInv
<1>13. SdCloseCount'
  BY <1>1, <1>3, <1>5 DEF SdInv, SdCloseCount
<1> QED
  BY <1>1, <1>3, <1>4, <1>5, <1>11, <1>12, <1>13 DEF SdInv, SdCloseInv, SdPhaseInv

LEMMA SdCloseNumbers ==
    ASSUME SdTypeOK
    PROVE  sdResult.closed \in Nat /\ sdResult.notClosed \in Nat
BY DEF SdTypeOK

LEMMA SdBeginsClosing ==
    ASSUME SdInv, sdPhase \in {"initiated", "cancelling"}, sdTodo = {}, SdEnter("closing", SdIn("position")),
           sdListed' = [sdListed EXCEPT !.positions = SdIn("position")], UNCHANGED <<sdOrder, sdResult>>
    PROVE  SdInv'
<1>1. SdIn("position") \subseteq SdOrders
  BY DEF SdIn
<1>2. sdListed'.positions = SdIn("position") /\ sdListed'.orders = sdListed.orders
  BY DEF SdInv, SdTypeOK
<1>3. sdPhase' = "closing" /\ sdTodo' = SdIn("position")
  BY DEF SdEnter
<1>4. OrdersLeft' = OrdersLeft /\ PositionsLeft' = SdIn("position")
  BY <1>3 DEF OrdersLeft, PositionsLeft
<1>5. SdTypeOK'
  BY <1>1, <1>3 DEF SdInv, SdTypeOK, SdPhases
<1>6. SdCountInv'
  BY <1>2, <1>4, SdCountKept
<1>7. SdCloseInv'
  BY <1>2, <1>4 DEF SdCloseInv, SdIn
<1>8. SdCloseCount'
  <2>1. sdResult.closed + sdResult.notClosed + 0 = 0
    <3>1. sdListed.positions = {} /\ PositionsLeft = {}
      BY DEF SdInv, SdPhaseInv, PositionsLeft
    <3> QED
      BY <3>1, FS_EmptySet DEF SdInv, SdCloseCount
  <2>2. sdResult.closed = 0 /\ sdResult.notClosed = 0
    BY <2>1, SdCloseNumbers DEF SdInv
  <2>3. Cardinality(SdIn("position")) \in Nat
    BY <1>1, SdFinite
  <2>4. 0 + 0 + Cardinality(SdIn("position")) = Cardinality(SdIn("position"))
    BY <2>3
  <2> QED
    BY <1>2, <1>4, <2>2, <2>4 DEF SdCloseCount
<1> QED
  BY <1>3, <1>5, <1>6, <1>7, <1>8 DEF SdInv, SdPhaseInv

LEMMA SdCloses ==
    ASSUME SdInv, NEW o \in SdOrders, NEW ok \in BOOLEAN, ClosePosition(o, ok)
    PROVE  SdInv'
<1>1. /\ sdPhase = "closing" /\ o \in sdTodo /\ sdTodo' = sdTodo \ {o} /\ UNCHANGED <<sdPhase, sdListed>>
      /\ sdOrder' = [sdOrder EXCEPT ![o] = IF ok THEN "closed" ELSE @]
  BY DEF ClosePosition
<1>2. /\ sdOrder'[o] = (IF ok THEN "closed" ELSE sdOrder[o])
      /\ \A k \in SdOrders : k # o => sdOrder'[k] = sdOrder[k]
      /\ sdOrder' \in [SdOrders -> SdOrderStates]
  BY <1>1 DEF SdInv, SdTypeOK, SdOrderStates
<1>3. sdResult.closed + 1 \in Nat /\ sdResult.notClosed + 1 \in Nat
  BY DEF SdInv, SdTypeOK
<1>4. (sdResult.success /\ ok) \in BOOLEAN
  OBVIOUS
<1>5. /\ sdResult' \in [cancelled : Nat, failed : Nat, closed : Nat, notClosed : Nat, success : BOOLEAN,
                        savedOrders : SUBSET SdOrders, savedPositions : SUBSET SdOrders]
      /\ sdResult'.cancelled = sdResult.cancelled /\ sdResult'.failed = sdResult.failed
      /\ sdResult'.success = (sdResult.success /\ ok)
  BY <1>3, <1>4 DEF ClosePosition, SdInv, SdTypeOK
<1>6. SdTypeOK'
  BY <1>1, <1>2, <1>5 DEF SdInv, SdTypeOK
<1>7. /\ OrdersLeft' = {} /\ OrdersLeft = {} /\ PositionsLeft = sdTodo /\ PositionsLeft' = sdTodo \ {o}
  BY <1>1 DEF OrdersLeft, PositionsLeft
<1>8. sdTodo \subseteq sdListed.positions /\ sdListed.positions \subseteq SdOrders
  BY <1>7, SdNumbers DEF SdInv, SdCloseInv
<1>9. sdOrder[o] \in {"position", "closed"} /\ sdOrder'[o] \in {"position", "closed"}
  BY <1>1, <1>2, <1>8 DEF SdInv, SdCloseInv
<1>10. SdCountInv'
  <2>1. StillOpen' \subseteq StillOpen
    BY <1>1, <1>2, <1>7, <1>9, SdNumbers DEF StillOpen, SdInv
  <2>2. StillOpen \subseteq StillOpen'
    BY <1>1, <1>2, <1>7, <1>9, SdNumbers DEF StillOpen, SdInv
  <2>3. StillOpen' = StillOpen
    BY <2>1, <2>2
  <2>4. \A k \in sdListed.orders : sdOrder'[k] \notin {"none", "admitted"}
    BY <1>2, <1>9, SdNumbers DEF SdInv, SdCountInv
  <2> QED
    BY <1>1, <1>5, <1>7, <2>3, <2>4 DEF SdInv, SdCountInv
<1>11. sdResult'.success => sdResult.success /\ ok
  BY <1>5, Zenon
<1>12. ok => sdOrder'[o] = "closed"
  BY <1>2
<1>13. SdCloseInv'
  <2>1. \A k \in sdListed.positions : sdOrder'[k] \in {"position", "closed"}
    BY <1>2, <1>8, <1>9 DEF SdInv, SdCloseInv
  <2>2. ASSUME sdResult'.success, NEW k \in sdListed.positions \ (sdTodo \ {o}) PROVE sdOrder'[k] # "position"
    BY <1>2, <1>7, <1>8, <1>11, <1>12, <2>2 DEF SdInv, SdCloseInv
  <2> QED
    BY <1>1, <1>7, <1>8, <2>1, <2>2 DEF SdCloseInv
<1>14. SdCloseCount'
  <2>1. sdTodo \subseteq SdOrders
    BY DEF SdInv, SdTypeOK
  <2>2. Cardinality(sdTodo \ {o}) = Cardinality(sdTodo) - 1 /\ Cardinality(sdTodo) \in Nat
    BY <1>1, <2>1, SdFinite, FS_RemoveElement
  <2>3. sdResult'.closed + sdResult'.notClosed = sdResult.closed + sdResult.notClosed + 1
    <3>1. CASE ok
      <4>1. sdResult'.closed = sdResult.closed + 1 /\ sdResult'.notClosed = sdResult.notClosed
        BY <1>3, <3>1 DEF ClosePosition, SdInv, SdTypeOK
      <4> QED
        BY <4>1, SdCloseNumbers DEF SdInv
    <3>2. CASE ~ok
      <4>1. sdResult'.closed = sdResult.closed /\ sdResult'.notClosed = sdResult.notClosed + 1
        BY <1>3, <3>2 DEF ClosePosition, SdInv, SdTypeOK
      <4> QED
        BY <4>1, SdCloseNumbers DEF SdInv
    <3> QED
      BY <3>1, <3>2
  <2>4. sdResult.closed + sdResult.notClosed + Cardinality(sdTodo) = Cardinality(sdListed.positions)
    BY <1>7 DEF SdInv, SdCloseCount
  <2>5. sdResult.closed + sdResult.notClosed + 1 + (Cardinality(sdTodo) - 1) = Cardinality(sdListed.positions)
    BY <2>2, <2>4, SdCloseNumbers DEF SdInv
  <2> QED
    BY <1>1, <1>7, <2>2, <2>3, <2>5 DEF SdCloseCount
<1> QED
  BY <1>1, <1>6, <1>10, <1>13, <1>14 DEF SdInv, SdPhaseInv

LEMMA SdCloseDeadline == SdInv /\ CloseDeadline => SdInv'
<1> SUFFICES ASSUME SdInv, CloseDeadline PROVE SdInv'
  OBVIOUS
<1> DEFINE rest == sdResult.notClosed + Cardinality(sdListed.positions) - sdResult.closed - sdResult.notClosed
<1>1. sdPhase = "closing" /\ sdTodo' = {} /\ UNCHANGED <<sdOrder, sdPhase, sdListed>>
  BY DEF CloseDeadline
<1>2. OrdersLeft = {} /\ OrdersLeft' = {} /\ PositionsLeft = sdTodo /\ PositionsLeft' = {}
  BY <1>1 DEF OrdersLeft, PositionsLeft
<1>3. /\ sdResult.closed + sdResult.notClosed + Cardinality(sdTodo) = Cardinality(sdListed.positions)
      /\ Cardinality(sdTodo) \in Nat
  BY <1>2, SdFinite DEF SdInv, SdCloseCount, SdTypeOK
<1>4. rest \in Nat /\ sdResult.closed + rest + 0 = Cardinality(sdListed.positions)
  BY <1>3, SdCloseNumbers DEF SdInv
<1>5. sdResult' = [sdResult EXCEPT !.success = FALSE, !.notClosed = rest]
  BY DEF CloseDeadline, SdInv, SdTypeOK
<1> HIDE DEF rest
<1>6. /\ sdResult' \in [cancelled : Nat, failed : Nat, closed : Nat, notClosed : Nat, success : BOOLEAN,
                        savedOrders : SUBSET SdOrders, savedPositions : SUBSET SdOrders]
      /\ sdResult'.cancelled = sdResult.cancelled /\ sdResult'.failed = sdResult.failed
      /\ sdResult'.closed = sdResult.closed /\ sdResult'.notClosed = rest /\ ~sdResult'.success
  BY <1>4, <1>5 DEF SdInv, SdTypeOK
<1>7. SdTypeOK'
  BY <1>1, <1>6 DEF SdInv, SdTypeOK
<1>8. SdCountInv'
  BY <1>1, <1>2, <1>6, SdCountKept
<1>9. SdCloseInv'
  BY <1>1, <1>2, <1>6 DEF SdInv, SdCloseInv
<1>10. SdCloseCount'
  BY <1>1, <1>2, <1>4, <1>6, FS_EmptySet DEF SdCloseCount
<1> QED
  BY <1>1, <1>7, <1>8, <1>9, <1>10 DEF SdInv, SdPhaseInv

LEMMA SdStep == SdInv /\ [SdNext]_sdVars => SdInv'
<1> SUFFICES ASSUME SdInv, [SdNext]_sdVars PROVE SdInv'
  OBVIOUS
<1>1. ASSUME NEW o \in SdOrders, should_block_orders(o) \/ SdPlace(o) \/ SdFill(o) PROVE SdInv'
  <2>1. {"admitted", "open", "position"} \subseteq SdOrderStates
    BY DEF SdOrderStates
  <2> QED
    BY <1>1, <2>1, SdOrderMoves DEF should_block_orders, SdPlace, SdFill
<1>2. ASSUME UNCHANGED sdResult, UNCHANGED <<sdOrder, sdListed>>, sdTodo = {}, sdTodo' = {},
             sdPhase' \in SdPhases \ {"running", "cancelling"}, sdPhase' = "initiated" => sdPhase = "running"
      PROVE  SdInv'
  <2>1. SdTypeOK'
    BY <1>2 DEF SdInv, SdTypeOK
  <2> QED
    BY <1>2, <2>1, SdNextPhase
<1>3. CASE request_shutdown
  BY <1>2, <1>3 DEF request_shutdown, SdInv, SdPhaseInv, SdPhases
<1>4. ASSUME NEW next \in {"cancelling", "closing"}, GraceExpired(next), sdTodo = {},
             next = "cancelling" => sdPhase = "initiated"
      PROVE  SdInv'
  <2>1. sdPhase' = next /\ sdTodo' = {} /\ UNCHANGED <<sdOrder, sdListed>>
    BY <1>4 DEF GraceExpired
  <2>2. /\ sdResult' \in [cancelled : Nat, failed : Nat, closed : Nat, notClosed : Nat, success : BOOLEAN,
                          savedOrders : SUBSET SdOrders, savedPositions : SUBSET SdOrders]
        /\ sdResult'.cancelled = sdResult.cancelled /\ sdResult'.failed = sdResult.failed
        /\ sdResult'.closed = sdResult.closed /\ sdResult'.notClosed = sdResult.notClosed
        /\ ~sdResult'.success
    BY <1>4 DEF GraceExpired, SdInv, SdTypeOK
  <2>3. SdTypeOK'
    BY <2>1, <2>2 DEF SdInv, SdTypeOK, SdPhases
  <2> QED
    BY <1>4, <2>1, <2>2, <2>3, SdNextPhase DEF SdPhases
<1>5. CASE sdPhase = "initiated" /\ GraceExpired("cancelling")
  BY <1>4, <1>5 DEF SdInv, SdPhaseInv
<1>6. CASE BeginClosing
  BY <1>4, <1>6, SdBeginsClosing DEF BeginClosing
<1>7. CASE SavePositions \/ SaveOrders
  <2>1. /\ sdTodo = {} /\ sdTodo' = {} /\ UNCHANGED <<sdOrder, sdListed>>
        /\ sdPhase' \in {"saving", "finalizing"}
    BY <1>7 DEF SavePositions, SaveOrders, SdEnter, SdInv, SdPhaseInv
  <2>2. SdIn("position") \subseteq SdOrders /\ SdIn("open") \subseteq SdOrders
    BY DEF SdIn
  <2>3. /\ sdResult' \in [cancelled : Nat, failed : Nat, closed : Nat, notClosed : Nat, success : BOOLEAN,
                          savedOrders : SUBSET SdOrders, savedPositions : SUBSET SdOrders]
        /\ sdResult'.cancelled = sdResult.cancelled /\ sdResult'.failed = sdResult.failed
        /\ sdResult'.closed = sdResult.closed /\ sdResult'.notClosed = sdResult.notClosed
        /\ sdResult'.success = sdResult.success
    BY <1>7, <2>2 DEF SavePositions, SaveOrders, SdInv, SdTypeOK
  <2>4. SdTypeOK'
    BY <2>1, <2>3 DEF SdInv, SdTypeOK, SdPhases
  <2> QED
    BY <2>1, <2>3, <2>4, SdNextPhase DEF SdPhases
<1>8. CASE SdFinalize
  BY <1>2, <1>8 DEF SdFinalize, SdEnter, SdPhases
<1>9. CASE UNCHANGED sdVars
  BY <1>9 DEF sdVars, SdInv, SdTypeOK, SdCountInv, SdCloseInv, SdCloseCount, SdPhaseInv,
              OrdersLeft, PositionsLeft, StillOpen
<1> QED
  BY <1>1, <1>3, <1>5, <1>6, <1>7, <1>8, <1>9, SdBegins, SdChunk, SdCancelDeadline, SdCloses, SdCloseDeadline
  DEF SdNext

\* A completed shutdown accounts for every order it listed, and a successful one leaves no
\* position it listed, for every set of orders and batch size, through lost answers,
\* fills in between and deadlines (graceful_shutdown.rs cancel_all_orders,
\* close_all_positions, execute_shutdown).
THEOREM ShutdownAccounts == SdSpec => []ShutdownAccountsForListed
<1>1. SdInit => SdInv
  <2> SUFFICES ASSUME SdInit PROVE SdInv
    OBVIOUS
  <2>1. SdTypeOK
    BY DEF SdInit, SdTypeOK, SdOrderStates, SdPhases
  <2>2. /\ sdListed.orders = {} /\ sdListed.positions = {} /\ sdTodo = {} /\ sdPhase = "running"
        /\ sdResult.cancelled = 0 /\ sdResult.failed = 0 /\ sdResult.closed = 0 /\ sdResult.notClosed = 0
    BY DEF SdInit
  <2>3. OrdersLeft = {} /\ PositionsLeft = {} /\ StillOpen = {}
    BY <2>2 DEF OrdersLeft, PositionsLeft, StillOpen
  <2>4. Cardinality({}) = 0 /\ 0 + 0 + 0 = 0 /\ 0 <= 0
    BY FS_EmptySet
  <2> QED
    BY <2>1, <2>2, <2>3, <2>4 DEF SdInv, SdCountInv, SdCloseInv, SdCloseCount, SdPhaseInv
<1>2. SdInv => ShutdownAccountsForListed
  <2> SUFFICES ASSUME SdInv, sdPhase = "complete"
               PROVE  /\ Cardinality(sdListed.orders \cap SdIn("open")) <= sdResult.failed
                      /\ sdResult.cancelled + sdResult.failed = Cardinality(sdListed.orders)
                      /\ sdResult.success => sdListed.positions \cap SdIn("position") = {}
    BY DEF ShutdownAccountsForListed
  <2>1. OrdersLeft = {} /\ PositionsLeft = {}
    BY DEF OrdersLeft, PositionsLeft
  <2>2. sdListed.orders \cap SdIn("open") = StillOpen
    BY <2>1, SdNumbers DEF StillOpen, SdIn, SdInv
  <2>3. sdResult.cancelled + sdResult.failed + 0 = Cardinality(sdListed.orders)
    BY <2>1, FS_EmptySet DEF SdInv, SdCountInv
  <2>4. sdResult.cancelled + sdResult.failed = Cardinality(sdListed.orders)
    BY <2>3, SdNumbers DEF SdInv
  <2> QED
    BY <2>1, <2>2, <2>4 DEF SdInv, SdCountInv, SdCloseInv, SdIn
<1> QED
  BY <1>1, <1>2, SdStep, PTL DEF SdSpec

-----------------------------------------------------------------------------
(* Multi-leg orders. *)

MlStates == {"Pending", "EntryFilled", "PartiallyFilled", "Completed", "Cancelled"}

LegNames(type) ==
    IF type = "OCO" THEN {"legA", "legB"}
    ELSE IF type = "LinkedPair" THEN {"long", "short"} ELSE {"entry", "stopLoss", "takeProfit"}

\* The two exclusive legs, if the group has some.
Exits(type) ==
    IF type = "OCO" THEN {"legA", "legB"}
    ELSE IF type = "LinkedPair" THEN {} ELSE {"stopLoss", "takeProfit"}

\* A group that exists, and its legs.
MlBooks ==
    /\ mlGroup.type \in MlTypes /\ mlGroup.state \in MlStates
    /\ mlGroup \in [type : MlTypes, state : MlStates, status : [LegNames(mlGroup.type) -> LegStatuses],
                    filled : [LegNames(mlGroup.type) -> 0..LegQty]]
    /\ mlPlaced \subseteq LegNames(mlGroup.type)

\* What holds as long as no message crossed another.
MlInOrder ==
    /\ \A l \in LegNames(mlGroup.type) : mlGroup.status[l] = "Filled" => mlGroup.filled[l] = LegQty
    /\ ~is_terminal_group =>
          \A l \in Exits(mlGroup.type) : mlGroup.status[l] \notin {"Filled", "Cancelled"}
    /\ mlGroup.state = "Completed" =>
          /\ \A l \in Exits(mlGroup.type) :
                {mlGroup.status[l], mlGroup.status[OtherLeg[l]]} = {"Filled", "Cancelled"}
          /\ mlGroup.type = "LinkedPair" => \A l \in LegNames("LinkedPair") : mlGroup.status[l] = "Filled"
    /\ mlGroup.type = "Bracket" =>
          \/ mlGroup.status["entry"] = "Filled"
          \/ /\ \A l \in Exits("Bracket") : mlGroup.status[l] = "Waiting" /\ l \notin mlPlaced
             /\ mlGroup.state # "Completed"

MlInv ==
    /\ mlRaced \in BOOLEAN
    /\ mlGroup.type = "unset" => MlLegs = {} /\ mlPlaced = {} /\ mlGroup.state = "Pending" /\ ~mlRaced
    /\ mlGroup.type # "unset" => MlBooks /\ (~mlRaced => MlInOrder)

LEMMA LegsAreNamed ==
    ASSUME NEW type \in MlTypes
    PROVE  /\ DOMAIN LegsOf[type] = LegNames(type)
           /\ LegsOf[type] \in [LegNames(type) -> {"Waiting", "Pending"}]
           /\ type = "Bracket" => \A l \in Exits(type) : LegsOf[type][l] = "Waiting"
<1>1. CASE type = "OCO"
  BY <1>1 DEF LegsOf, LegNames
<1>2. CASE type = "Bracket"
  BY <1>2 DEF LegsOf, LegNames, Exits
<1>3. CASE type = "BracketNow"
  BY <1>3 DEF LegsOf, LegNames
<1>4. CASE type = "LinkedPair"
  BY <1>4 DEF LegsOf, LegNames
<1> QED
  BY <1>1, <1>2, <1>3, <1>4 DEF MlTypes

\* The exits of a group are each other's other leg, and the entry is none of them.
LEMMA ExitsArePaired ==
    ASSUME NEW type \in MlTypes
    PROVE  /\ Exits(type) \subseteq LegNames(type) /\ "entry" \notin Exits(type)
           /\ \A l \in Exits(type) :
                 /\ OtherLeg[l] \in Exits(type) /\ OtherLeg[l] # l /\ l \in DOMAIN OtherLeg
                 /\ OtherLeg[OtherLeg[l]] = l /\ Exits(type) = {l, OtherLeg[l]}
           /\ LegNames(type) \cap DOMAIN OtherLeg = Exits(type)
<1>0. DOMAIN OtherLeg = {"legA", "legB", "stopLoss", "takeProfit"}
  BY DEF OtherLeg
<1>1. CASE type = "OCO"
  BY <1>0, <1>1 DEF OtherLeg, LegNames, Exits
<1>2. CASE type = "LinkedPair"
  BY <1>0, <1>2 DEF OtherLeg, LegNames, Exits
<1>3. CASE type \in {"Bracket", "BracketNow"}
  BY <1>0, <1>3 DEF OtherLeg, LegNames, Exits
<1> QED
  BY <1>1, <1>2, <1>3 DEF MlTypes

LEMMA MlCreates == ASSUME MlInv, NEW type \in MlTypes, MlCreate(type) PROVE MlInv'
<1>1. /\ mlGroup.type = "unset" /\ UNCHANGED <<mlPlaced, mlRaced>>
      /\ mlGroup' = [type |-> type, state |-> "Pending", status |-> LegsOf[type],
                     filled |-> [l \in DOMAIN LegsOf[type] |-> 0]]
  BY DEF MlCreate
<1>2. mlPlaced = {} /\ type # "unset"
  BY <1>1 DEF MlInv, MlTypes
<1>3. 0 \in 0..LegQty
  BY LegAssumption
<1>4. MlBooks'
  <2>1. LegsOf[type] \in [LegNames(type) -> LegStatuses]
    BY LegsAreNamed DEF LegStatuses
  <2>2. [l \in DOMAIN LegsOf[type] |-> 0] \in [LegNames(type) -> 0..LegQty]
    BY <1>3, LegsAreNamed
  <2> QED
    BY <1>1, <1>2, <2>1, <2>2 DEF MlBooks, MlStates
<1>5. MlInOrder'
  <2>1. \A l \in LegNames(type) : LegsOf[type][l] \notin {"Filled", "Cancelled"}
    BY LegsAreNamed
  <2>2. mlGroup'.type = type /\ mlGroup'.state = "Pending" /\ mlGroup'.status = LegsOf[type]
    BY <1>1
  <2> QED
    BY <1>1, <1>2, <2>1, <2>2, LegsAreNamed, ExitsArePaired DEF MlInOrder
<1> QED
  BY <1>1, <1>2, <1>4, <1>5 DEF MlInv

LEMMA MlPlaces == ASSUME MlInv, NEW l \in MlLegs, MlPlace(l) PROVE MlInv'
<1>1. /\ mlGroup.status[l] = "Pending" /\ mlPlaced' = mlPlaced \cup {l} /\ UNCHANGED <<mlGroup, mlRaced>>
  BY DEF MlPlace
<1>2. mlGroup.type # "unset" /\ MlBooks
  BY DEF MlInv
<1>3. l \in LegNames(mlGroup.type)
  BY <1>2 DEF MlLegs, MlBooks
<1>4. MlBooks'
  BY <1>1, <1>2, <1>3 DEF MlBooks
<1>5. MlInOrder => MlInOrder'
  BY <1>1 DEF MlInOrder, is_terminal_group
<1> QED
  BY <1>1, <1>2, <1>4, <1>5 DEF MlInv

LEMMA MlLinks == ASSUME MlInv, NEW l \in MlLegs, link_exchange_order(l) PROVE MlInv'
<1>1. /\ l \in mlPlaced /\ mlGroup' = [mlGroup EXCEPT !.status[l] = "Submitted"] /\ UNCHANGED mlPlaced
      /\ mlRaced' = (mlRaced \/ mlGroup.status[l] # "Pending" \/ is_terminal_group)
  BY DEF link_exchange_order
<1>2. mlGroup.type # "unset" /\ MlBooks /\ mlGroup.type \in MlTypes
  BY DEF MlInv, MlBooks
<1>3. l \in LegNames(mlGroup.type)
  BY <1>2 DEF MlLegs, MlBooks
<1>4. /\ mlGroup'.type = mlGroup.type /\ mlGroup'.state = mlGroup.state /\ mlGroup'.filled = mlGroup.filled
      /\ mlGroup'.status = [mlGroup.status EXCEPT ![l] = "Submitted"]
      /\ mlGroup'.status \in [LegNames(mlGroup.type) -> LegStatuses]
  BY <1>1, <1>2, <1>3 DEF MlBooks, LegStatuses
<1>5. MlBooks'
  BY <1>1, <1>2, <1>4 DEF MlBooks
<1>6. /\ mlRaced' \in BOOLEAN
      /\ ~mlRaced' => ~mlRaced /\ mlGroup.status[l] = "Pending" /\ ~is_terminal_group
  BY <1>1, Zenon
<1>7. ASSUME ~mlRaced' PROVE MlInOrder'
  <2>1. MlInOrder /\ mlGroup.status[l] = "Pending" /\ ~is_terminal_group
    BY <1>2, <1>6, <1>7 DEF MlInv
  <2>2. /\ mlGroup'.status[l] = "Submitted"
        /\ \A k \in LegNames(mlGroup.type) : k # l => mlGroup'.status[k] = mlGroup.status[k]
    BY <1>2, <1>3, <1>4 DEF MlBooks
  <2>3. ~is_terminal_group'
    BY <1>4, <2>1 DEF is_terminal_group
  <2>4. "entry" \in LegNames("Bracket") /\ Exits("Bracket") \subseteq LegNames("Bracket")
    BY DEF LegNames, Exits
  <2> QED
    BY <1>1, <1>2, <1>3, <1>4, <2>1, <2>2, <2>3, <2>4, ExitsArePaired DEF MlInOrder, is_terminal_group
<1> QED
  BY <1>2, <1>4, <1>5, <1>6, <1>7 DEF MlInv

LEMMA MlCancels == ASSUME MlInv, cancel_group PROVE MlInv'
<1>1. mlGroup.type # "unset" /\ ~is_terminal_group /\ MlBooks /\ UNCHANGED <<mlPlaced, mlRaced>>
  BY DEF MlInv, cancel_group
<1> DEFINE after == [l \in MlLegs |-> IF mlGroup.status[l] \in {"Submitted", "PartiallyFilled"}
                                       THEN "Cancelled" ELSE mlGroup.status[l]]
<1>2. /\ mlGroup'.type = mlGroup.type /\ mlGroup'.state = "Cancelled" /\ mlGroup'.filled = mlGroup.filled
      /\ mlGroup'.status = after /\ mlGroup' = [mlGroup EXCEPT !.state = "Cancelled", !.status = after]
  BY <1>1 DEF cancel_group, MlBooks
<1>3. MlLegs = LegNames(mlGroup.type)
  BY <1>1 DEF MlLegs, MlBooks
<1>4. after \in [LegNames(mlGroup.type) -> LegStatuses]
  BY <1>1, <1>3 DEF MlBooks, LegStatuses
<1> HIDE DEF after
<1>5. MlBooks'
  BY <1>1, <1>2, <1>4 DEF MlBooks, MlStates
<1>6. \A l \in LegNames(mlGroup.type) : \/ after[l] = mlGroup.status[l]
                                        \/ after[l] = "Cancelled" /\ mlGroup.status[l] \in {"Submitted", "PartiallyFilled"}
  BY <1>3 DEF after
<1>7. ASSUME MlInOrder PROVE MlInOrder'
  <2>1. "entry" \in LegNames("Bracket") /\ Exits("Bracket") \subseteq LegNames("Bracket")
    BY DEF LegNames, Exits
  <2>2. is_terminal_group' /\ mlGroup'.state # "Completed"
    BY <1>2 DEF is_terminal_group
  <2> QED
    BY <1>1, <1>2, <1>6, <1>7, <2>1, <2>2 DEF MlInOrder
<1> QED
  BY <1>1, <1>2, <1>5, <1>7 DEF MlInv

LEMMA MlFills ==
    ASSUME MlInv, NEW l \in MlLegs, NEW lots \in 1..LegQty, process_leg_fill(l, lots)
    PROVE  MlInv'
<1> DEFINE f == mlGroup.filled[l] + lots
           own == [mlGroup.status EXCEPT ![l] = IF f >= LegQty THEN "Filled" ELSE "PartiallyFilled"]
           st == IF f >= LegQty THEN AfterLegFilled(own, l) ELSE own
           T == mlGroup.type
<1>1. /\ l \in mlPlaced /\ f <= LegQty /\ UNCHANGED mlPlaced
      /\ mlGroup' = [mlGroup EXCEPT !.status = st, !.filled[l] = f,
                        !.state = GroupStateAfter(mlGroup.type, mlGroup.state, st, l)]
      /\ mlRaced' = (mlRaced \/ l \notin mlLinked \/ mlGroup.status[l] = "Cancelled" \/ is_terminal_group)
  BY DEF process_leg_fill
<1>2. T # "unset" /\ MlBooks /\ T \in MlTypes
  BY DEF MlInv, MlBooks
<1>3. l \in LegNames(T) /\ DOMAIN mlGroup.status = LegNames(T)
  BY <1>2 DEF MlLegs, MlBooks
<1>4. f \in 0..LegQty /\ mlGroup.filled[l] < LegQty /\ (f >= LegQty => f = LegQty)
  <2>1. mlGroup.filled[l] \in 0..LegQty
    BY <1>2, <1>3 DEF MlBooks
  <2> QED
    BY <1>1, <2>1, LegAssumption
<1>5. /\ own \in [LegNames(T) -> LegStatuses] /\ \A k \in LegNames(T) : k # l => own[k] = mlGroup.status[k]
      /\ own[l] = IF f >= LegQty THEN "Filled" ELSE "PartiallyFilled"
  BY <1>2, <1>3 DEF MlBooks, LegStatuses
<1> HIDE DEF own
\* What the fill makes of the statuses, leg by leg.
<1>6. /\ st \in [LegNames(T) -> LegStatuses]
      /\ st[l] = IF f >= LegQty THEN "Filled" ELSE "PartiallyFilled"
      /\ \A k \in LegNames(T) : k # l =>
            \/ st[k] = mlGroup.status[k]
            \/ f >= LegQty /\ l = "entry" /\ mlGroup.status[k] = "Waiting" /\ st[k] = "Pending"
            \/ f >= LegQty /\ l \in Exits(T) /\ k = OtherLeg[l] /\ st[k] = "Cancelled"
      /\ f >= LegQty /\ l \in Exits(T) /\ mlGroup.status[OtherLeg[l]] \notin {"Cancelled", "Filled"} =>
            st[OtherLeg[l]] = "Cancelled"
  <2>1. CASE ~(f >= LegQty)
    BY <1>5, <2>1
  <2>2. CASE f >= LegQty /\ l = "entry"
    <3>1. st = [k \in LegNames(T) |-> IF own[k] = "Waiting" THEN "Pending" ELSE own[k]]
      BY <1>5, <2>2 DEF AfterLegFilled
    <3>2. l \notin Exits(T)
      BY <1>2, <2>2, ExitsArePaired
    <3> QED
      BY <1>3, <1>5, <2>2, <3>1, <3>2 DEF LegStatuses
  <2>3. CASE f >= LegQty /\ l # "entry" /\ l \in Exits(T)
    <3>1. OtherLeg[l] \in LegNames(T) /\ OtherLeg[l] # l /\ l \in DOMAIN OtherLeg
      BY <1>2, <2>3, ExitsArePaired
    <3>2. st = IF own[OtherLeg[l]] \in {"Cancelled", "Filled"} THEN own ELSE [own EXCEPT ![OtherLeg[l]] = "Cancelled"]
      BY <2>3, <3>1 DEF AfterLegFilled, CancelOther
    <3>3. own[OtherLeg[l]] = mlGroup.status[OtherLeg[l]]
      BY <1>5, <3>1
    <3> QED
      BY <1>3, <1>5, <2>3, <3>1, <3>2, <3>3 DEF LegStatuses
  <2>4. CASE f >= LegQty /\ l # "entry" /\ l \notin Exits(T)
    <3>1. l \notin DOMAIN OtherLeg
      BY <1>2, <1>3, <2>4, ExitsArePaired
    <3>2. st = own
      BY <2>4, <3>1 DEF AfterLegFilled
    <3> QED
      BY <1>5, <2>4, <3>2
  <2> QED
    BY <2>1, <2>2, <2>3, <2>4
<1> DEFINE gs == GroupStateAfter(mlGroup.type, mlGroup.state, st, l)
<1> HIDE DEF st
<1>7. DOMAIN st = LegNames(T)
  BY <1>6
\* What it makes of the group.
<1>8. /\ gs \in MlStates
      /\ T # "LinkedPair" /\ f >= LegQty => gs = IF l = "entry" THEN "EntryFilled" ELSE "Completed"
      /\ T # "LinkedPair" /\ ~(f >= LegQty) => gs = mlGroup.state
      /\ T = "LinkedPair" => (\A k \in LegNames(T) : st[k] = "Filled") \/ gs \in {"PartiallyFilled", mlGroup.state}
  <2>1. mlGroup.state \in MlStates
    BY <1>2 DEF MlBooks
  <2>2. CASE T # "LinkedPair"
    <3>1. gs = IF st[l] = "Filled" THEN (IF l = "entry" THEN "EntryFilled" ELSE "Completed") ELSE mlGroup.state
      BY <2>2 DEF GroupStateAfter
    <3> QED
      BY <1>6, <2>1, <2>2, <3>1 DEF MlStates
  <2>3. CASE T = "LinkedPair"
    <3>1. \/ gs = "Completed" /\ \A k \in LegNames(T) : st[k] = "Filled"
          \/ gs = "PartiallyFilled" \/ gs = mlGroup.state
      BY <1>7, <2>3 DEF GroupStateAfter
    <3> QED
      BY <2>1, <2>3, <3>1 DEF MlStates
  <2> QED
    BY <2>2, <2>3
<1>9. /\ mlGroup'.type = T /\ mlGroup'.state = gs /\ mlGroup'.status = st
      /\ mlGroup'.filled = [mlGroup.filled EXCEPT ![l] = f]
      /\ mlGroup' = [mlGroup EXCEPT !.status = st, !.filled = [mlGroup.filled EXCEPT ![l] = f], !.state = gs]
  BY <1>1, <1>2 DEF MlBooks
<1> HIDE DEF gs, f
<1>10. /\ [mlGroup.filled EXCEPT ![l] = f] \in [LegNames(T) -> 0..LegQty]
       /\ mlGroup'.filled[l] = f /\ \A k \in LegNames(T) : k # l => mlGroup'.filled[k] = mlGroup.filled[k]
  BY <1>2, <1>3, <1>4, <1>9 DEF MlBooks
<1>11. MlBooks'
  BY <1>1, <1>2, <1>6, <1>8, <1>9, <1>10 DEF MlBooks
<1>12. mlRaced' \in BOOLEAN /\ (~mlRaced' => ~mlRaced /\ ~is_terminal_group)
  BY <1>1, Zenon
<1>13. ASSUME ~mlRaced' PROVE MlInOrder'
  <2>1. MlInOrder /\ ~is_terminal_group
    BY <1>2, <1>12, <1>13 DEF MlInv
  <2>2. \A k \in LegNames(T) : st[k] = "Filled" => mlGroup'.filled[k] = LegQty
    BY <1>4, <1>6, <1>10, <2>1 DEF MlInOrder
  <2>3. \A k \in Exits(T) : k \in LegNames(T) /\ mlGroup.status[k] \notin {"Filled", "Cancelled"}
    BY <1>2, <2>1, ExitsArePaired DEF MlInOrder
  <2>4. ASSUME gs \notin {"Completed", "Cancelled"}, NEW k \in Exits(T) PROVE st[k] \notin {"Filled", "Cancelled"}
    <3>1. T # "LinkedPair"
      BY <2>4 DEF Exits
    <3>2. ~(f >= LegQty /\ l \in Exits(T))
      BY <1>2, <1>8, <2>4, <3>1, ExitsArePaired
    <3> QED
      BY <1>6, <2>3, <3>2
  <2>5. ASSUME gs = "Completed", NEW k \in Exits(T) PROVE {st[k], st[OtherLeg[k]]} = {"Filled", "Cancelled"}
    <3>1. T # "LinkedPair"
      BY <2>5 DEF Exits
    <3>2. f >= LegQty /\ l # "entry"
      BY <1>8, <2>1, <2>5, <3>1 DEF is_terminal_group
    <3>3. l \in Exits(T)
      BY <1>2, <1>3, <3>1, <3>2 DEF Exits, LegNames, MlTypes
    <3>4. OtherLeg[l] \in Exits(T) /\ (k = l \/ k = OtherLeg[l]) /\ OtherLeg[OtherLeg[l]] = l
      BY <1>2, <3>3, ExitsArePaired
    <3>5. st[l] = "Filled" /\ st[OtherLeg[l]] = "Cancelled"
      BY <1>6, <2>3, <3>2, <3>3, <3>4
    <3> QED
      BY <3>4, <3>5
  <2>6. ASSUME gs = "Completed", T = "LinkedPair" PROVE \A k \in LegNames(T) : st[k] = "Filled"
    BY <1>8, <2>1, <2>6 DEF is_terminal_group
  <2>7. ASSUME T = "Bracket"
        PROVE  \/ st["entry"] = "Filled"
               \/ /\ \A k \in Exits("Bracket") : st[k] = "Waiting" /\ k \notin mlPlaced
                  /\ gs # "Completed"
    <3>1. "entry" \in LegNames(T) /\ "entry" \notin Exits(T) /\ (l = "entry" \/ l \in Exits(T)) /\ T # "LinkedPair"
      BY <1>3, <2>7 DEF LegNames, Exits
    <3>2. CASE mlGroup.status["entry"] = "Filled"
      <4>1. mlGroup.filled["entry"] = LegQty
        BY <2>1, <3>1, <3>2 DEF MlInOrder
      <4>2. l # "entry"
        BY <1>4, <4>1, LegAssumption
      <4>3. \A k \in Exits(T) : OtherLeg[k] # "entry"
        BY <1>2, <3>1, ExitsArePaired
      <4> QED
        BY <1>6, <3>1, <3>2, <4>2, <4>3
    <3>3. CASE mlGroup.status["entry"] # "Filled"
      <4>1. \A k \in Exits(T) : mlGroup.status[k] = "Waiting" /\ k \notin mlPlaced
        BY <2>1, <2>7, <3>3 DEF MlInOrder
      <4>2. l = "entry"
        BY <1>1, <3>1, <4>1
      <4>3. CASE f >= LegQty
        BY <1>6, <4>2, <4>3
      <4>4. CASE ~(f >= LegQty)
        <5>1. gs # "Completed"
          BY <1>8, <2>1, <3>1, <4>4 DEF is_terminal_group
        <5>2. \A k \in Exits(T) : st[k] = mlGroup.status[k]
          BY <1>6, <2>3, <3>1, <4>2, <4>4
        <5> QED
          BY <2>7, <4>1, <5>1, <5>2
      <4> QED
        BY <4>3, <4>4
    <3> QED
      BY <3>2, <3>3
  <2> QED
    BY <1>1, <1>9, <2>2, <2>4, <2>5, <2>6, <2>7 DEF MlInOrder, is_terminal_group
<1> QED
  BY <1>2, <1>9, <1>11, <1>12, <1>13 DEF MlInv

LEMMA MlStep == MlInv /\ [MlNext]_mlVars => MlInv'
<1>1. MlInv /\ UNCHANGED mlVars => MlInv'
  BY DEF mlVars, MlInv, MlBooks, MlInOrder, is_terminal_group, MlLegs
<1> QED
  BY <1>1, MlCreates, MlPlaces, MlLinks, MlFills, MlCancels DEF MlNext

\* Unless messages crossed, a completed group has exactly one exit, a waiting bracket
\* leaves only after its whole entry and a linked pair is filled on both sides, for every
\* quantity and every order of partial fills (multi_leg.rs process_fill, cancel_group).
THEOREM GroupHasOneExit == MlSpec => []OneExit
<1>1. MlInit => MlInv
  <2> SUFFICES ASSUME MlInit PROVE MlInv
    OBVIOUS
  <2>1. mlGroup.type = "unset" /\ mlGroup.state = "Pending" /\ mlGroup.status = << >>
    BY DEF MlInit
  <2>2. MlLegs = {}
    BY <2>1 DEF MlLegs
  <2> QED
    BY <2>1, <2>2 DEF MlInit, MlInv
<1>2. MlInv => OneExit
  <2> SUFFICES ASSUME MlInv, mlGroup.state = "Completed", ~mlRaced
               PROVE  /\ \A l \in MlLegs \cap DOMAIN OtherLeg :
                            {mlGroup.status[l], mlGroup.status[OtherLeg[l]]} = {"Filled", "Cancelled"}
                      /\ mlGroup.type = "Bracket" => mlGroup.status["entry"] = "Filled"
                      /\ mlGroup.type = "LinkedPair" => \A l \in MlLegs : mlGroup.filled[l] = LegQty
    BY DEF OneExit
  <2>1. MlBooks /\ MlInOrder /\ mlGroup.type \in MlTypes
    BY DEF MlInv, MlBooks
  <2>2. MlLegs = LegNames(mlGroup.type)
    BY <2>1 DEF MlLegs, MlBooks
  <2>3. MlLegs \cap DOMAIN OtherLeg = Exits(mlGroup.type)
    BY <2>1, <2>2, ExitsArePaired
  <2> QED
    BY <2>1, <2>2, <2>3 DEF MlInOrder
<1> QED
  BY <1>1, <1>2, MlStep, PTL DEF MlSpec

-----------------------------------------------------------------------------
(* Bounded dead letter queue. *)

IdsIn(s) == {s[i].id : i \in 1..Len(s)}
OnceEach(s) == \A i, j \in 1..Len(s) : s[i].id = s[j].id => i = j
Letter == [id : DlqIds, status : DlqStatuses, retries : Nat]

DlqShape ==
    /\ dlq = [policy |-> dlq.policy, entries |-> dlq.entries, overflow |-> dlq.overflow, file |-> dlq.file]
    /\ dlqCrashes \in Nat

\* Every failed order is in one of the two lists, once.
DlqKept ==
    /\ dlq.entries \in Seq(Letter) /\ dlq.overflow \in Seq(Letter) /\ dlqBlocked = {}
    /\ OnceEach(dlq.entries) /\ OnceEach(dlq.overflow)
    /\ IdsIn(dlq.entries) \cap IdsIn(dlq.overflow) = {}
    /\ IdsIn(dlq.entries) \cup IdsIn(dlq.overflow) = dlqUsed

DlqInv ==
    /\ DlqShape
    /\ dlq.policy = "unset" => dlq.entries = << >> /\ dlq.overflow = << >> /\ dlqUsed = {} /\ dlqBlocked = {}
    /\ dlq.policy = "PersistAndEvict" /\ dlqCrashes = 0 => DlqKept

LEMMA LettersAppended ==
    ASSUME NEW s \in Seq(Letter), NEW e \in Letter
    PROVE  /\ Append(s, e) \in Seq(Letter)
           /\ IdsIn(Append(s, e)) = IdsIn(s) \cup {e.id}
           /\ OnceEach(s) /\ e.id \notin IdsIn(s) => OnceEach(Append(s, e))
<1>1. /\ Append(s, e) \in Seq(Letter) /\ Len(Append(s, e)) = Len(s) + 1 /\ Append(s, e)[Len(s) + 1] = e
      /\ \A i \in 1..Len(s) : Append(s, e)[i] = s[i]
  OBVIOUS
<1>2. Len(s) \in Nat /\ 1..(Len(s) + 1) = 1..Len(s) \cup {Len(s) + 1}
  OBVIOUS
<1>3. IdsIn(Append(s, e)) = IdsIn(s) \cup {e.id}
  BY <1>1, <1>2 DEF IdsIn
<1>4. ASSUME OnceEach(s), e.id \notin IdsIn(s) PROVE OnceEach(Append(s, e))
  BY <1>1, <1>2, <1>4 DEF OnceEach, IdsIn
<1> QED
  BY <1>1, <1>3, <1>4

LEMMA FirstTaken ==
    ASSUME NEW s \in Seq(Letter), s # << >>, OnceEach(s)
    PROVE  /\ Tail(s) \in Seq(Letter) /\ Head(s) \in Letter /\ OnceEach(Tail(s))
           /\ IdsIn(Tail(s)) = IdsIn(s) \ {Head(s).id} /\ Head(s).id \in IdsIn(s)
<1>1. /\ Tail(s) \in Seq(Letter) /\ Head(s) \in Letter /\ Len(s) \in Nat \ {0} /\ Head(s) = s[1]
      /\ Len(Tail(s)) = Len(s) - 1
  OBVIOUS
<1>2. \A i \in 1..(Len(s) - 1) : Tail(s)[i] = s[i + 1] /\ i + 1 \in 1..Len(s) /\ i + 1 # 1
  BY <1>1
<1>3. 1 \in 1..Len(s) /\ \A j \in 1..Len(s) : j # 1 => j - 1 \in 1..(Len(s) - 1) /\ (j - 1) + 1 = j
  BY <1>1
<1>4. OnceEach(Tail(s))
  BY <1>1, <1>2 DEF OnceEach
<1>5. IdsIn(Tail(s)) \subseteq IdsIn(s) \ {Head(s).id}
  BY <1>1, <1>2, <1>3 DEF OnceEach, IdsIn
<1>6. IdsIn(s) \ {Head(s).id} \subseteq IdsIn(Tail(s))
  <2> SUFFICES ASSUME NEW id \in IdsIn(s), id # Head(s).id PROVE id \in IdsIn(Tail(s))
    OBVIOUS
  <2>1. PICK j \in 1..Len(s) : s[j].id = id
    BY DEF IdsIn
  <2>2. j # 1
    BY <1>1, <2>1
  <2>3. j - 1 \in 1..(Len(s) - 1) /\ (j - 1) + 1 = j
    BY <1>3, <2>2
  <2>4. Tail(s)[j - 1].id = id
    BY <1>2, <2>1, <2>3
  <2> QED
    BY <1>1, <2>3, <2>4 DEF IdsIn
<1>7. Head(s).id \in IdsIn(s)
  BY <1>1, <1>3 DEF IdsIn
<1> QED
  BY <1>1, <1>4, <1>5, <1>6, <1>7

LEMMA LastTaken ==
    ASSUME NEW s \in Seq(Letter), s # << >>, OnceEach(s)
    PROVE  /\ Front(s) \in Seq(Letter) /\ Last(s) \in Letter /\ OnceEach(Front(s))
           /\ IdsIn(Front(s)) = IdsIn(s) \ {Last(s).id} /\ Last(s).id \in IdsIn(s)
<1>1. Len(s) \in Nat \ {0} /\ Last(s) = s[Len(s)] /\ Last(s) \in Letter
  BY DEF Last
<1>2. Len(s) - 1 \in Nat /\ Len(s) \in 1..Len(s)
  BY <1>1
<1>3. /\ Front(s) \in Seq(Letter) /\ Len(Front(s)) = Len(s) - 1
      /\ \A i \in 1..(Len(s) - 1) : Front(s)[i] = s[i] /\ i \in 1..Len(s) /\ i # Len(s)
  <2>1. /\ Front(s) \in Seq(Letter) /\ Len(Front(s)) = IF 1 <= Len(s) - 1 THEN (Len(s) - 1) - 1 + 1 ELSE 0
        /\ \A i \in 1..((Len(s) - 1) - 1 + 1) : Front(s)[i] = s[1 + i - 1]
    <3>1. 1 \in Int /\ Len(s) - 1 \in Int /\ \A i \in 1..(Len(s) - 1) : s[i] \in Letter
      BY <1>1
    <3> QED
      BY <3>1, SubSeqProperties DEF Front
  <2>2. Len(Front(s)) = Len(s) - 1
    <3>1. CASE Len(s) = 1
      BY <2>1, <3>1
    <3>2. CASE Len(s) # 1
      <4>1. 1 <= Len(s) - 1 /\ (Len(s) - 1) - 1 + 1 = Len(s) - 1
        <5>1. \A n \in Nat \ {0} : n # 1 => 1 <= n - 1 /\ (n - 1) - 1 + 1 = n - 1
          OBVIOUS
        <5>2. Len(s) \in Nat \ {0}
          BY <1>1
        <5> QED
          BY <3>2, <5>1, <5>2, Zenon
      <4> QED
        BY <2>1, <4>1
    <3> QED
      BY <3>1, <3>2
  <2>3. \A i \in 1..(Len(s) - 1) : 1 + i - 1 = i /\ i \in 1..((Len(s) - 1) - 1 + 1) /\ i \in 1..Len(s) /\ i # Len(s)
    BY <1>1
  <2> QED
    BY <2>1, <2>2, <2>3
<1>4. \A j \in 1..Len(s) : j # Len(s) => j \in 1..(Len(s) - 1)
  BY <1>1
<1>5. OnceEach(Front(s))
  BY <1>3 DEF OnceEach
<1>6. IdsIn(Front(s)) \subseteq IdsIn(s) \ {Last(s).id}
  BY <1>1, <1>2, <1>3 DEF OnceEach, IdsIn
<1>7. IdsIn(s) \ {Last(s).id} \subseteq IdsIn(Front(s))
  BY <1>1, <1>3, <1>4 DEF IdsIn
<1>8. Last(s).id \in IdsIn(s)
  BY <1>1, <1>2 DEF IdsIn
<1> QED
  BY <1>1, <1>3, <1>5, <1>6, <1>7, <1>8

LEMMA LetterMarked ==
    ASSUME NEW s \in Seq(Letter), NEW i \in 1..Len(s), NEW e \in Letter, e.id = s[i].id
    PROVE  LET t == [s EXCEPT ![i] = e]
           IN  t \in Seq(Letter) /\ IdsIn(t) = IdsIn(s) /\ (OnceEach(s) => OnceEach(t))
<1> DEFINE t == [s EXCEPT ![i] = e]
<1>1. t \in Seq(Letter) /\ Len(t) = Len(s) /\ \A j \in 1..Len(s) : t[j] = IF j = i THEN e ELSE s[j]
  OBVIOUS
<1> HIDE DEF t
<1>2. \A j \in 1..Len(s) : t[j].id = s[j].id
  BY <1>1
<1>3. IdsIn(t) = IdsIn(s) /\ (OnceEach(s) => OnceEach(t))
  BY <1>1, <1>2 DEF IdsIn, OnceEach
<1> QED
  BY <1>1, <1>3 DEF t

\* Under the policy that evicts to disk, in the first life of the process.
LEMMA DlqEnqueues ==
    ASSUME DlqKept, DlqShape, dlq.policy = "PersistAndEvict", NEW id \in DlqIds, id \notin dlqUsed,
           NEW e \in Letter, e.id = id, enqueue(e), dlqUsed' = dlqUsed \cup {id}
    PROVE  DlqKept'
<1>0. dlqBlocked' = dlqBlocked
  BY DEF enqueue
<1>1. id \notin IdsIn(dlq.entries) /\ id \notin IdsIn(dlq.overflow)
  BY DEF DlqKept
<1>2. CASE ~Full
  <2>1. dlq' = [dlq EXCEPT !.entries = Append(@, e)]
    BY <1>2 DEF enqueue
  <2>2. dlq'.entries = Append(dlq.entries, e) /\ dlq'.overflow = dlq.overflow
    BY <2>1 DEF DlqShape
  <2>3. /\ Append(dlq.entries, e) \in Seq(Letter) /\ OnceEach(Append(dlq.entries, e))
        /\ IdsIn(Append(dlq.entries, e)) = IdsIn(dlq.entries) \cup {id}
    BY <1>1, LettersAppended DEF DlqKept
  <2> QED
    BY <1>0, <1>1, <2>2, <2>3 DEF DlqKept
<1>3. CASE Full
  <2>1. dlq' = AfterEviction(e)
    BY <1>3 DEF enqueue
  <2> DEFINE h == Head(dlq.entries)
             t == Tail(dlq.entries)
  <2>2. dlq'.entries = Append(t, e) /\ dlq'.overflow = Append(dlq.overflow, h)
    BY <2>1 DEF AfterEviction, DlqShape
  <2>3. dlq.entries # << >>
    BY <1>3, DlqAssumption DEF Full, DlqKept
  <2>4. /\ t \in Seq(Letter) /\ h \in Letter /\ OnceEach(t)
        /\ IdsIn(t) = IdsIn(dlq.entries) \ {h.id} /\ h.id \in IdsIn(dlq.entries)
    BY <2>3, FirstTaken DEF DlqKept
  <2> HIDE DEF h, t
  <2>5. /\ Append(t, e) \in Seq(Letter) /\ OnceEach(Append(t, e)) /\ IdsIn(Append(t, e)) = IdsIn(t) \cup {id}
    BY <1>1, <2>4, LettersAppended
  <2>6. /\ Append(dlq.overflow, h) \in Seq(Letter) /\ OnceEach(Append(dlq.overflow, h))
        /\ IdsIn(Append(dlq.overflow, h)) = IdsIn(dlq.overflow) \cup {h.id}
    BY <2>4, LettersAppended DEF DlqKept
  <2> QED
    BY <1>0, <1>1, <2>2, <2>4, <2>5, <2>6 DEF DlqKept
<1> QED
  BY <1>2, <1>3

LEMMA DlqRecovers == ASSUME DlqKept, DlqShape, recover_from_overflow PROVE DlqKept'
<1> DEFINE h == Last(dlq.overflow)
           f == Front(dlq.overflow)
<1>1. /\ dlq.overflow # << >> /\ dlq' = [dlq EXCEPT !.entries = Append(@, h), !.overflow = Front(@)]
      /\ UNCHANGED <<dlqBlocked, dlqUsed>>
  BY DEF recover_from_overflow
<1>2. dlq'.entries = Append(dlq.entries, h) /\ dlq'.overflow = f
  BY <1>1 DEF DlqShape
<1>3. /\ f \in Seq(Letter) /\ h \in Letter /\ OnceEach(f)
      /\ IdsIn(f) = IdsIn(dlq.overflow) \ {h.id} /\ h.id \in IdsIn(dlq.overflow)
  BY <1>1, LastTaken DEF DlqKept
<1> HIDE DEF h, f
<1>4. /\ Append(dlq.entries, h) \in Seq(Letter) /\ OnceEach(Append(dlq.entries, h))
      /\ IdsIn(Append(dlq.entries, h)) = IdsIn(dlq.entries) \cup {h.id}
  BY <1>3, LettersAppended DEF DlqKept
<1> QED
  BY <1>1, <1>2, <1>3, <1>4 DEF DlqKept

LEMMA DlqMarks ==
    ASSUME DlqKept, DlqShape, NEW i \in 1..Len(dlq.entries), NEW status \in DlqStatuses, NEW retries \in Nat,
           Mark(i, status, retries)
    PROVE  DlqKept'
<1> DEFINE e == [dlq.entries[i] EXCEPT !.status = status, !.retries = retries]
<1>1. dlq.entries[i] \in Letter
  BY DEF DlqKept
<1>2. e \in Letter /\ e.id = dlq.entries[i].id
  BY <1>1 DEF Letter
<1>3. dlq' = [dlq EXCEPT !.entries = [dlq.entries EXCEPT ![i] = e]]
  BY <1>1 DEF Mark, DlqShape, DlqKept, Letter
<1> HIDE DEF e
<1>4. dlq'.entries = [dlq.entries EXCEPT ![i] = e] /\ dlq'.overflow = dlq.overflow
  BY <1>3 DEF DlqShape
<1>5. UNCHANGED <<dlqBlocked, dlqUsed>>
  BY DEF Mark
<1> DEFINE s == dlq.entries
           q == [s EXCEPT ![i] = e]
<1>6. s \in Seq(Letter) /\ OnceEach(s) /\ i \in 1..Len(s) /\ e.id = s[i].id
  BY <1>2 DEF DlqKept
<1> HIDE DEF s
<1>7. q \in Seq(Letter) /\ IdsIn(q) = IdsIn(s) /\ OnceEach(q)
  BY <1>2, <1>6, LetterMarked
<1> HIDE DEF q
<1>8. dlq'.entries = q
  BY <1>4 DEF q, s
<1>9. /\ IdsIn(dlq'.entries) = IdsIn(dlq.entries) /\ OnceEach(dlq'.entries) /\ dlq'.entries \in Seq(Letter)
  BY <1>7, <1>8 DEF s
<1> QED
  BY <1>4, <1>5, <1>9 DEF DlqKept

\* No step but the first changes the policy, and the record keeps its fields.
LEMMA DlqShapeStep ==
    ASSUME DlqShape, DlqNext
    PROVE  /\ DlqShape'
           /\ dlq.policy # "unset" => dlq'.policy = dlq.policy
           /\ dlqCrashes' # 0 \/ dlqCrashes' = dlqCrashes
<1>1. ASSUME NEW p \in DlqPolicies, DlqConfigure(p) PROVE DlqShape' /\ dlqCrashes' = dlqCrashes /\ dlq.policy = "unset"
  BY <1>1 DEF DlqConfigure, DlqShape
<1>2. ASSUME NEW e, enqueue(e), dlqCrashes' = dlqCrashes PROVE DlqShape' /\ dlq'.policy = dlq.policy
  BY <1>2 DEF enqueue, AfterEviction, DlqShape
<1>3. ASSUME NEW b, BlockedSeesRoom(b) \/ BlockedPush(b)
      PROVE  DlqShape' /\ dlq'.policy = dlq.policy /\ dlqCrashes' = dlqCrashes
  BY <1>3 DEF BlockedSeesRoom, BlockedPush, DlqShape
<1>4. ASSUME NEW i, NEW status, NEW retries, Mark(i, status, retries)
      PROVE  DlqShape' /\ dlq'.policy = dlq.policy /\ dlqCrashes' = dlqCrashes
  BY <1>4 DEF Mark, DlqShape
<1>5. ASSUME persist_overflow \/ recover_from_overflow
      PROVE  DlqShape' /\ dlq'.policy = dlq.policy /\ dlqCrashes' = dlqCrashes
  BY <1>5 DEF persist_overflow, recover_from_overflow, DlqShape
<1>6. CASE DlqRestart
  <2>1. dlqCrashes' \in Nat /\ dlqCrashes' # 0
    BY <1>6 DEF DlqRestart, DlqShape
  <2> QED
    BY <1>6, <2>1 DEF DlqRestart, DlqShape
<1> QED
  BY <1>1, <1>2, <1>3, <1>4, <1>5, <1>6
  DEF DlqNext, add_failed_order, mark_resolved, mark_retrying, mark_retry_failed

LEMMA DlqStep == DlqInv /\ [DlqNext]_dlqVars => DlqInv'
<1> SUFFICES ASSUME DlqInv, [DlqNext]_dlqVars PROVE DlqInv'
  OBVIOUS
<1>0. DlqShape
  BY DEF DlqInv
<1>1. CASE UNCHANGED dlqVars
  BY <1>1 DEF dlqVars, DlqInv, DlqShape, DlqKept
<1>2. CASE DlqNext /\ dlq.policy = "unset"
  <2>1. dlq.entries = << >> /\ dlq.overflow = << >> /\ dlqUsed = {} /\ dlqBlocked = {}
    BY <1>2 DEF DlqInv
  <2>2. PICK p \in DlqPolicies : DlqConfigure(p)
    <3>1. 1..Len(dlq.entries) = {}
      BY <2>1
    <3> QED
      BY <1>2, <2>1, <3>1 DEF DlqNext, add_failed_order, persist_overflow, recover_from_overflow, DlqRestart
  <2>3. /\ dlq'.entries = << >> /\ dlq'.overflow = << >> /\ dlqUsed' = {} /\ dlqBlocked' = {}
        /\ dlq'.policy = p /\ p # "unset"
    BY <1>0, <2>1, <2>2 DEF DlqConfigure, DlqShape, DlqPolicies
  <2>4. DlqKept'
    <3>1. 1..Len(<< >>) = {} /\ << >> \in Seq(Letter)
      OBVIOUS
    <3> QED
      BY <2>3, <3>1 DEF DlqKept, IdsIn, OnceEach
  <2> QED
    BY <1>0, <1>2, <2>3, <2>4, DlqShapeStep DEF DlqInv
<1>3. CASE DlqNext /\ dlq.policy # "unset"
  <2>1. DlqShape' /\ dlq'.policy = dlq.policy /\ (dlqCrashes' # 0 \/ dlqCrashes' = dlqCrashes)
    BY <1>0, <1>3, DlqShapeStep
  <2>2. ASSUME dlq.policy = "PersistAndEvict", dlqCrashes' = 0 PROVE DlqKept'
    <3>1. DlqKept /\ dlqCrashes = 0
      BY <2>1, <2>2 DEF DlqInv
    <3>2. ASSUME NEW id \in DlqIds, NEW r \in BOOLEAN, add_failed_order(id, r) PROVE DlqKept'
      <4> DEFINE e == [id |-> id, retries |-> 0, status |-> IF r THEN "Pending" ELSE "PermanentFailure"]
      <4>1. id \notin dlqUsed /\ dlqUsed' = dlqUsed \cup {id} /\ enqueue(e)
        BY <3>2 DEF add_failed_order
      <4>2. e \in Letter /\ e.id = id
        BY DEF Letter, DlqStatuses
      <4> HIDE DEF e
      <4> QED
        BY <1>0, <2>2, <3>1, <4>1, <4>2, DlqEnqueues
    <3>3. ASSUME NEW i \in 1..Len(dlq.entries), mark_resolved(i) \/ mark_retrying(i) \/ mark_retry_failed(i)
          PROVE  DlqKept'
      <4>0. dlq.entries[i] \in Letter
        BY <3>1 DEF DlqKept
      <4>1. dlq.entries[i].retries \in Nat
        BY <4>0 DEF Letter
      <4>2. dlq.entries[i].retries + 1 \in Nat
        BY <4>1
      <4>3. \E status \in DlqStatuses, retries \in Nat : Mark(i, status, retries)
        BY <3>3, <4>1, <4>2 DEF mark_resolved, mark_retrying, mark_retry_failed, DlqStatuses
      <4> QED
        BY <1>0, <3>1, <4>3, DlqMarks
    <3>4. CASE persist_overflow
      <4>1. dlq'.entries = dlq.entries /\ dlq'.overflow = dlq.overflow /\ UNCHANGED <<dlqBlocked, dlqUsed>>
        BY <1>0, <3>4 DEF persist_overflow, DlqShape
      <4> QED
        BY <3>1, <4>1 DEF DlqKept
    <3>5. CASE recover_from_overflow
      BY <1>0, <3>1, <3>5, DlqRecovers
    <3>6. ~DlqRestart
      BY <2>2, <3>1 DEF DlqRestart
    <3>7. \A b \in dlqBlocked : FALSE
      BY <3>1 DEF DlqKept
    <3>8. \A p \in DlqPolicies : ~DlqConfigure(p)
      BY <1>3 DEF DlqConfigure
    <3> QED
      BY <1>3, <3>2, <3>3, <3>4, <3>5, <3>6, <3>7, <3>8 DEF DlqNext
  <2> QED
    BY <1>3, <2>1, <2>2 DEF DlqInv
<1> QED
  BY <1>1, <1>2, <1>3

\* Evicting to disk loses no failed order while the process lives, for every bound of the
\* queue and any sequence of evictions, recoveries and retries (bounded_dlq.rs enqueue,
\* recover_from_overflow).
THEOREM EvictionKeepsAll == DlqSpec => []EvictionKeepsEntries
<1>1. DlqInit => DlqInv
  BY DEF DlqInit, DlqInv, DlqShape
<1>2. DlqInv => EvictionKeepsEntries
  <2> SUFFICES ASSUME DlqInv, dlq.policy = "PersistAndEvict", dlqCrashes = 0, NEW id \in dlqUsed
               PROVE  EntryOf(id, dlq.entries) # EntryOf(id, dlq.overflow)
    BY DEF EvictionKeepsEntries
  <2>1. /\ EntryOf(id, dlq.entries) <=> id \in IdsIn(dlq.entries)
        /\ EntryOf(id, dlq.overflow) <=> id \in IdsIn(dlq.overflow)
    BY DEF EntryOf, IdsIn
  <2>2. (id \in IdsIn(dlq.entries)) <=> (id \notin IdsIn(dlq.overflow))
    BY DEF DlqInv, DlqKept
  <2>3. EntryOf(id, dlq.entries) <=> ~EntryOf(id, dlq.overflow)
    BY <2>1, <2>2
  <2>4. EntryOf(id, dlq.entries) \in BOOLEAN /\ EntryOf(id, dlq.overflow) \in BOOLEAN
    BY DEF EntryOf
  <2> QED
    BY <2>3, <2>4
<1> QED
  BY <1>1, <1>2, DlqStep, PTL DEF DlqSpec

-----------------------------------------------------------------------------
(* Token bucket. *)

TbPcs == {"idle", "load", "update", "add", "consume", "stamp"}
TbThreadType == [pc : TbPcs, op : {"try", "acquire"}, cost : Nat, now : Nat, last : Nat]

BucketTypes ==
    /\ rlTime \in Nat /\ tb \in [tokens : Nat, last : Nat]
    /\ tbThread \in [RlThreads -> TbThreadType]
    /\ tbGiven \in [taken : Nat, reset : Nat, overlapped : BOOLEAN]

Given == tbGiven.taken + tb.tokens
Entitled == max_tokens + tbGiven.reset

\* One thread refills at a time; what it is about to add was not yet credited.
RefillInv ==
    /\ \A t, u \in RlThreads : tbThread[t].pc \in Refilling /\ tbThread[u].pc \in Refilling => t = u
    /\ Given <= Entitled + tb.last
    /\ \A t \in RlThreads :
          /\ tbThread[t].pc = "update" => tbThread[t].last = tb.last /\ tbThread[t].last < tbThread[t].now
          /\ tbThread[t].pc = "add" => /\ tb.last = tbThread[t].now /\ tbThread[t].last < tbThread[t].now
                                       /\ Given <= Entitled + tbThread[t].last

BucketInv ==
    /\ BucketTypes
    /\ tb.last <= rlTime /\ \A t \in RlThreads : tbThread[t].now <= rlTime
    /\ \A t \in RlThreads : tbThread[t].pc \in {"update", "add"} => tbThread[t].last < tbThread[t].now
    /\ ~tbGiven.overlapped => RefillInv

LEMMA BucketNumbers ==
    ASSUME BucketTypes
    PROVE  /\ tb.tokens \in Nat /\ tb.last \in Nat /\ tbGiven.taken \in Nat /\ tbGiven.reset \in Nat
           /\ tbGiven.overlapped \in BOOLEAN /\ max_tokens \in Nat /\ Given \in Nat /\ Entitled \in Nat
           /\ \A t \in RlThreads : /\ tbThread[t].cost \in Nat /\ tbThread[t].now \in Nat /\ tbThread[t].last \in Nat
                                   /\ tbThread[t] \in TbThreadType
<1>1. /\ tb.tokens \in Nat /\ tb.last \in Nat /\ tbGiven.taken \in Nat /\ tbGiven.reset \in Nat
      /\ tbGiven.overlapped \in BOOLEAN
  BY DEF BucketTypes
<1>2. max_tokens \in Nat
  BY LimiterAssumption DEF max_tokens
<1>3. Given \in Nat /\ Entitled \in Nat
  BY <1>1, <1>2 DEF Given, Entitled
<1>4. \A t \in RlThreads : tbThread[t] \in TbThreadType
  BY DEF BucketTypes
<1>5. \A t \in RlThreads : tbThread[t].cost \in Nat /\ tbThread[t].now \in Nat /\ tbThread[t].last \in Nat
  BY <1>4 DEF TbThreadType
<1> QED
  BY <1>1, <1>2, <1>3, <1>4, <1>5

LEMMA BucketNumbersNext == BucketTypes' => Given' \in Nat /\ Entitled' \in Nat
<1>1. BucketTypes => Given \in Nat /\ Entitled \in Nat
  BY BucketNumbers
<1>2. (BucketTypes => Given \in Nat /\ Entitled \in Nat)'
  BY <1>1, PTL
<1> QED
  BY <1>2

\* A step of one thread that keeps to the rules of refilling.
BucketMove(t, self) ==
    /\ tbThread' = [tbThread EXCEPT ![t] = self]
    /\ tb' \in [tokens : Nat, last : Nat] /\ tbGiven' \in [taken : Nat, reset : Nat, overlapped : BOOLEAN]
    /\ UNCHANGED rlTime /\ self.now <= rlTime /\ tb'.last <= rlTime
    /\ self.pc \in {"update", "add"} => self.last < self.now
    /\ ~tbGiven'.overlapped => ~tbGiven.overlapped
    /\ ~tbGiven'.overlapped =>
          /\ self.pc \in Refilling => tbThread[t].pc \in Refilling \/ ~TbOverlap(t)
          /\ Given' <= Entitled' + tb'.last
          /\ tbThread[t].pc \notin Refilling => tb'.last = tb.last
          /\ ~TbOverlap(t) \/ Given' - Entitled' <= Given - Entitled
          /\ self.pc = "update" => self.last = tb'.last /\ self.last < self.now
          /\ self.pc = "add" => tb'.last = self.now /\ self.last < self.now /\ Given' <= Entitled' + self.last

LEMMA BucketMoves ==
    ASSUME BucketInv, NEW t \in RlThreads, NEW self \in TbThreadType, BucketMove(t, self)
    PROVE  BucketInv'
<1>1. tbThread'[t] = self /\ \A u \in RlThreads : u # t => tbThread'[u] = tbThread[u]
  BY DEF BucketInv, BucketTypes, BucketMove
<1>2. BucketTypes'
  BY DEF BucketInv, BucketTypes, BucketMove
<1>3. \A u \in RlThreads : tbThread'[u].now <= rlTime
  BY <1>1 DEF BucketInv, BucketMove
<1>4. ASSUME ~tbGiven'.overlapped PROVE RefillInv'
  <2>0. RefillInv /\ ~tbGiven.overlapped
    BY <1>4 DEF BucketInv, BucketMove
  <2>1. ASSUME NEW u \in RlThreads, NEW v \in RlThreads, u # v,
               tbThread'[u].pc \in Refilling, tbThread'[v].pc \in Refilling
        PROVE  FALSE
    <3>1. CASE u # t /\ v # t
      BY <1>1, <2>0, <2>1, <3>1 DEF RefillInv
    <3>2. ASSUME NEW w \in RlThreads, w # t, tbThread'[w].pc \in Refilling, self.pc \in Refilling PROVE FALSE
      <4>1. tbThread[w].pc \in Refilling
        BY <1>1, <3>2
      <4>2. TbOverlap(t)
        BY <3>2, <4>1 DEF TbOverlap
      <4>3. tbThread[t].pc \in Refilling
        BY <1>4, <3>2, <4>2 DEF BucketMove
      <4> QED
        BY <2>0, <3>2, <4>1, <4>3 DEF RefillInv
    <3> QED
      BY <1>1, <2>1, <3>1, <3>2
  <2>2. ASSUME NEW u \in RlThreads, u # t, tbThread[u].pc \in {"update", "add"}
        PROVE  tbThread[t].pc \notin Refilling /\ tb'.last = tb.last
    BY <1>4, <2>0, <2>2 DEF RefillInv, Refilling, BucketMove
  <2>3. ASSUME NEW u \in RlThreads, u # t, tbThread[u].pc = "update"
        PROVE  tbThread[u].last = tb'.last /\ tbThread[u].last < tbThread[u].now
    BY <2>0, <2>2, <2>3 DEF RefillInv
  <2>4. ASSUME NEW u \in RlThreads, u # t, tbThread[u].pc = "add"
        PROVE  /\ tb'.last = tbThread[u].now /\ tbThread[u].last < tbThread[u].now
               /\ Given' <= Entitled' + tbThread[u].last
    <3>1. Given <= Entitled + tbThread[u].last /\ tb.last = tbThread[u].now /\ tbThread[u].last < tbThread[u].now
      BY <2>0, <2>4 DEF RefillInv
    <3>2. Given' - Entitled' <= Given - Entitled
      <4>1. TbOverlap(t)
        BY <2>4 DEF TbOverlap, Refilling
      <4> QED
        BY <1>4, <4>1 DEF BucketMove
    <3>3. Given \in Nat /\ Entitled \in Nat /\ tbThread[u].last \in Nat
      BY BucketNumbers DEF BucketInv
    <3>4. Given' \in Nat /\ Entitled' \in Nat
      BY <1>2, BucketNumbersNext
    <3>5. PICK g \in Nat, e \in Nat, n \in Nat : g = Given /\ e = Entitled /\ n = tbThread[u].last
      BY <3>3
    <3>6. PICK h \in Nat, d \in Nat : h = Given' /\ d = Entitled'
      BY <3>4
    <3>7. h - d <= g - e /\ g <= e + n
      BY <3>1, <3>2, <3>5, <3>6
    <3>8. h <= d + n
      BY <3>7
    <3>9. Given' <= Entitled' + tbThread[u].last
      BY <3>5, <3>6, <3>8
    <3> QED
      BY <2>2, <2>4, <3>1, <3>9
  <2>5. \A u \in RlThreads :
          /\ tbThread'[u].pc = "update" => tbThread'[u].last = tb'.last /\ tbThread'[u].last < tbThread'[u].now
          /\ tbThread'[u].pc = "add" => /\ tb'.last = tbThread'[u].now /\ tbThread'[u].last < tbThread'[u].now
                                        /\ Given' <= Entitled' + tbThread'[u].last
    BY <1>1, <1>4, <2>3, <2>4 DEF BucketMove
  <2> QED
    BY <1>4, <2>1, <2>5 DEF RefillInv, BucketMove
<1> QED
  BY <1>1, <1>2, <1>3, <1>4 DEF BucketInv, BucketMove

LEMMA SmallerOfTwo ==
    ASSUME NEW a \in Nat, NEW b \in Nat
    PROVE  Min({a, b}) \in Nat /\ Min({a, b}) <= a
<1>1. Min({a, b}) \in {a, b} /\ \A x \in {a, b} : Min({a, b}) <= x
  <2>1. \E m \in {a, b} : \A x \in {a, b} : m <= x
    OBVIOUS
  <2> QED
    BY <2>1 DEF Min
<1> QED
  BY <1>1

\* The steps in which no token and no stamp changes.
LEMMA BucketLoads ==
    ASSUME BucketInv, NEW t \in RlThreads,
           \/ \E op \in {"try", "acquire"}, cost \in 0..MaxCost : TbBegin(t, op, cost)
           \/ refill(t),
           UNCHANGED rlTime
    PROVE  \E self \in TbThreadType : BucketMove(t, self)
<1>0. /\ BucketTypes /\ tb.last <= rlTime /\ tbThread[t].now <= rlTime /\ rlTime \in Nat
      /\ tb \in [tokens : Nat, last : Nat] /\ tbGiven \in [taken : Nat, reset : Nat, overlapped : BOOLEAN]
  BY DEF BucketInv, BucketTypes
<1>1. /\ tbThread[t] \in TbThreadType /\ tb.last \in Nat /\ tbThread[t].now \in Nat
      /\ Given \in Nat /\ Entitled \in Nat
  BY <1>0, BucketNumbers
<1>2. ~tbGiven.overlapped => Given <= Entitled + tb.last
  BY DEF BucketInv, RefillInv
<1>3. ASSUME NEW op \in {"try", "acquire"}, NEW cost \in 0..MaxCost, TbBegin(t, op, cost)
      PROVE  \E self \in TbThreadType : BucketMove(t, self)
  <2> DEFINE self == [TbIdle EXCEPT !.pc = "load", !.op = op, !.cost = cost * TokenScale, !.now = rlTime]
  <2>1. cost * TokenScale \in Nat
    BY LimiterAssumption
  <2>2. self \in TbThreadType /\ self.pc = "load" /\ self.now = rlTime
    BY <1>0, <2>1 DEF TbIdle, TbThreadType, TbPcs
  <2>3. tbThread' = [tbThread EXCEPT ![t] = self] /\ tb' = tb
    BY <1>3 DEF TbBegin
  <2> HIDE DEF self
  <2>4. /\ tbGiven' \in [taken : Nat, reset : Nat, overlapped : BOOLEAN]
        /\ tbGiven'.taken = tbGiven.taken /\ tbGiven'.reset = tbGiven.reset
        /\ tbGiven'.overlapped = (tbGiven.overlapped \/ TbOverlap(t))
    BY <1>0, <1>3 DEF TbBegin, TbOverlap
  <2>5. ~tbGiven'.overlapped => ~tbGiven.overlapped /\ ~TbOverlap(t)
    BY <2>4, Zenon
  <2>6. Given' = Given /\ Entitled' = Entitled
    BY <2>3, <2>4 DEF Given, Entitled, max_tokens
  <2>7. BucketMove(t, self)
    BY <1>0, <1>1, <1>2, <2>2, <2>3, <2>4, <2>5, <2>6 DEF BucketMove
  <2> QED
    BY <2>2, <2>7
<1>4. ASSUME refill(t) PROVE \E self \in TbThreadType : BucketMove(t, self)
  <2> DEFINE self == [tbThread[t] EXCEPT !.last = tb.last,
                                         !.pc = IF tbThread[t].now <= tb.last THEN "consume" ELSE "update"]
  <2>1. self \in TbThreadType /\ self.now = tbThread[t].now /\ self.last = tb.last
    BY <1>1 DEF TbThreadType, TbPcs
  <2>2. self.pc = "consume" \/ (self.pc = "update" /\ tb.last < tbThread[t].now)
    BY <1>1 DEF TbThreadType, TbPcs
  <2>3. tbThread' = [tbThread EXCEPT ![t] = self] /\ tb' = tb /\ tbGiven' = tbGiven /\ tbThread[t].pc = "load"
    BY <1>1, <1>4 DEF refill, TbThreadType
  <2> HIDE DEF self
  <2>4. Given' = Given /\ Entitled' = Entitled
    BY <2>3 DEF Given, Entitled, max_tokens
  <2>5. "load" \in Refilling /\ self.pc # "add" /\ (self.pc = "update" => self.last < self.now)
    BY <2>1, <2>2 DEF Refilling
  <2>6. Given' - Entitled' <= Given - Entitled
    BY <1>1, <2>4
  <2>7. BucketMove(t, self)
    BY <1>0, <1>2, <2>1, <2>3, <2>4, <2>5, <2>6 DEF BucketMove
  <2> QED
    BY <2>1, <2>7
<1> QED
  BY <1>3, <1>4

LEMMA BucketRefills ==
    ASSUME BucketInv, NEW t \in RlThreads, UpdateLastRefill(t) \/ AddTokens(t), UNCHANGED rlTime
    PROVE  \E self \in TbThreadType : BucketMove(t, self)
<1>0. /\ BucketTypes /\ tb.last <= rlTime /\ tbThread[t].now <= rlTime /\ rlTime \in Nat
      /\ tb \in [tokens : Nat, last : Nat] /\ tbGiven \in [taken : Nat, reset : Nat, overlapped : BOOLEAN]
  BY DEF BucketInv, BucketTypes
<1>1. /\ tbThread[t] \in TbThreadType /\ tb.last \in Nat /\ tb.tokens \in Nat /\ tbThread[t].now \in Nat
      /\ tbThread[t].last \in Nat /\ Given \in Nat /\ Entitled \in Nat /\ tbGiven.taken \in Nat /\ max_tokens \in Nat
  BY <1>0, BucketNumbers
<1>2. tbGiven' = tbGiven
  BY DEF UpdateLastRefill, AddTokens
<1>3. ASSUME UpdateLastRefill(t) PROVE \E self \in TbThreadType : BucketMove(t, self)
  <2> DEFINE self == [tbThread[t] EXCEPT !.pc = "add"]
  <2>1. /\ self \in TbThreadType /\ self.now = tbThread[t].now /\ self.last = tbThread[t].last /\ self.pc = "add"
        /\ tbThread[t].pc = "update"
    BY <1>1, <1>3 DEF TbThreadType, TbPcs, UpdateLastRefill
  <2>2. tbThread' = [tbThread EXCEPT ![t] = self] /\ tb' = [tb EXCEPT !.last = IF @ = tbThread[t].last THEN tbThread[t].now ELSE @]
    BY <1>3 DEF UpdateLastRefill, TbGoto
  <2> HIDE DEF self
  <2>3. /\ tb' \in [tokens : Nat, last : Nat] /\ tb'.tokens = tb.tokens
        /\ tb'.last = IF tb.last = tbThread[t].last THEN tbThread[t].now ELSE tb.last
    BY <1>0, <1>1, <2>2
  <2>4. Given' = Given /\ Entitled' = Entitled
    BY <1>2, <2>3 DEF Given, Entitled, max_tokens
  <2>5. /\ self.last < self.now
        /\ ~tbGiven.overlapped =>
              tbThread[t].last = tb.last /\ tbThread[t].last < tbThread[t].now /\ Given <= Entitled + tb.last
    BY <2>1 DEF BucketInv, RefillInv
  <2>6. tb'.last <= rlTime
    BY <1>0, <2>3
  <2>7. ASSUME ~tbGiven.overlapped
        PROVE  /\ Given' <= Entitled' + tb'.last /\ Given' - Entitled' <= Given - Entitled
               /\ tb'.last = self.now /\ self.last < self.now /\ Given' <= Entitled' + self.last
    <3>1. tb'.last = self.now /\ self.last < self.now /\ self.last = tb.last /\ self.now \in Nat
      BY <1>1, <2>1, <2>3, <2>5, <2>7
    <3>2. Given <= Entitled + tb.last
      BY <2>5, <2>7
    <3>3. PICK g \in Nat, e \in Nat, a \in Nat, b \in Nat : g = Given /\ e = Entitled /\ a = tb.last /\ b = self.now
      BY <1>1, <3>1
    <3>4. g <= e + b /\ g - e <= g - e
      BY <3>1, <3>2, <3>3
    <3> QED
      BY <2>4, <3>1, <3>2, <3>3, <3>4
  <2>8. tbThread[t].pc \in Refilling
    BY <2>1 DEF Refilling
  <2>9. BucketMove(t, self)
    BY <1>0, <1>2, <2>1, <2>2, <2>3, <2>5, <2>6, <2>7, <2>8 DEF BucketMove
  <2> QED
    BY <2>1, <2>9
<1>4. ASSUME AddTokens(t) PROVE \E self \in TbThreadType : BucketMove(t, self)
  <2> DEFINE self == [tbThread[t] EXCEPT !.pc = "consume"]
             credit == tbThread[t].now - tbThread[t].last
  <2>1. /\ self \in TbThreadType /\ self.now = tbThread[t].now /\ self.pc = "consume" /\ tbThread[t].pc = "add"
    BY <1>1, <1>4 DEF TbThreadType, TbPcs, AddTokens
  <2>2. tbThread' = [tbThread EXCEPT ![t] = self] /\ tb' = [tb EXCEPT !.tokens = Min({@ + credit, max_tokens})]
    BY <1>4 DEF AddTokens, TbGoto
  <2> HIDE DEF self
  <2>3. credit \in Nat
    <3>1. tbThread[t].last < tbThread[t].now
      BY <2>1 DEF BucketInv
    <3> QED
      BY <1>1, <3>1
  <2>4. tb.tokens + credit \in Nat
    BY <1>1, <2>3
  <2>5. Min({tb.tokens + credit, max_tokens}) \in Nat /\ Min({tb.tokens + credit, max_tokens}) <= tb.tokens + credit
    BY <1>1, <2>4, SmallerOfTwo
  <2>6. /\ tb' \in [tokens : Nat, last : Nat] /\ tb'.last = tb.last
        /\ tb'.tokens \in Nat /\ tb'.tokens <= tb.tokens + credit
    BY <1>0, <2>2, <2>5
  <2>7. Entitled' = Entitled /\ Given' = tbGiven.taken + tb'.tokens
    BY <1>2 DEF Given, Entitled, max_tokens
  <2>8. ASSUME ~tbGiven.overlapped PROVE ~TbOverlap(t) /\ Given' <= Entitled' + tb'.last
    <3>1. /\ tb.last = tbThread[t].now /\ Given <= Entitled + tbThread[t].last
      BY <2>1, <2>8 DEF BucketInv, RefillInv
    <3>2. ~TbOverlap(t)
      BY <2>1, <2>8 DEF BucketInv, RefillInv, TbOverlap, Refilling
    <3>3. PICK g \in Nat, x \in Nat, y \in Nat, e \in Nat, n \in Nat, m \in Nat :
             /\ g = tbGiven.taken /\ x = tb.tokens /\ y = tb'.tokens /\ e = Entitled
             /\ n = tbThread[t].now /\ m = tbThread[t].last
      BY <1>1, <2>6
    <3>4. g + x <= e + m /\ y <= x + (n - m)
      BY <2>6, <3>1, <3>3 DEF Given
    <3>5. g + y <= e + n
      BY <3>4
    <3> QED
      BY <2>6, <2>7, <3>1, <3>2, <3>3, <3>5
  <2>9. tbThread[t].pc \in Refilling
    BY <2>1 DEF Refilling
  <2>10. BucketMove(t, self)
    BY <1>0, <1>2, <2>1, <2>2, <2>6, <2>8, <2>9 DEF BucketMove
  <2> QED
    BY <2>1, <2>10
<1> QED
  BY <1>3, <1>4

LEMMA BucketConsumes ==
    ASSUME BucketInv, NEW t \in RlThreads, Consume(t), UNCHANGED rlTime
    PROVE  \E self \in TbThreadType : BucketMove(t, self)
<1>0. /\ BucketTypes /\ tb.last <= rlTime /\ tbThread[t].now <= rlTime /\ rlTime \in Nat
      /\ tb \in [tokens : Nat, last : Nat] /\ tbGiven \in [taken : Nat, reset : Nat, overlapped : BOOLEAN]
  BY DEF BucketInv, BucketTypes
<1>1. /\ tbThread[t] \in TbThreadType /\ tb.last \in Nat /\ tb.tokens \in Nat /\ tbThread[t].cost \in Nat
      /\ Given \in Nat /\ Entitled \in Nat /\ tbGiven.taken \in Nat
  BY <1>0, BucketNumbers
<1>2. ~tbGiven.overlapped => Given <= Entitled + tb.last
  BY DEF BucketInv, RefillInv
<1> DEFINE cost == tbThread[t].cost
           again == [tbThread[t] EXCEPT !.pc = "load", !.now = rlTime, !.last = 0]
<1>3. /\ TbIdle \in TbThreadType /\ TbIdle.pc = "idle" /\ TbIdle.now = 0
      /\ again \in TbThreadType /\ again.pc = "load" /\ again.now = rlTime
  BY <1>0, <1>1 DEF TbIdle, TbThreadType, TbPcs
<1>4. CASE tb.tokens >= cost
  <2>1. tb.tokens - cost \in Nat /\ tbGiven.taken + cost \in Nat
    BY <1>1, <1>4
  <2>2. /\ tb' = [tb EXCEPT !.tokens = tb.tokens - cost] /\ tbThread' = [tbThread EXCEPT ![t] = TbIdle]
        /\ tbGiven'.taken = tbGiven.taken + cost /\ tbGiven'.reset = tbGiven.reset
        /\ tbGiven' \in [taken : Nat, reset : Nat, overlapped : BOOLEAN]
        /\ tbGiven'.overlapped = (tbGiven.overlapped \/ (~(tb.tokens >= cost) /\ tbThread[t].op = "acquire" /\ TbOverlap(t)))
    BY <1>0, <1>4, <2>1 DEF Consume, TbOverlap
  <2>3. tb' \in [tokens : Nat, last : Nat] /\ tb'.last = tb.last /\ tb'.tokens = tb.tokens - cost
    BY <1>0, <2>1, <2>2
  <2>4. ~tbGiven'.overlapped => ~tbGiven.overlapped
    BY <2>2, Zenon
  <2>5. Given' = Given
    <3>1. Given' = (tbGiven.taken + cost) + (tb.tokens - cost)
      BY <2>2, <2>3 DEF Given
    <3> QED
      BY <1>1, <3>1 DEF Given
  <2>6. Entitled' = Entitled /\ Given' - Entitled' <= Given - Entitled
    <3>1. Entitled' = Entitled
      BY <2>2 DEF Entitled, max_tokens
    <3> QED
      BY <1>1, <2>5, <3>1
  <2>7. "idle" \notin Refilling /\ TbIdle.now <= rlTime
    BY <1>0, <1>3 DEF Refilling
  <2>8. BucketMove(t, TbIdle)
    BY <1>0, <1>2, <1>3, <2>2, <2>3, <2>4, <2>5, <2>6, <2>7 DEF BucketMove
  <2> QED
    BY <1>3, <2>8
<1>5. CASE ~(tb.tokens >= cost)
  <2>1. /\ tb' = tb /\ tbGiven'.taken = tbGiven.taken /\ tbGiven'.reset = tbGiven.reset
        /\ tbGiven' \in [taken : Nat, reset : Nat, overlapped : BOOLEAN]
        /\ tbGiven'.overlapped = (tbGiven.overlapped \/ (~(tb.tokens >= cost) /\ tbThread[t].op = "acquire" /\ TbOverlap(t)))
        /\ tbThread' = [tbThread EXCEPT ![t] = IF tbThread[t].op = "try" THEN TbIdle ELSE again]
    BY <1>0, <1>5 DEF Consume, TbOverlap
  <2>2. ~tbGiven'.overlapped => ~tbGiven.overlapped /\ ~(tbThread[t].op = "acquire" /\ TbOverlap(t))
    BY <1>5, <2>1, Zenon
  <2>3. Given' = Given /\ Entitled' = Entitled
    BY <2>1 DEF Given, Entitled, max_tokens
  <2>4. Given' - Entitled' <= Given - Entitled
    BY <1>1, <2>3
  <2>5. tbThread[t].op \in {"try", "acquire"}
    BY <1>1 DEF TbThreadType
  <2>6. "idle" \notin Refilling /\ TbIdle.now <= rlTime
    BY <1>0, <1>3 DEF Refilling
  <2>7. CASE tbThread[t].op = "try"
    <3>1. tbThread' = [tbThread EXCEPT ![t] = TbIdle]
      BY <2>1, <2>7
    <3>2. BucketMove(t, TbIdle)
      BY <1>0, <1>2, <1>3, <2>1, <2>2, <2>3, <2>4, <2>6, <3>1 DEF BucketMove
    <3> QED
      BY <1>3, <3>2
  <2>8. CASE tbThread[t].op = "acquire"
    <3> HIDE DEF again
    <3>1. tbThread' = [tbThread EXCEPT ![t] = again]
      BY <2>1, <2>8
    <3>2. BucketMove(t, again)
      BY <1>0, <1>2, <1>3, <2>1, <2>2, <2>3, <2>4, <2>8, <3>1 DEF BucketMove
    <3> QED
      BY <1>3, <3>2
  <2> QED
    BY <2>5, <2>7, <2>8
<1> QED
  BY <1>4, <1>5

LEMMA BucketResets ==
    ASSUME BucketInv, NEW t \in RlThreads, TbReset(t) \/ TbStamp(t), UNCHANGED rlTime
    PROVE  \E self \in TbThreadType : BucketMove(t, self)
<1>0. /\ BucketTypes /\ tb.last <= rlTime /\ rlTime \in Nat
      /\ tb \in [tokens : Nat, last : Nat] /\ tbGiven \in [taken : Nat, reset : Nat, overlapped : BOOLEAN]
  BY DEF BucketInv, BucketTypes
<1>1. /\ tb.last \in Nat /\ tb.tokens \in Nat /\ tbGiven.taken \in Nat /\ tbGiven.reset \in Nat
      /\ Given \in Nat /\ Entitled \in Nat /\ max_tokens \in Nat
  BY <1>0, BucketNumbers
<1>2. ~tbGiven.overlapped => Given <= Entitled + tb.last
  BY DEF BucketInv, RefillInv
<1>3. ASSUME TbReset(t) PROVE \E self \in TbThreadType : BucketMove(t, self)
  <2> DEFINE self == [TbIdle EXCEPT !.pc = "stamp"]
  <2>1. self \in TbThreadType /\ self.pc = "stamp" /\ self.now <= rlTime
    BY <1>0 DEF TbIdle, TbThreadType, TbPcs
  <2>2. tbGiven.reset + max_tokens \in Nat
    BY <1>1
  <2>3. /\ tbThread' = [tbThread EXCEPT ![t] = self] /\ tb' = [tb EXCEPT !.tokens = max_tokens]
        /\ tbGiven'.taken = tbGiven.taken /\ tbGiven'.reset = tbGiven.reset + max_tokens
        /\ tbGiven' \in [taken : Nat, reset : Nat, overlapped : BOOLEAN]
        /\ tbGiven'.overlapped = (tbGiven.overlapped \/ TbOverlap(t))
    BY <1>0, <1>3, <2>2 DEF TbReset, TbOverlap
  <2> HIDE DEF self
  <2>4. tb' \in [tokens : Nat, last : Nat] /\ tb'.last = tb.last /\ tb'.tokens = max_tokens
    BY <1>0, <1>1, <2>3
  <2>5. ~tbGiven'.overlapped => ~tbGiven.overlapped /\ ~TbOverlap(t)
    BY <2>3, Zenon
  <2>6. ~tbGiven.overlapped => Given' <= Entitled' + tb'.last
    <3>1. PICK g \in Nat, x \in Nat, z \in Nat, c \in Nat, n \in Nat :
             g = tbGiven.taken /\ x = tb.tokens /\ z = tbGiven.reset /\ c = max_tokens /\ n = tb.last
      BY <1>1
    <3>2. Given' = g + c /\ Entitled' = c + (z + c) /\ Given = g + x /\ Entitled = c + z
      BY <2>3, <2>4, <3>1 DEF Given, Entitled, max_tokens
    <3>3. g + x <= (c + z) + n => g + c <= (c + (z + c)) + n
      OBVIOUS
    <3> QED
      BY <1>2, <2>4, <3>1, <3>2, <3>3
  <2>7. BucketMove(t, self)
    BY <1>0, <2>1, <2>3, <2>4, <2>5, <2>6 DEF BucketMove
  <2> QED
    BY <2>1, <2>7
<1>4. ASSUME TbStamp(t) PROVE \E self \in TbThreadType : BucketMove(t, self)
  <2>1. /\ tbThread[t].pc = "stamp" /\ tb' = [tb EXCEPT !.last = rlTime] /\ tbGiven' = tbGiven
        /\ tbThread' = [tbThread EXCEPT ![t] = TbIdle]
    BY <1>4 DEF TbStamp
  <2>2. TbIdle \in TbThreadType /\ TbIdle.pc = "idle" /\ TbIdle.now <= rlTime
    BY <1>0 DEF TbIdle, TbThreadType, TbPcs
  <2>3. tb' \in [tokens : Nat, last : Nat] /\ tb'.last = rlTime /\ tb'.tokens = tb.tokens
    BY <1>0, <2>1
  <2>4. Given' = Given /\ Entitled' = Entitled
    BY <2>1, <2>3 DEF Given, Entitled, max_tokens
  <2>5. ~tbGiven.overlapped => Given' <= Entitled' + tb'.last
    <3>1. PICK g \in Nat, e \in Nat, a \in Nat, b \in Nat : g = Given /\ e = Entitled /\ a = tb.last /\ b = rlTime
      BY <1>0, <1>1
    <3>2. a <= b
      BY <1>0, <3>1
    <3>3. g <= e + a => g <= e + b
      BY <3>2
    <3> QED
      BY <1>2, <2>3, <2>4, <3>1, <3>3
  <2>6. Given' - Entitled' <= Given - Entitled
    BY <1>1, <2>4
  <2>7. "idle" \notin Refilling /\ tbThread[t].pc \in Refilling /\ tb'.last <= rlTime
    BY <1>0, <2>1, <2>3 DEF Refilling
  <2>8. BucketMove(t, TbIdle)
    BY <1>0, <2>1, <2>2, <2>3, <2>5, <2>6, <2>7 DEF BucketMove
  <2> QED
    BY <2>2, <2>8
<1> QED
  BY <1>3, <1>4

LEMMA BucketStep == BucketInv /\ [RlNext]_rlVars => BucketInv'
<1> SUFFICES ASSUME BucketInv, [RlNext]_rlVars PROVE BucketInv'
  OBVIOUS
<1>1. CASE UNCHANGED tbVars /\ (rlTime' = rlTime \/ rlTime' = rlTime + 1)
  <2>1. tb' = tb /\ tbThread' = tbThread /\ tbGiven' = tbGiven
    BY <1>1 DEF tbVars
  <2>2. rlTime' \in Nat /\ rlTime \in Nat /\ rlTime <= rlTime'
    BY <1>1 DEF BucketInv, BucketTypes
  <2>3. BucketTypes'
    BY <2>1, <2>2 DEF BucketInv, BucketTypes
  <2>4. tb.last <= rlTime' /\ \A t \in RlThreads : tbThread[t].now <= rlTime'
    <3>1. tb.last \in Nat /\ tb.last <= rlTime /\ \A t \in RlThreads : tbThread[t].now <= rlTime /\ tbThread[t].now \in Nat
      BY BucketNumbers DEF BucketInv
    <3> QED
      BY <2>2, <3>1
  <2>5. Given' = Given /\ Entitled' = Entitled
    BY <2>1 DEF Given, Entitled, max_tokens
  <2>6. RefillInv => RefillInv'
    BY <2>1, <2>5 DEF RefillInv
  <2> QED
    BY <2>1, <2>3, <2>4, <2>6 DEF BucketInv
<1>2. CASE TbNext
  <2>1. PICK t \in RlThreads :
          /\ \/ \E op \in {"try", "acquire"}, cost \in 0..MaxCost : TbBegin(t, op, cost)
             \/ refill(t) \/ UpdateLastRefill(t) \/ AddTokens(t) \/ Consume(t) \/ TbReset(t) \/ TbStamp(t)
          /\ UNCHANGED rlTime
    BY <1>2 DEF TbNext
  <2>2. \E self \in TbThreadType : BucketMove(t, self)
    BY <2>1, BucketLoads, BucketRefills, BucketConsumes, BucketResets
  <2> QED
    BY <2>2, BucketMoves
<1>3. CASE RlTick
  BY <1>1, <1>3 DEF RlTick
<1>4. CASE SwNext
  BY <1>1, <1>4 DEF SwNext
<1>5. CASE UNCHANGED rlVars
  BY <1>1, <1>5 DEF rlVars
<1> QED
  BY <1>2, <1>3, <1>4, <1>5 DEF RlNext

\* As long as no two refills overlapped the bucket keeps to its rate, for every burst,
\* cost, number of threads and interleaving of their atomic accesses otherwise
\* (rate_limiter.rs AtomicTokenBucket refill, try_acquire_n, acquire_n, reset).
THEOREM RateIsKept == RlSpec => []RateKeptUnlessRefillsOverlap
<1>1. RlInit => BucketInv
  <2> SUFFICES ASSUME RlInit PROVE BucketInv
    OBVIOUS
  <2>1. max_tokens \in Nat
    BY LimiterAssumption DEF max_tokens
  <2>2. /\ rlTime = 0 /\ tb = [tokens |-> max_tokens, last |-> 0] /\ tbThread = [t \in RlThreads |-> TbIdle]
        /\ tbGiven = [taken |-> 0, reset |-> 0, overlapped |-> FALSE]
    BY DEF RlInit
  <2>3. TbIdle \in TbThreadType /\ TbIdle.pc = "idle" /\ TbIdle.now = 0
    BY DEF TbIdle, TbThreadType, TbPcs
  <2>4. BucketTypes
    BY <2>1, <2>2, <2>3 DEF BucketTypes
  <2>5. \A t \in RlThreads : tbThread[t].pc = "idle" /\ tbThread[t].now = 0
    BY <2>2, <2>3
  <2>6. Given = 0 + max_tokens /\ Entitled = max_tokens + 0 /\ tb.last = 0
    BY <2>2 DEF Given, Entitled
  <2>7. Given <= Entitled + tb.last
    BY <2>1, <2>6
  <2>8. RefillInv
    BY <2>5, <2>7 DEF RefillInv, Refilling
  <2> QED
    BY <2>2, <2>4, <2>5, <2>6, <2>8 DEF BucketInv
<1>2. BucketInv => RateKeptUnlessRefillsOverlap
  <2> SUFFICES ASSUME BucketInv, ~tbGiven.overlapped
               PROVE  tbGiven.taken + tb.tokens <= max_tokens + tbGiven.reset + rlTime
    BY DEF RateKeptUnlessRefillsOverlap
  <2>1. Given <= Entitled + tb.last /\ tb.last <= rlTime /\ rlTime \in Nat
    BY DEF BucketInv, RefillInv, BucketTypes
  <2>2. Given \in Nat /\ Entitled \in Nat /\ tb.last \in Nat
    BY BucketNumbers DEF BucketInv
  <2>3. PICK g \in Nat, e \in Nat, a \in Nat, b \in Nat : g = Given /\ e = Entitled /\ a = tb.last /\ b = rlTime
    BY <2>1, <2>2
  <2>4. g <= e + b
    BY <2>1, <2>3
  <2> QED
    BY <2>3, <2>4 DEF Given, Entitled
<1> QED
  BY <1>1, <1>2, BucketStep, PTL DEF RlSpec

-----------------------------------------------------------------------------
(* The pre-trade gate. *)

ExPcs == {"idle", "breaker", "limits", "margin", "send", "book"}
ExCall == [pc : ExPcs, action : Actions, qty : 0..MaxOrder, first : Int]

ExShape ==
    /\ exMode \in {"unset", "DryRun", "Enforce"}
    /\ exClean \in BOOLEAN
    /\ exBooked \in Int /\ exHeld \in Int
    /\ exTask \in [ExTasks -> ExCall]
    /\ exMode = "unset" => \A t \in ExTasks : exTask[t].pc = "idle"

\* What each call may still add to the booked position, upwards and downwards: a
\* call is counted from the limit check it passed until its fill is booked.
Passed(t) == exTask[t].pc \in {"margin", "send", "book"}
Rising == [t \in ExTasks |-> IF Passed(t) /\ exTask[t].action # "Sell" THEN exTask[t].qty ELSE 0]
Falling == [t \in ExTasks |-> IF Passed(t) /\ exTask[t].action = "Sell" THEN exTask[t].qty ELSE 0]

\* What each call has executed and not booked.
Bought == [t \in ExTasks |-> IF exTask[t].pc = "book" /\ exTask[t].action # "Sell" THEN exTask[t].qty ELSE 0]
Sold == [t \in ExTasks |-> IF exTask[t].pc = "book" /\ exTask[t].action = "Sell" THEN exTask[t].qty ELSE 0]

Total(f) == SumFunctionOnSet(f, ExTasks)
Overshoot == MaxPosition + (Cardinality(ExTasks) - 1) * MaxOrder

\* The limit check bounds the booked position and everything that passed it, and the
\* position at the exchange is the booked one with the fills not booked yet.
GateBooks ==
    /\ \A t \in ExTasks : exTask[t].pc = "book" =>
          exTask[t].first = exTask[t].qty /\ exTask[t].action # "BuyLimit"
    /\ exHeld = exBooked + Total(Bought) - Total(Sold)
    /\ exBooked + Total(Rising) <= Overshoot
    /\ Total(Falling) - exBooked <= Overshoot
GateInv == ExShape /\ (exMode # "DryRun" /\ exClean => GateBooks)

LEMMA GateNumbers ==
    ASSUME ExShape
    PROVE  /\ Rising \in [ExTasks -> 0..MaxOrder] /\ Falling \in [ExTasks -> 0..MaxOrder]
           /\ Bought \in [ExTasks -> 0..MaxOrder] /\ Sold \in [ExTasks -> 0..MaxOrder]
           /\ Total(Rising) \in Nat /\ Total(Falling) \in Nat /\ Total(Bought) \in Nat /\ Total(Sold) \in Nat
           /\ Total(Bought) <= Total(Rising) /\ Total(Sold) <= Total(Falling)
           /\ Overshoot \in Int
<1>1. 0 \in 0..MaxOrder /\ \A t \in ExTasks : exTask[t].qty \in 0..MaxOrder
  BY GateAssumption DEF ExShape, ExCall
<1>2. /\ Rising \in [ExTasks -> 0..MaxOrder] /\ Falling \in [ExTasks -> 0..MaxOrder]
      /\ Bought \in [ExTasks -> 0..MaxOrder] /\ Sold \in [ExTasks -> 0..MaxOrder]
  BY <1>1 DEF Rising, Falling, Bought, Sold
<1>3. ASSUME NEW f \in [ExTasks -> 0..MaxOrder] PROVE Total(f) \in Nat
  BY GateAssumption, SumBounded DEF Total
<1>4. ASSUME NEW f \in [ExTasks -> 0..MaxOrder], NEW e \in [ExTasks -> 0..MaxOrder],
             \A t \in ExTasks : f[t] <= e[t]
      PROVE  Total(f) <= Total(e)
  BY <1>4, GateAssumption, SumOrdered DEF Total
<1>5. \A t \in ExTasks : Bought[t] <= Rising[t] /\ Sold[t] <= Falling[t]
  <2>1. MaxOrder \in Nat
    BY GateAssumption
  <2> QED
    BY <1>1, <2>1 DEF Bought, Rising, Sold, Falling, Passed
<1>6. Overshoot \in Int
  <2>1. Cardinality(ExTasks) - 1 \in Int /\ MaxOrder \in Int /\ MaxPosition \in Int
    BY GateAssumption, FS_CardinalityType
  <2>2. (Cardinality(ExTasks) - 1) * MaxOrder \in Int
    BY <2>1
  <2> QED
    BY <2>1, <2>2 DEF Overshoot
<1>7. Total(Bought) <= Total(Rising) /\ Total(Sold) <= Total(Falling)
  BY <1>2, <1>4, <1>5
<1> QED
  BY <1>2, <1>3, <1>6, <1>7

\* The books bound the overshoot.
LEMMA GateBounds == GateInv => GateOvershootBounded
<1> SUFFICES ASSUME GateInv, exMode = "Enforce", exClean PROVE AbsOf(exHeld) <= Overshoot
  BY DEF GateOvershootBounded, Overshoot
<1>1. ExShape /\ GateBooks
  BY DEF GateInv
<1>2. PICK r \in Nat, f \in Nat, b \in Nat, s \in Nat, o \in Int :
         r = Total(Rising) /\ f = Total(Falling) /\ b = Total(Bought) /\ s = Total(Sold) /\ o = Overshoot /\ b <= r /\ s <= f
  BY <1>1, GateNumbers
<1>3. PICK h \in Int, k \in Int : h = exHeld /\ k = exBooked
  BY <1>1 DEF ExShape
<1>4. h = k + b - s /\ k + r <= o /\ f - k <= o
  BY <1>1, <1>2, <1>3 DEF GateBooks
<1>5. h <= o /\ -h <= o
  BY <1>2, <1>4
<1> QED
  BY <1>2, <1>3, <1>5 DEF AbsOf

LEMMA GateTypes ==
    ExShape => /\ Rising \in [ExTasks -> Int] /\ Falling \in [ExTasks -> Int]
               /\ Bought \in [ExTasks -> Int] /\ Sold \in [ExTasks -> Int]
BY GateNumbers

LEMMA GateTypesNext ==
    ExShape' => /\ Rising' \in [ExTasks -> Int] /\ Falling' \in [ExTasks -> Int]
                /\ Bought' \in [ExTasks -> Int] /\ Sold' \in [ExTasks -> Int]
<1>1. (ExShape => /\ Rising \in [ExTasks -> Int] /\ Falling \in [ExTasks -> Int]
                  /\ Bought \in [ExTasks -> Int] /\ Sold \in [ExTasks -> Int])'
  BY GateTypes, PTL
<1> QED
  BY <1>1

\* How a step of one call moves the totals.
LEMMA GateMoves ==
    ASSUME ExShape, ExShape', NEW t \in ExTasks, \A u \in ExTasks \ {t} : exTask'[u] = exTask[u]
    PROVE  /\ Total(Rising)' = Total(Rising) - Rising[t] + Rising'[t]
           /\ Total(Falling)' = Total(Falling) - Falling[t] + Falling'[t]
           /\ Total(Bought)' = Total(Bought) - Bought[t] + Bought'[t]
           /\ Total(Sold)' = Total(Sold) - Sold[t] + Sold'[t]
<1>1. /\ Rising \in [ExTasks -> Int] /\ Falling \in [ExTasks -> Int]
      /\ Bought \in [ExTasks -> Int] /\ Sold \in [ExTasks -> Int]
  BY GateNumbers
<1>2. /\ Rising' \in [ExTasks -> Int] /\ Falling' \in [ExTasks -> Int]
      /\ Bought' \in [ExTasks -> Int] /\ Sold' \in [ExTasks -> Int]
  BY GateTypesNext
<1>3. \A u \in ExTasks \ {t} : /\ Rising'[u] = Rising[u] /\ Falling'[u] = Falling[u]
                               /\ Bought'[u] = Bought[u] /\ Sold'[u] = Sold[u]
  BY DEF Rising, Falling, Bought, Sold, Passed
<1>4. ASSUME NEW f \in [ExTasks -> Int], NEW e \in [ExTasks -> Int], \A u \in ExTasks \ {t} : e[u] = f[u]
      PROVE  SumFunctionOnSet(e, ExTasks) = SumFunctionOnSet(f, ExTasks) - f[t] + e[t]
  BY <1>4, GateAssumption, SumUpdated
<1> QED
  BY <1>1, <1>2, <1>3, <1>4 DEF Total

\* Every action keeps the types.
LEMMA ExShapeStep == ExShape /\ [ExNext]_exVars => ExShape'
<1> SUFFICES ASSUME ExShape, [ExNext]_exVars PROVE ExShape'
  OBVIOUS
<1>1. /\ \A t \in ExTasks : exTask[t] \in ExCall
      /\ ExIdle \in ExCall
  BY GateAssumption DEF ExShape, ExCall, ExIdle, ExPcs, Actions
<1>2. ASSUME NEW m \in GateModes, ExConfigure(m) PROVE ExShape'
  BY <1>2 DEF ExConfigure, GateModes, ExShape
<1>3. CASE UNCHANGED ExRest
  BY <1>3 DEF ExRest, ExShape
<1>4. ASSUME NEW t \in ExTasks, NEW v \in ExCall, exTask' = [exTask EXCEPT ![t] = v], exMode # "unset",
             exMode' = exMode, exClean' \in BOOLEAN, exBooked' \in Int, exHeld' \in Int
      PROVE  ExShape'
  BY <1>4 DEF ExShape
<1>5. ASSUME NEW t \in ExTasks, exTask[t].pc # "idle" PROVE exMode # "unset"
  BY <1>5 DEF ExShape
<1>6. ASSUME NEW t \in ExTasks, NEW pc \in ExPcs
      PROVE  /\ [exTask EXCEPT ![t].pc = pc] = [exTask EXCEPT ![t] = [exTask[t] EXCEPT !.pc = pc]]
             /\ [exTask[t] EXCEPT !.pc = pc] \in ExCall
  BY <1>1 DEF ExShape, ExCall
<1>7. ASSUME NEW t \in ExTasks, NEW pc \in ExPcs, Rejected(t, pc) \/ ExGoto(t, pc),
             exTask[t].pc # "idle", UNCHANGED <<exMode, exBooked, exHeld, exClean>>
      PROVE  ExShape'
  <2>1. exClean' \in BOOLEAN /\ exBooked' \in Int /\ exHeld' \in Int /\ exMode' = exMode
    BY <1>7 DEF ExShape
  <2>2. CASE exTask' = [exTask EXCEPT ![t] = ExIdle]
    BY <1>1, <1>4, <1>5, <1>7, <2>1, <2>2
  <2>3. CASE exTask' = [exTask EXCEPT ![t].pc = pc]
    <3>1. exTask' = [exTask EXCEPT ![t] = [exTask[t] EXCEPT !.pc = pc]]
      BY <1>6, <2>3
    <3> QED
      BY <1>4, <1>5, <1>6, <1>7, <2>1, <3>1
  <2> QED
    BY <1>7, <2>2, <2>3 DEF Rejected, ExGoto
<1>8. ASSUME NEW t \in ExTasks, NEW a \in Actions, NEW q \in 1..MaxOrder, ExecuteOrder(t, a, q) PROVE ExShape'
  <2>1. [pc |-> "breaker", action |-> a, qty |-> q, first |-> 0] \in ExCall
    BY GateAssumption DEF ExCall, ExPcs
  <2>2. exClean' \in BOOLEAN /\ exBooked' \in Int /\ exHeld' \in Int
    BY <1>8 DEF ExecuteOrder, ExShape
  <2> QED
    BY <1>4, <1>8, <2>1, <2>2 DEF ExecuteOrder
<1>9. ASSUME NEW t \in ExTasks, CheckBreaker(t) \/ CheckLimits(t) \/ CheckMargin(t) PROVE ExShape'
  <2>1. CASE CheckBreaker(t)
    BY <1>7, <2>1 DEF CheckBreaker, ExPcs
  <2>2. CASE CheckLimits(t)
    BY <1>7, <2>2 DEF CheckLimits, ExPcs
  <2>3. CASE CheckMargin(t)
    BY <1>7, <2>3 DEF CheckMargin, ExPcs
  <2> QED
    BY <1>9, <2>1, <2>2, <2>3
<1>10. ASSUME NEW t \in ExTasks, ExchangeFills(t) PROVE ExShape'
  <2>1. PICK first \in Int : /\ exTask' = [exTask EXCEPT ![t].pc = "book", ![t].first = first]
                             /\ exClean' = (exClean /\ first = exTask[t].qty /\ exTask[t].action # "BuyLimit")
    <3>1. {exTask[t].qty} \cup {n \in 1..exTask[t].qty : n = 1} \subseteq Int
      BY <1>1 DEF ExCall
    <3> QED
      BY <1>10, <3>1 DEF ExchangeFills
  <2>2. exTask' = [exTask EXCEPT ![t] = [exTask[t] EXCEPT !.pc = "book", !.first = first]]
    BY <2>1 DEF ExShape
  <2>3. [exTask[t] EXCEPT !.pc = "book", !.first = first] \in ExCall
    BY <1>1 DEF ExCall, ExPcs
  <2>4. exHeld + Sign(exTask[t].action) * exTask[t].qty \in Int
    <3>1. exTask[t].qty \in Int /\ exHeld \in Int
      BY <1>1 DEF ExCall, ExShape
    <3> QED
      BY <3>1 DEF Sign
  <2>5. exClean' \in BOOLEAN
    BY Zenon, <2>1
  <2>6. exMode # "unset" /\ exMode' = exMode /\ exBooked' \in Int /\ exHeld' \in Int
    BY <1>5, <1>10, <2>4 DEF ExchangeFills, ExShape
  <2> QED
    BY <1>4, <2>2, <2>3, <2>5, <2>6
<1>11. ASSUME NEW t \in ExTasks, ExchangeFails(t) PROVE ExShape'
  <2>1. exMode # "unset" /\ exMode' = exMode /\ exBooked' \in Int /\ exHeld' \in Int /\ exClean' \in BOOLEAN
    BY <1>5, <1>11 DEF ExchangeFails, ExShape
  <2> QED
    BY <1>1, <1>4, <1>11, <2>1 DEF ExchangeFails
<1>12. ASSUME NEW t \in ExTasks, BookFill(t) PROVE ExShape'
  <2>1. exBooked + (IF exTask[t].action = "Buy" THEN exTask[t].first ELSE -exTask[t].first) \in Int
    <3>1. exTask[t].first \in Int /\ exBooked \in Int
      BY <1>1 DEF ExCall, ExShape
    <3> QED
      BY <3>1
  <2>2. exMode # "unset" /\ exMode' = exMode /\ exBooked' \in Int /\ exHeld' \in Int /\ exClean' \in BOOLEAN
    BY <1>5, <1>12, <2>1 DEF BookFill, ExShape
  <2> QED
    BY <1>1, <1>4, <1>12, <2>2 DEF BookFill
<1>13. ASSUME NEW a \in Actions, NEW q \in 1..MaxOrder, execute_batch_orders(a, q) PROVE ExShape'
  <2>1. exHeld + Sign(a) * q \in Int
    <3>1. q \in Int /\ exHeld \in Int
      BY GateAssumption DEF ExShape
    <3> QED
      BY <3>1 DEF Sign
  <2> QED
    BY <1>13, <2>1 DEF execute_batch_orders, ExShape
<1>14. CASE UNCHANGED exVars
  BY <1>14 DEF exVars, ExShape
<1>15. CASE KillSwitchTrigger \/ KillSwitchReset \/ WindowPasses \/ PauseEnds \/ refresh_margin_snapshot
  BY <1>3, <1>15 DEF KillSwitchTrigger, KillSwitchReset, WindowPasses, PauseEnds, refresh_margin_snapshot
<1> QED
  BY <1>2, <1>8, <1>9, <1>10, <1>11, <1>12, <1>13, <1>14, <1>15 DEF ExNext

\* A step of one call that adds nothing to what the limit check counted keeps the books.
LEMMA GateKept ==
    ASSUME ExShape, ExShape', GateBooks, NEW t \in ExTasks, \A u \in ExTasks \ {t} : exTask'[u] = exTask[u],
           exTask'[t].pc = "book" => exTask'[t].first = exTask'[t].qty /\ exTask'[t].action # "BuyLimit",
           exHeld' - exHeld = (exBooked' - exBooked) + (Bought'[t] - Bought[t]) - (Sold'[t] - Sold[t]),
           exBooked' + Rising'[t] <= exBooked + Rising[t],
           Falling'[t] - exBooked' <= Falling[t] - exBooked
    PROVE  GateBooks'
<1>1. /\ Total(Rising)' = Total(Rising) - Rising[t] + Rising'[t]
      /\ Total(Falling)' = Total(Falling) - Falling[t] + Falling'[t]
      /\ Total(Bought)' = Total(Bought) - Bought[t] + Bought'[t]
      /\ Total(Sold)' = Total(Sold) - Sold[t] + Sold'[t]
  BY GateMoves
<1>2. /\ Rising[t] \in Int /\ Falling[t] \in Int /\ Bought[t] \in Int /\ Sold[t] \in Int
      /\ Rising'[t] \in Int /\ Falling'[t] \in Int /\ Bought'[t] \in Int /\ Sold'[t] \in Int
  BY GateTypes, GateTypesNext
<1>3. PICK r \in Int, f \in Int, b \in Int, s \in Int, o \in Int :
         r = Total(Rising) /\ f = Total(Falling) /\ b = Total(Bought) /\ s = Total(Sold) /\ o = Overshoot
  BY GateNumbers
<1>4. PICK r1 \in Int, f1 \in Int, b1 \in Int, s1 \in Int, r2 \in Int, f2 \in Int, b2 \in Int, s2 \in Int :
         /\ r1 = Rising[t] /\ f1 = Falling[t] /\ b1 = Bought[t] /\ s1 = Sold[t]
         /\ r2 = Rising'[t] /\ f2 = Falling'[t] /\ b2 = Bought'[t] /\ s2 = Sold'[t]
  BY <1>2
<1>5. PICK h \in Int, k \in Int, hh \in Int, kk \in Int : h = exHeld /\ k = exBooked /\ hh = exHeld' /\ kk = exBooked'
  BY DEF ExShape
<1>6. h = k + b - s /\ k + r <= o /\ f - k <= o
  BY <1>3, <1>5 DEF GateBooks
<1>7. hh - h = (kk - k) + (b2 - b1) - (s2 - s1) /\ kk + r2 <= k + r1 /\ f2 - kk <= f1 - k
  BY <1>4, <1>5
<1>8. hh = kk + (b - b1 + b2) - (s - s1 + s2) /\ kk + (r - r1 + r2) <= o /\ (f - f1 + f2) - kk <= o
  BY <1>6, <1>7
<1>9. /\ Total(Bought)' = b - b1 + b2 /\ Total(Sold)' = s - s1 + s2
      /\ Total(Rising)' = r - r1 + r2 /\ Total(Falling)' = f - f1 + f2 /\ Overshoot' = o
  BY <1>1, <1>3, <1>4 DEF Overshoot
<1>10. exHeld' = exBooked' + Total(Bought)' - Total(Sold)'
  BY <1>5, <1>8, <1>9
<1>11. exBooked' + Total(Rising)' <= Overshoot' /\ Total(Falling)' - exBooked' <= Overshoot'
  BY <1>5, <1>8, <1>9
<1>12. \A u \in ExTasks : exTask'[u].pc = "book" => exTask'[u].first = exTask'[u].qty /\ exTask'[u].action # "BuyLimit"
  BY DEF GateBooks
<1> QED
  BY <1>10, <1>11, <1>12 DEF GateBooks

\* The limit check sees everything booked: what the other calls have passed is at most an
\* order each.
LEMMA GateAdmits ==
    ASSUME ExShape, ExShape', GateBooks, NEW t \in ExTasks, exTask[t].pc = "limits",
           exTask' = [exTask EXCEPT ![t] = [exTask[t] EXCEPT !.pc = "margin"]],
           exBooked' = exBooked, exHeld' = exHeld, WithinLimits(exTask[t])
    PROVE  GateBooks'
<1>1. exTask[t] \in ExCall /\ exTask'[t] = [exTask[t] EXCEPT !.pc = "margin"]
  BY DEF ExShape
<1>2. /\ exTask'[t].pc = "margin" /\ exTask'[t].action = exTask[t].action /\ exTask'[t].qty = exTask[t].qty
  BY <1>1 DEF ExCall
<1>3. \A u \in ExTasks \ {t} : exTask'[u] = exTask[u]
  BY DEF ExShape
<1>4. /\ Bought[t] = 0 /\ Sold[t] = 0 /\ Rising[t] = 0 /\ Falling[t] = 0
      /\ Bought'[t] = 0 /\ Sold'[t] = 0
      /\ exTask[t].action # "Sell" => Rising'[t] = exTask[t].qty /\ Falling'[t] = 0
      /\ exTask[t].action = "Sell" => Rising'[t] = 0 /\ Falling'[t] = exTask[t].qty
  BY <1>2 DEF Bought, Sold, Rising, Falling, Passed
<1>5. /\ Total(Rising)' = Total(Rising) - Rising[t] + Rising'[t]
      /\ Total(Falling)' = Total(Falling) - Falling[t] + Falling'[t]
      /\ Total(Bought)' = Total(Bought) - Bought[t] + Bought'[t]
      /\ Total(Sold)' = Total(Sold) - Sold[t] + Sold'[t]
  BY <1>3, GateMoves
<1>6. PICK r \in Nat, f \in Nat, b \in Nat, s \in Nat, o \in Int :
         r = Total(Rising) /\ f = Total(Falling) /\ b = Total(Bought) /\ s = Total(Sold) /\ o = Overshoot
  BY GateNumbers
<1>7. PICK k \in Int, q \in Nat : k = exBooked /\ q = exTask[t].qty
  BY <1>1, GateAssumption DEF ExShape, ExCall
<1>8. PICK m \in Nat : m = (Cardinality(ExTasks) - 1) * MaxOrder /\ o = MaxPosition + m
  <2>1. Cardinality(ExTasks) \in Nat /\ Cardinality(ExTasks) # 0
    BY GateAssumption, FS_CardinalityType, FS_EmptySet
  <2>2. Cardinality(ExTasks) - 1 \in Nat /\ MaxOrder \in Nat
    BY <2>1, GateAssumption
  <2>3. (Cardinality(ExTasks) - 1) * MaxOrder \in Nat
    BY <2>2
  <2> QED
    BY <1>6, <2>3 DEF Overshoot
<1>9. r <= m /\ f <= m
  <2>1. ASSUME NEW e \in [ExTasks -> 0..MaxOrder], e[t] = 0 PROVE Total(e) <= m
    <3>1. IsFiniteSet(ExTasks \ {t}) /\ Cardinality(ExTasks \ {t}) = Cardinality(ExTasks) - 1
      BY GateAssumption, FS_RemoveElement
    <3>2. \A u \in ExTasks \ {t} : e[u] \in 0..MaxOrder
      OBVIOUS
    <3>3. SumFunctionOnSet(e, ExTasks \ {t}) <= Cardinality(ExTasks \ {t}) * MaxOrder
      BY <3>1, <3>2, GateAssumption, SumBounded
    <3>4. \A u \in ExTasks : e[u] \in Int
      BY GateAssumption
    <3>5. /\ SumFunctionOnSet(e, ExTasks \ {t}) \in Int
          /\ SumFunctionOnSet(e, ExTasks) = e[t] + SumFunctionOnSet(e, ExTasks \ {t})
      BY <3>4, GateAssumption, SumWithout
    <3> QED
      BY <1>8, <2>1, <3>1, <3>3, <3>5 DEF Total
  <2> QED
    BY <1>4, <1>6, <2>1, GateNumbers
<1>10. /\ exTask[t].action # "Sell" => k + q <= MaxPosition
       /\ exTask[t].action = "Sell" => q - k <= MaxPosition
  <2>1. AbsOf(k + Sign(exTask[t].action) * q) <= MaxPosition /\ MaxPosition \in Nat
    BY <1>7, GateAssumption DEF WithinLimits
  <2>2. \A x \in Int : AbsOf(x) <= MaxPosition => x <= MaxPosition /\ -x <= MaxPosition
    BY <2>1 DEF AbsOf
  <2>3. CASE exTask[t].action = "Sell"
    <3>1. AbsOf(k - q) <= MaxPosition /\ k - q \in Int
      BY <1>7, <2>1, <2>3 DEF Sign
    <3>2. -(k - q) <= MaxPosition
      BY <2>2, <3>1
    <3> QED
      BY <2>3, <3>2
  <2>4. CASE exTask[t].action # "Sell"
    <3>1. AbsOf(k + q) <= MaxPosition /\ k + q \in Int
      BY <1>7, <2>1, <2>4 DEF Sign
    <3> QED
      BY <2>2, <2>4, <3>1
  <2> QED
    BY <2>3, <2>4
<1>11. exHeld' = exBooked' + Total(Bought)' - Total(Sold)'
  <2>1. Total(Bought)' = Total(Bought) /\ Total(Sold)' = Total(Sold)
    BY <1>4, <1>5, <1>6
  <2> QED
    BY <2>1 DEF GateBooks
<1>12. k + r <= o /\ f - k <= o
  BY <1>6, <1>7 DEF GateBooks
<1>13. MaxPosition \in Nat
  BY GateAssumption
<1>14. Overshoot' = o /\ exBooked' = k
  BY <1>6, <1>7 DEF Overshoot
<1>15. exBooked' + Total(Rising)' <= Overshoot'
  <2>1. CASE exTask[t].action # "Sell"
    <3>1. Total(Rising)' = r + q
      BY <1>4, <1>5, <1>6, <1>7, <2>1
    <3>2. k + (r + q) <= o
      BY <1>8, <1>9, <1>10, <1>13, <2>1
    <3> QED
      BY <1>14, <3>1, <3>2
  <2>2. CASE exTask[t].action = "Sell"
    <3>1. Total(Rising)' = r
      BY <1>4, <1>5, <1>6, <2>2
    <3> QED
      BY <1>12, <1>14, <3>1
  <2> QED
    BY <2>1, <2>2
<1>16. Total(Falling)' - exBooked' <= Overshoot'
  <2>1. CASE exTask[t].action = "Sell"
    <3>1. Total(Falling)' = f + q
      BY <1>4, <1>5, <1>6, <1>7, <2>1
    <3>2. (f + q) - k <= o
      BY <1>8, <1>9, <1>10, <1>13, <2>1
    <3> QED
      BY <1>14, <3>1, <3>2
  <2>2. CASE exTask[t].action # "Sell"
    <3>1. Total(Falling)' = f
      BY <1>4, <1>5, <1>6, <2>2
    <3> QED
      BY <1>12, <1>14, <3>1
  <2> QED
    BY <2>1, <2>2
<1>17. \A u \in ExTasks : exTask'[u].pc = "book" => exTask'[u].first = exTask'[u].qty /\ exTask'[u].action # "BuyLimit"
  BY <1>2, <1>3 DEF GateBooks
<1> QED
  BY <1>11, <1>15, <1>16, <1>17 DEF GateBooks

\* Every action keeps the gate's books, as long as the orders stay clean.
LEMMA GateStep == GateInv /\ [ExNext]_exVars => GateInv'
<1> SUFFICES ASSUME GateInv, [ExNext]_exVars, exMode' # "DryRun", exClean' PROVE GateBooks'
  BY ExShapeStep DEF GateInv
<1>1. ExShape /\ ExShape'
  BY ExShapeStep DEF GateInv
<1>2. CASE UNCHANGED <<exBooked, exHeld, exTask, exClean>> /\ (exMode' = exMode \/ exMode = "unset")
  <2>1. GateBooks
    BY <1>2 DEF GateInv
  <2> QED
    BY <1>2, <2>1 DEF GateBooks, Total, Rising, Falling, Bought, Sold, Passed, Overshoot
<1>3. ASSUME NEW t \in ExTasks, NEW v \in ExCall, exTask' = [exTask EXCEPT ![t] = v]
      PROVE  exTask'[t] = v /\ \A u \in ExTasks \ {t} : exTask'[u] = exTask[u]
  BY <1>1, <1>3 DEF ExShape
<1>4. /\ \A t \in ExTasks : exTask[t] \in ExCall /\ exTask[t].qty \in Nat
      /\ ExIdle \in ExCall /\ exBooked \in Int /\ exHeld \in Int
  <2>1. \A t \in ExTasks : exTask[t] \in ExCall
    BY <1>1 DEF ExShape
  <2> QED
    BY <1>1, <2>1, GateAssumption DEF ExShape, ExCall, ExIdle, ExPcs, Actions
\* A call that ends without a fill, or moves on before its limit check or after it.
<1>5. ASSUME NEW t \in ExTasks, NEW v \in ExCall, exTask' = [exTask EXCEPT ![t] = v], GateBooks,
             UNCHANGED <<exBooked, exHeld>>, exTask[t].pc # "book", v.pc # "book",
             \/ v.pc \in {"idle", "breaker", "limits"}
             \/ exTask[t].pc \in {"margin", "send"} /\ v.action = exTask[t].action /\ v.qty = exTask[t].qty
      PROVE  GateBooks'
  <2>1. exTask'[t] = v /\ \A u \in ExTasks \ {t} : exTask'[u] = exTask[u]
    BY <1>3, <1>5
  <2>2. /\ Bought[t] = 0 /\ Sold[t] = 0 /\ Bought'[t] = 0 /\ Sold'[t] = 0
    BY <1>5, <2>1 DEF Bought, Sold
  <2>3. PICK r1 \in Int, r2 \in Int, f1 \in Int, f2 \in Int :
           r1 = Rising[t] /\ r2 = Rising'[t] /\ f1 = Falling[t] /\ f2 = Falling'[t]
    BY <1>1, GateTypes, GateTypesNext
  <2>4. r2 <= r1 /\ f2 <= f1
    <3>1. CASE v.pc \in {"idle", "breaker", "limits"}
      <4>1. r2 = 0 /\ f2 = 0
        BY <2>1, <2>3, <3>1 DEF Rising, Falling, Passed
      <4>2. r1 >= 0 /\ f1 >= 0
        BY <1>4, <2>3 DEF Rising, Falling
      <4> QED
        BY <4>1, <4>2
    <3>2. CASE exTask[t].pc \in {"margin", "send"} /\ v.action = exTask[t].action /\ v.qty = exTask[t].qty
      <4>1. CASE v.pc \in {"margin", "send"}
        BY <2>1, <2>3, <3>2, <4>1 DEF Rising, Falling, Passed
      <4>2. CASE v.pc \in {"idle", "breaker", "limits"}
        BY <3>1, <4>2
      <4> QED
        BY <1>5, <4>1, <4>2 DEF ExCall, ExPcs
    <3> QED
      BY <1>5, <3>1, <3>2
  <2>5. exTask'[t].pc # "book"
    BY <1>5, <2>1
  <2>6. exHeld' - exHeld = (exBooked' - exBooked) + (Bought'[t] - Bought[t]) - (Sold'[t] - Sold[t])
    BY <1>4, <1>5, <2>2
  <2>7. exBooked' + Rising'[t] <= exBooked + Rising[t] /\ Falling'[t] - exBooked' <= Falling[t] - exBooked
    BY <1>4, <1>5, <2>3, <2>4
  <2> QED
    BY <1>1, <1>5, <2>1, <2>5, <2>6, <2>7, GateKept
<1>6. ASSUME NEW t \in ExTasks, NEW pc \in ExPcs
      PROVE  /\ [exTask EXCEPT ![t].pc = pc] = [exTask EXCEPT ![t] = [exTask[t] EXCEPT !.pc = pc]]
             /\ [exTask[t] EXCEPT !.pc = pc] \in ExCall
             /\ [exTask[t] EXCEPT !.pc = pc].pc = pc
             /\ [exTask[t] EXCEPT !.pc = pc].action = exTask[t].action
             /\ [exTask[t] EXCEPT !.pc = pc].qty = exTask[t].qty
  BY <1>1, <1>4 DEF ExShape, ExCall
<1>7. ASSUME NEW t \in ExTasks, NEW a \in Actions, NEW q \in 1..MaxOrder, ExecuteOrder(t, a, q) PROVE GateBooks'
  <2>1. [pc |-> "breaker", action |-> a, qty |-> q, first |-> 0] \in ExCall
    BY GateAssumption DEF ExCall, ExPcs
  <2>2. GateBooks
    BY <1>7 DEF ExecuteOrder, GateInv
  <2> QED
    BY <1>5, <1>7, <2>1, <2>2 DEF ExecuteOrder
<1>8. ASSUME NEW t \in ExTasks, exTask[t].pc \in {"breaker", "limits", "margin"}, exMode' = exMode, exClean' = exClean
      PROVE  GateBooks /\ exMode = "Enforce"
  BY <1>1, <1>8 DEF GateInv, ExShape
<1>9. ASSUME NEW t \in ExTasks, CheckBreaker(t) PROVE GateBooks'
  <2>1. GateBooks /\ exMode = "Enforce"
    BY <1>8, <1>9 DEF CheckBreaker
  <2>2. exTask' = [exTask EXCEPT ![t] = ExIdle] \/ exTask' = [exTask EXCEPT ![t].pc = "limits"]
    BY <1>9, <2>1 DEF CheckBreaker, Rejected, ExGoto
  <2>3. exTask[t].pc = "breaker" /\ UNCHANGED <<exBooked, exHeld>>
    BY <1>9 DEF CheckBreaker
  <2>4. CASE exTask' = [exTask EXCEPT ![t] = ExIdle]
    BY <1>4, <1>5, <2>1, <2>3, <2>4 DEF ExIdle
  <2>5. CASE exTask' = [exTask EXCEPT ![t].pc = "limits"]
    <3>1. "limits" \in ExPcs
      BY DEF ExPcs
    <3> QED
      BY <1>5, <1>6, <2>1, <2>3, <2>5, <3>1
  <2> QED
    BY <2>2, <2>4, <2>5
<1>10. ASSUME NEW t \in ExTasks, CheckLimits(t) PROVE GateBooks'
  <2>1. GateBooks /\ exMode = "Enforce"
    BY <1>8, <1>10 DEF CheckLimits
  <2>2. exTask[t].pc = "limits" /\ UNCHANGED <<exBooked, exHeld>>
    BY <1>10 DEF CheckLimits
  <2>3. \/ exTask' = [exTask EXCEPT ![t] = ExIdle]
        \/ WithinLimits(exTask[t]) /\ exTask' = [exTask EXCEPT ![t].pc = "margin"]
    BY <1>10, <2>1 DEF CheckLimits, Rejected, ExGoto
  <2>4. CASE exTask' = [exTask EXCEPT ![t] = ExIdle]
    BY <1>4, <1>5, <2>1, <2>2, <2>4 DEF ExIdle
  <2>5. CASE WithinLimits(exTask[t]) /\ exTask' = [exTask EXCEPT ![t].pc = "margin"]
    <3>1. exTask' = [exTask EXCEPT ![t] = [exTask[t] EXCEPT !.pc = "margin"]]
      BY <1>6, <2>5 DEF ExPcs
    <3> QED
      BY <1>1, <2>1, <2>2, <2>5, <3>1, GateAdmits
  <2> QED
    BY <2>3, <2>4, <2>5
<1>11. ASSUME NEW t \in ExTasks, CheckMargin(t) PROVE GateBooks'
  <2>1. GateBooks /\ exMode = "Enforce"
    BY <1>8, <1>11 DEF CheckMargin
  <2>2. exTask[t].pc = "margin" /\ UNCHANGED <<exBooked, exHeld>>
    BY <1>11 DEF CheckMargin
  <2>3. exTask' = [exTask EXCEPT ![t] = ExIdle] \/ exTask' = [exTask EXCEPT ![t].pc = "send"]
    BY <1>11, <2>1 DEF CheckMargin, Rejected, ExGoto
  <2>4. CASE exTask' = [exTask EXCEPT ![t] = ExIdle]
    BY <1>4, <1>5, <2>1, <2>2, <2>4 DEF ExIdle
  <2>5. CASE exTask' = [exTask EXCEPT ![t].pc = "send"]
    <3>1. "send" \in ExPcs
      BY DEF ExPcs
    <3> QED
      BY <1>5, <1>6, <2>1, <2>2, <2>5, <3>1
  <2> QED
    BY <2>3, <2>4, <2>5
<1>12. ASSUME NEW t \in ExTasks, ExchangeFails(t) PROVE GateBooks'
  <2>1. GateBooks
    BY <1>12 DEF ExchangeFails, GateInv
  <2>2. exTask[t].pc = "send" /\ UNCHANGED <<exBooked, exHeld>> /\ exTask' = [exTask EXCEPT ![t] = ExIdle]
    BY <1>12 DEF ExchangeFails
  <2> QED
    BY <1>4, <1>5, <2>1, <2>2 DEF ExIdle
<1>13. ASSUME NEW t \in ExTasks, ExchangeFills(t) PROVE GateBooks'
  <2>1. PICK first : /\ exTask' = [exTask EXCEPT ![t].pc = "book", ![t].first = first]
                     /\ exClean' = (exClean /\ first = exTask[t].qty /\ exTask[t].action # "BuyLimit")
    BY <1>13 DEF ExchangeFills
  <2>2. exClean /\ first = exTask[t].qty /\ exTask[t].action # "BuyLimit"
    BY Zenon, <2>1
  <2>3. GateBooks
    BY <1>13, <2>2 DEF ExchangeFills, GateInv
  <2>4. /\ exTask'[t] = [exTask[t] EXCEPT !.pc = "book", !.first = first]
        /\ \A u \in ExTasks \ {t} : exTask'[u] = exTask[u]
    BY <1>1, <2>1 DEF ExShape
  <2>5. /\ exTask'[t].pc = "book" /\ exTask'[t].first = first
        /\ exTask'[t].action = exTask[t].action /\ exTask'[t].qty = exTask[t].qty
    BY <1>4, <2>4 DEF ExCall
  <2>6. /\ exTask[t].pc = "send" /\ exBooked' = exBooked
        /\ exHeld' = exHeld + Sign(exTask[t].action) * exTask[t].qty
    BY <1>13 DEF ExchangeFills
  <2>7. Rising'[t] = Rising[t] /\ Falling'[t] = Falling[t] /\ Bought[t] = 0 /\ Sold[t] = 0
    BY <2>5, <2>6 DEF Rising, Falling, Passed, Bought, Sold
  <2>8. Rising[t] \in Int /\ Falling[t] \in Int
    BY <1>1, GateTypes
  <2>9. exHeld' - exHeld = (exBooked' - exBooked) + (Bought'[t] - Bought[t]) - (Sold'[t] - Sold[t])
    <3>1. PICK q \in Int, h \in Int, k \in Int : q = exTask[t].qty /\ h = exHeld /\ k = exBooked
      BY <1>4
    <3>2. CASE exTask[t].action = "Sell"
      <4>1. Bought'[t] = 0 /\ Sold'[t] = q
        BY <2>5, <3>1, <3>2 DEF Bought, Sold
      <4>2. exHeld' = h - q
        BY <2>6, <3>1, <3>2 DEF Sign
      <4> QED
        BY <2>6, <2>7, <3>1, <4>1, <4>2
    <3>3. CASE exTask[t].action # "Sell"
      <4>1. Bought'[t] = q /\ Sold'[t] = 0
        BY <2>5, <3>1, <3>3 DEF Bought, Sold
      <4>2. exHeld' = h + q
        BY <2>6, <3>1, <3>3 DEF Sign
      <4> QED
        BY <2>6, <2>7, <3>1, <4>1, <4>2
    <3> QED
      BY <3>2, <3>3
  <2>10. exBooked' + Rising'[t] <= exBooked + Rising[t] /\ Falling'[t] - exBooked' <= Falling[t] - exBooked
    BY <1>4, <2>6, <2>7, <2>8
  <2>11. exTask'[t].first = exTask'[t].qty /\ exTask'[t].action # "BuyLimit"
    BY <2>2, <2>5
  <2> QED
    BY <1>1, <2>3, <2>4, <2>9, <2>10, <2>11, GateKept
<1>14. ASSUME NEW t \in ExTasks, BookFill(t) PROVE GateBooks'
  <2>1. GateBooks
    BY <1>14 DEF BookFill, GateInv
  <2>2. /\ exTask[t].pc = "book" /\ exHeld' = exHeld
        /\ exBooked' = exBooked + (IF exTask[t].action = "Buy" THEN exTask[t].first ELSE -exTask[t].first)
        /\ exTask' = [exTask EXCEPT ![t] = ExIdle]
    BY <1>14 DEF BookFill
  <2>3. exTask[t].first = exTask[t].qty /\ exTask[t].action \in {"Buy", "Sell"}
    BY <1>4, <2>1, <2>2 DEF GateBooks, ExCall, Actions
  <2>4. exTask'[t] = ExIdle /\ \A u \in ExTasks \ {t} : exTask'[u] = exTask[u]
    BY <1>3, <1>4, <2>2
  <2>5. Rising'[t] = 0 /\ Falling'[t] = 0 /\ Bought'[t] = 0 /\ Sold'[t] = 0 /\ exTask'[t].pc = "idle"
    BY <2>4 DEF ExIdle, Rising, Falling, Bought, Sold, Passed
  <2>6. PICK q \in Int, k \in Int, h \in Int : q = exTask[t].qty /\ k = exBooked /\ h = exHeld /\ q >= 0
    BY <1>4
  <2>7. CASE exTask[t].action = "Buy"
    <3>1. Rising[t] = q /\ Falling[t] = 0 /\ Bought[t] = q /\ Sold[t] = 0
      BY <2>2, <2>6, <2>7 DEF Rising, Falling, Bought, Sold, Passed
    <3>2. exBooked' = k + q
      BY <2>2, <2>3, <2>6, <2>7
    <3>3. /\ exHeld' - exHeld = (exBooked' - exBooked) + (Bought'[t] - Bought[t]) - (Sold'[t] - Sold[t])
          /\ exBooked' + Rising'[t] <= exBooked + Rising[t]
          /\ Falling'[t] - exBooked' <= Falling[t] - exBooked
      BY <2>2, <2>5, <2>6, <3>1, <3>2
    <3> QED
      BY <1>1, <2>1, <2>4, <2>5, <3>3, GateKept
  <2>8. CASE exTask[t].action = "Sell"
    <3>1. Rising[t] = 0 /\ Falling[t] = q /\ Bought[t] = 0 /\ Sold[t] = q
      BY <2>2, <2>6, <2>8 DEF Rising, Falling, Bought, Sold, Passed
    <3>2. exBooked' = k - q
      BY <2>2, <2>3, <2>6, <2>8
    <3>3. /\ exHeld' - exHeld = (exBooked' - exBooked) + (Bought'[t] - Bought[t]) - (Sold'[t] - Sold[t])
          /\ exBooked' + Rising'[t] <= exBooked + Rising[t]
          /\ Falling'[t] - exBooked' <= Falling[t] - exBooked
      BY <2>2, <2>5, <2>6, <3>1, <3>2
    <3> QED
      BY <1>1, <2>1, <2>4, <2>5, <3>3, GateKept
  <2> QED
    BY <2>3, <2>7, <2>8
<1>15. ASSUME NEW a \in Actions, NEW q \in 1..MaxOrder, execute_batch_orders(a, q) PROVE GateBooks'
  BY <1>15 DEF execute_batch_orders
<1>16. ASSUME NEW m \in GateModes, ExConfigure(m) PROVE GateBooks'
  BY <1>2, <1>16 DEF ExConfigure
<1>17. CASE KillSwitchTrigger \/ KillSwitchReset \/ WindowPasses \/ PauseEnds \/ refresh_margin_snapshot
  BY <1>2, <1>17 DEF KillSwitchTrigger, KillSwitchReset, WindowPasses, PauseEnds, refresh_margin_snapshot, ExRest
<1>18. CASE UNCHANGED exVars
  BY <1>2, <1>18 DEF exVars
<1> QED
  BY <1>7, <1>9, <1>10, <1>11, <1>12, <1>13, <1>14, <1>15, <1>16, <1>17, <1>18 DEF ExNext

\* With the gate enforced, market orders filled at once take the position past the limit by
\* at most an order for each other caller, for every finite set of callers, order size and
\* position limit (lib.rs execute_order_on_exchange, risk_controls.rs check_order).
THEOREM GateOvershoots == ExSpec => []GateOvershootBounded
<1>1. ExInit => GateInv
  <2> SUFFICES ASSUME ExInit PROVE GateInv
    OBVIOUS
  <2>1. exTask = [t \in ExTasks |-> ExIdle] /\ exBooked = 0 /\ exHeld = 0 /\ exMode = "unset" /\ exClean = TRUE
    BY DEF ExInit
  <2>2. ExIdle \in ExCall /\ ExIdle.pc = "idle"
    BY GateAssumption DEF ExIdle, ExCall, ExPcs, Actions
  <2>3. ExShape
    BY <2>1, <2>2 DEF ExShape
  <2>4. ASSUME NEW f, f = [t \in ExTasks |-> 0] PROVE Total(f) = 0
    <3>1. IsFiniteSet(ExTasks) /\ \A t \in ExTasks : f[t] \in 0..0
      BY <2>4, GateAssumption
    <3>2. SumFunctionOnSet(f, ExTasks) \in Nat /\ SumFunctionOnSet(f, ExTasks) <= Cardinality(ExTasks) * 0
      BY <3>1, SumBounded
    <3>3. Cardinality(ExTasks) * 0 = 0
      BY GateAssumption, FS_CardinalityType
    <3> QED
      BY <3>2, <3>3 DEF Total
  <2>5. /\ Rising = [t \in ExTasks |-> 0] /\ Falling = [t \in ExTasks |-> 0]
        /\ Bought = [t \in ExTasks |-> 0] /\ Sold = [t \in ExTasks |-> 0]
    BY <2>1, <2>2 DEF Rising, Falling, Bought, Sold, Passed
  <2>6. Total(Rising) = 0 /\ Total(Falling) = 0 /\ Total(Bought) = 0 /\ Total(Sold) = 0
    BY <2>4, <2>5
  <2>7. 0 <= Overshoot
    <3>1. Cardinality(ExTasks) \in Nat /\ Cardinality(ExTasks) # 0
      BY GateAssumption, FS_CardinalityType, FS_EmptySet
    <3>2. Cardinality(ExTasks) - 1 \in Nat /\ MaxOrder \in Nat /\ MaxPosition \in Nat
      BY <3>1, GateAssumption
    <3>3. (Cardinality(ExTasks) - 1) * MaxOrder \in Nat
      BY <3>2
    <3> QED
      BY <3>2, <3>3 DEF Overshoot
  <2>8. GateBooks
    BY <2>1, <2>2, <2>6, <2>7 DEF GateBooks
  <2> QED
    BY <2>3, <2>8 DEF GateInv
<1> QED
  BY <1>1, GateStep, GateBounds, PTL DEF ExSpec
-----------------------------------------------------------------------------
(* The sliding window. *)

SwIndexes == 0..(Segments - 1)
SwPcs == {"idle", "load", "index", "clear", "store", "stamp", "sum", "pick", "count"}
SwCall == [pc : SwPcs, now : Nat, last : Nat, idx : SwIndexes, todo : SUBSET SwIndexes, total : Nat]

WindowShape ==
    /\ rlTime \in Nat
    /\ sw \in [count : [SwIndexes -> Nat], idx : SwIndexes, last : Nat]
    /\ swThread \in [RlThreads -> SwCall]
    /\ \A t \in RlThreads : swThread[t].pc = "sum" => swThread[t].todo # {}

\* What the window holds, and what a thread that is summing will have read at the end
\* if nothing changes from here on.
Admitted == SumFunctionOnSet(sw.count, SwIndexes)
Foreseen(t) == swThread[t].total + SumFunctionOnSet(sw.count, swThread[t].todo)

\* The threads that have passed and not counted yet, or will pass below the rate plus j.
Passing(j) ==
    {t \in RlThreads : \/ swThread[t].pc \in {"pick", "count"}
                       \/ swThread[t].pc = "sum" /\ Foreseen(t) < WindowRate + j}

\* The invariant.  The case j = 0 alone is not inductive: a rotation that clears a segment
\* ahead of a sum lowers what it foresees, but then by no more than what the window loses.
WindowBudget ==
    \A j \in Nat : Admitted + Cardinality(Passing(j)) <= WindowRate + Cardinality(RlThreads) - 1 + j

WindowInv == WindowShape /\ WindowBudget

\* The threads that pass are finitely many.
LEMMA PassingFew ==
    ASSUME NEW R \in SUBSET RlThreads
    PROVE  /\ IsFiniteSet(R) /\ Cardinality(R) \in Nat
           /\ Cardinality(RlThreads) \in Nat /\ Cardinality(RlThreads) >= 1
           /\ Cardinality(R) <= Cardinality(RlThreads)
           /\ \A Q \in SUBSET R : Cardinality(Q) \in Nat /\ Cardinality(Q) <= Cardinality(R)
           /\ \A t \in R : Cardinality(R \ {t}) = Cardinality(R) - 1
<1>1. IsFiniteSet(RlThreads) /\ RlThreads # {}
  BY LimiterAssumption
<1>2. IsFiniteSet(R) /\ Cardinality(R) <= Cardinality(RlThreads)
  BY <1>1, FS_Subset
<1>3. Cardinality(R) \in Nat /\ Cardinality(RlThreads) \in Nat
  BY <1>1, <1>2, FS_CardinalityType
<1>4. Cardinality(RlThreads) # 0
  BY <1>1, FS_EmptySet
<1>5. \A Q \in SUBSET R : IsFiniteSet(Q) /\ Cardinality(Q) <= Cardinality(R)
  BY <1>2, FS_Subset
<1>6. \A Q \in SUBSET R : Cardinality(Q) \in Nat
  BY <1>5, FS_CardinalityType
<1>7. \A t \in R : Cardinality(R \ {t}) = Cardinality(R) - 1
  BY <1>2, FS_RemoveElement
<1> QED
  BY <1>2, <1>3, <1>4, <1>5, <1>6, <1>7

\* The segments have a sum, all of them or some.
LEMMA SegmentSums ==
    ASSUME NEW f \in [SwIndexes -> Nat]
    PROVE  /\ IsFiniteSet(SwIndexes) /\ SwIndexes # {}
           /\ \A K \in SUBSET SwIndexes :
                /\ IsFiniteSet(K) /\ SumFunctionOnSet(f, K) \in Nat
                /\ SumFunctionOnSet(f, {}) = 0
                /\ \A i \in K : SumFunctionOnSet(f, K) = f[i] + SumFunctionOnSet(f, K \ {i})
<1>1. IsFiniteSet(SwIndexes)
  <2>1. 0 \in Int /\ Segments - 1 \in Int
    BY LimiterAssumption
  <2> QED
    BY <2>1, FS_Interval DEF SwIndexes
<1>2. 0 \in SwIndexes
  BY LimiterAssumption DEF SwIndexes
<1>3. ASSUME NEW K \in SUBSET SwIndexes
      PROVE  /\ IsFiniteSet(K) /\ SumFunctionOnSet(f, K) \in Nat
             /\ SumFunctionOnSet(f, {}) = 0
             /\ \A i \in K : SumFunctionOnSet(f, K) = f[i] + SumFunctionOnSet(f, K \ {i})
  <2>1. IsFiniteSet(K)
    BY <1>1, FS_Subset
  <2>2. \A x \in SwIndexes : f[x] \in Nat
    OBVIOUS
  <2>3. SumFunctionOnSet(f, K) \in Nat
    BY <1>1, <2>2, SumOfPart
  <2>4. \A x \in K : f[x] \in Int
    BY <2>2
  <2> QED
    BY <2>1, <2>3, <2>4, SumWithout
<1> QED
  BY <1>1, <1>2, <1>3

LEMMA WindowNumbers ==
    ASSUME WindowShape
    PROVE  /\ sw.count \in [SwIndexes -> Nat] /\ Admitted \in Nat
           /\ \A t \in RlThreads : Foreseen(t) \in Nat
<1>1. sw.count \in [SwIndexes -> Nat]
  BY DEF WindowShape
<1>2. ASSUME NEW t \in RlThreads PROVE Foreseen(t) \in Nat
  <2>1. swThread[t].todo \in SUBSET SwIndexes /\ swThread[t].total \in Nat
    BY DEF WindowShape, SwCall
  <2>2. SumFunctionOnSet(sw.count, swThread[t].todo) \in Nat
    BY <1>1, <2>1, SegmentSums
  <2> QED
    BY <2>1, <2>2 DEF Foreseen
<1>3. Admitted \in Nat
  BY <1>1, SegmentSums DEF Admitted
<1> QED
  BY <1>1, <1>2, <1>3

LEMMA WindowNumbersNext ==
    WindowShape' => /\ sw'.count \in [SwIndexes -> Nat] /\ Admitted' \in Nat
                    /\ \A t \in RlThreads : Foreseen(t)' \in Nat
<1>1. WindowShape => /\ sw.count \in [SwIndexes -> Nat] /\ Admitted \in Nat
                     /\ \A t \in RlThreads : Foreseen(t) \in Nat
  BY WindowNumbers
<1>2. (WindowShape => /\ sw.count \in [SwIndexes -> Nat] /\ Admitted \in Nat
                      /\ \A t \in RlThreads : Foreseen(t) \in Nat)'
  BY <1>1, PTL
<1>3. SwIndexes' = SwIndexes
  BY DEF SwIndexes
<1> QED
  BY <1>2, <1>3

\* The budget is enough: nobody passes that has not been counted.
LEMMA WindowBounds == WindowInv => WindowOvershootBounded
<1> SUFFICES ASSUME WindowInv PROVE WindowOvershootBounded
  OBVIOUS
<1>1. Admitted + Cardinality(Passing(0)) <= WindowRate + Cardinality(RlThreads) - 1 + 0
  BY DEF WindowInv, WindowBudget
<1>2. Cardinality(Passing(0)) \in Nat /\ Cardinality(RlThreads) \in Nat
  BY PassingFew DEF Passing
<1>3. Admitted \in Nat /\ WindowRate \in Nat
  BY WindowNumbers, LimiterAssumption DEF WindowInv
<1>4. Admitted <= WindowRate + Cardinality(RlThreads) - 1
  BY <1>1, <1>2, <1>3
<1> QED
  BY <1>4 DEF WindowOvershootBounded, Admitted, SwIndexes

\* A thread that moves leaves the others as they are.
LEMMA OthersPass ==
    ASSUME NEW t \in RlThreads, sw' = sw, \A u \in RlThreads \ {t} : swThread'[u] = swThread[u]
    PROVE  /\ Admitted' = Admitted
           /\ \A j \in Nat : Passing(j)' \subseteq Passing(j) \cup {t}
           /\ \A j \in Nat : swThread'[t].pc \notin {"sum", "pick", "count"} => Passing(j)' \subseteq Passing(j) \ {t}
           /\ Foreseen(t)' = swThread'[t].total + SumFunctionOnSet(sw.count, swThread'[t].todo)
<1>1. Admitted' = Admitted
  BY DEF Admitted, SwIndexes
<1>2. \A u \in RlThreads \ {t} : Foreseen(u)' = Foreseen(u)
  BY DEF Foreseen
<1>3. \A j \in Nat : Passing(j)' \subseteq Passing(j) \cup {t}
  BY <1>2 DEF Passing
<1>4. \A j \in Nat : swThread'[t].pc \notin {"sum", "pick", "count"} => Passing(j)' \subseteq Passing(j) \ {t}
  BY <1>2 DEF Passing
<1>5. Foreseen(t)' = swThread'[t].total + SumFunctionOnSet(sw.count, swThread'[t].todo)
  BY DEF Foreseen
<1> QED
  BY <1>1, <1>3, <1>4, <1>5

\* The budget holds as long as no thread joins those that pass.
LEMMA BudgetKept ==
    ASSUME WindowInv, Admitted' = Admitted, \A j \in Nat : Passing(j)' \subseteq Passing(j)
    PROVE  WindowBudget'
<1> SUFFICES ASSUME NEW j \in Nat
             PROVE  Admitted' + Cardinality(Passing(j)') <= WindowRate + Cardinality(RlThreads) - 1 + j
  BY DEF WindowBudget
<1>1. Admitted + Cardinality(Passing(j)) <= WindowRate + Cardinality(RlThreads) - 1 + j
  BY DEF WindowInv, WindowBudget
<1>2. Passing(j) \in SUBSET RlThreads /\ Passing(j)' \in SUBSET Passing(j)
  BY DEF Passing
<1>3. /\ Cardinality(Passing(j)) \in Nat /\ Cardinality(Passing(j)') \in Nat
      /\ Cardinality(Passing(j)') <= Cardinality(Passing(j)) /\ Cardinality(RlThreads) \in Nat
  BY <1>2, PassingFew
<1>4. Admitted \in Nat /\ WindowRate \in Nat
  BY WindowNumbers, LimiterAssumption DEF WindowInv
<1> QED
  BY <1>1, <1>3, <1>4

\* A step of one thread keeps the shape.
LEMMA CallMoves ==
    ASSUME WindowShape, NEW t \in RlThreads, NEW new \in SwCall, new.pc = "sum" => new.todo # {},
           swThread' = [swThread EXCEPT ![t] = new], rlTime' = rlTime,
           sw' \in [count : [SwIndexes -> Nat], idx : SwIndexes, last : Nat]
    PROVE  WindowShape' /\ swThread'[t] = new /\ \A u \in RlThreads \ {t} : swThread'[u] = swThread[u]
<1>1. swThread' \in [RlThreads -> SwCall] /\ swThread'[t] = new /\ \A u \in RlThreads \ {t} : swThread'[u] = swThread[u]
  BY DEF WindowShape
<1>2. SwIndexes' = SwIndexes /\ SwCall' = SwCall
  BY DEF SwIndexes, SwCall
<1>3. \A u \in RlThreads : swThread'[u].pc = "sum" => swThread'[u].todo # {}
  BY <1>1 DEF WindowShape
<1> QED
  BY <1>1, <1>2, <1>3 DEF WindowShape

\* Steps outside the sum admit nobody.
LEMMA WindowIdles ==
    ASSUME WindowInv, NEW t \in RlThreads, NEW new \in SwCall, new.pc \notin {"sum", "pick", "count"},
           swThread' = [swThread EXCEPT ![t] = new], rlTime' = rlTime, sw' = sw
    PROVE  WindowInv'
<1>1. sw' \in [count : [SwIndexes -> Nat], idx : SwIndexes, last : Nat]
  BY DEF WindowInv, WindowShape
<1>2. WindowShape' /\ swThread'[t] = new /\ \A u \in RlThreads \ {t} : swThread'[u] = swThread[u]
  BY <1>1, CallMoves DEF WindowInv
<1>3. Admitted' = Admitted /\ \A j \in Nat : Passing(j)' \subseteq Passing(j)
  BY <1>2, OthersPass
<1> QED
  BY <1>2, <1>3, BudgetKept DEF WindowInv

\* A thread that starts to sum foresees what the window holds.
LEMMA WindowSums ==
    ASSUME WindowInv, NEW t \in RlThreads, swThread' = [swThread EXCEPT ![t] = ToSum(swThread[t])],
           rlTime' = rlTime, sw'.count = sw.count,
           sw' \in [count : [SwIndexes -> Nat], idx : SwIndexes, last : Nat]
    PROVE  WindowInv'
<1> DEFINE new == ToSum(swThread[t])
<1>1. sw.count \in [SwIndexes -> Nat] /\ SwIndexes # {} /\ Admitted \in Nat
  BY WindowNumbers, SegmentSums DEF WindowInv
<1>2. new \in SwCall /\ new.todo = SwIndexes /\ new.total = 0 /\ new.pc = "sum"
  BY DEF WindowInv, WindowShape, ToSum, SwCall, SwPcs, SwIndexes
<1> HIDE DEF new
<1>3. WindowShape' /\ swThread'[t] = new /\ \A u \in RlThreads \ {t} : swThread'[u] = swThread[u]
  <2>1. swThread' = [swThread EXCEPT ![t] = new]
    BY DEF new
  <2> QED
    BY <1>1, <1>2, <2>1, CallMoves DEF WindowInv
<1>4. Admitted' = Admitted /\ Foreseen(t)' = Admitted
  BY <1>1, <1>2, <1>3 DEF Admitted, Foreseen, SwIndexes
<1>5. \A u \in RlThreads \ {t} : Foreseen(u)' = Foreseen(u)
  BY <1>3 DEF Foreseen
<1> SUFFICES ASSUME NEW j \in Nat
             PROVE  Admitted' + Cardinality(Passing(j)') <= WindowRate + Cardinality(RlThreads) - 1 + j
  BY <1>3 DEF WindowInv, WindowBudget
<1>6. Passing(j) \in SUBSET RlThreads /\ Passing(j)' \in SUBSET RlThreads
  BY DEF Passing
<1>7. WindowRate \in Nat /\ Cardinality(Passing(j)') \in Nat /\ Cardinality(Passing(j)) \in Nat
      /\ Cardinality(RlThreads) \in Nat /\ Cardinality(Passing(j)') <= Cardinality(RlThreads)
  BY <1>6, PassingFew, LimiterAssumption
<1>8. CASE Admitted < WindowRate + j
  BY <1>1, <1>4, <1>7, <1>8
<1>9. CASE ~(Admitted < WindowRate + j)
  <2>1. Passing(j)' \subseteq Passing(j)
    BY <1>2, <1>3, <1>4, <1>5, <1>9 DEF Passing
  <2>2. Cardinality(Passing(j)') <= Cardinality(Passing(j))
    BY <1>6, <2>1, PassingFew
  <2>3. Admitted + Cardinality(Passing(j)) <= WindowRate + Cardinality(RlThreads) - 1 + j
    BY DEF WindowInv, WindowBudget
  <2> QED
    BY <1>1, <1>4, <1>7, <2>2, <2>3
<1> QED
  BY <1>8, <1>9

\* A load of one segment leaves what is foreseen; the last one decides.
LEMMA WindowLoads == ASSUME WindowInv, NEW t \in RlThreads, SumSegment(t), rlTime' = rlTime PROVE WindowInv'
<1> DEFINE self == swThread[t]
           i == Min(self.todo)
           total == self.total + sw.count[i]
           new == IF self.todo # {i} THEN [self EXCEPT !.todo = self.todo \ {i}, !.total = total]
                  ELSE IF total >= WindowRate THEN SwIdle ELSE [SwIdle EXCEPT !.pc = "pick"]
<1>1. self \in SwCall /\ self.pc = "sum" /\ self.todo # {} /\ sw' = sw
  BY DEF SumSegment, WindowInv, WindowShape
<1>2. sw.count \in [SwIndexes -> Nat]
  BY WindowNumbers DEF WindowInv
<1>3. self.todo \in SUBSET SwIndexes /\ self.total \in Nat
  BY <1>1 DEF SwCall
<1>4. i \in self.todo
  <2>1. self.todo \in SUBSET Nat
    BY <1>3 DEF SwIndexes
  <2> QED
    BY <1>1, <2>1, MinInSet
<1>5. total \in Nat
  BY <1>2, <1>3, <1>4
<1>6. swThread' = [swThread EXCEPT ![t] = new]
  BY Zenon DEF SumSegment
<1>7. Foreseen(t) = self.total + (sw.count[i] + SumFunctionOnSet(sw.count, self.todo \ {i}))
      /\ SumFunctionOnSet(sw.count, self.todo \ {i}) \in Nat
      /\ SumFunctionOnSet(sw.count, {}) = 0
  <2>1. self.todo \ {i} \in SUBSET SwIndexes
    BY <1>3
  <2> QED
    BY <1>2, <1>3, <1>4, <2>1, SegmentSums DEF Foreseen
<1>8. sw.count[i] \in Nat
  BY <1>2, <1>3, <1>4
<1>9. Foreseen(t) = total + SumFunctionOnSet(sw.count, self.todo \ {i})
  <2> HIDE DEF i
  <2>1. PICK a \in Nat, b \in Nat, c \in Nat :
           a = self.total /\ b = sw.count[i] /\ c = SumFunctionOnSet(sw.count, self.todo \ {i})
    BY <1>3, <1>7, <1>8
  <2>2. a + (b + c) = (a + b) + c
    OBVIOUS
  <2> QED
    BY <1>7, <2>1, <2>2
<1>10. 0 \in SwIndexes /\ {} \in SUBSET SwIndexes
  BY LimiterAssumption DEF SwIndexes
<1> HIDE DEF i, total
<1>11. new \in SwCall /\ (new.pc = "sum" => new.todo # {})
  <2>1. CASE self.todo # {i}
    <3>1. new = [self EXCEPT !.todo = self.todo \ {i}, !.total = total]
      BY <2>1
    <3>2. self.todo \ {i} # {} /\ self.todo \ {i} \in SUBSET SwIndexes
      BY <1>3, <1>4, <2>1
    <3> QED
      BY <1>1, <1>5, <3>1, <3>2 DEF SwCall
  <2>2. CASE self.todo = {i}
    <3>1. SwIdle \in SwCall /\ [SwIdle EXCEPT !.pc = "pick"] \in SwCall
      BY <1>10 DEF SwIdle, SwCall, SwPcs
    <3>2. SwIdle.pc # "sum" /\ [SwIdle EXCEPT !.pc = "pick"].pc # "sum"
      BY DEF SwIdle
    <3> QED
      BY <2>2, <3>1, <3>2
  <2> QED
    BY <2>1, <2>2
<1> HIDE DEF new
<1>12. WindowShape' /\ swThread'[t] = new /\ \A u \in RlThreads \ {t} : swThread'[u] = swThread[u]
  <2>1. sw' \in [count : [SwIndexes -> Nat], idx : SwIndexes, last : Nat]
    BY <1>1 DEF WindowInv, WindowShape
  <2> QED
    BY <1>6, <1>11, <2>1, CallMoves DEF WindowInv
<1>13. /\ Admitted' = Admitted /\ \A j \in Nat : Passing(j)' \subseteq Passing(j) \cup {t}
       /\ \A j \in Nat : new.pc \notin {"sum", "pick", "count"} => Passing(j)' \subseteq Passing(j) \ {t}
       /\ Foreseen(t)' = new.total + SumFunctionOnSet(sw.count, new.todo)
  BY <1>1, <1>12, OthersPass
<1>14. ASSUME NEW j \in Nat PROVE Passing(j)' \subseteq Passing(j)
  <2>1. CASE self.todo # {i}
    <3>1. new.pc = "sum" /\ new.total = total /\ new.todo = self.todo \ {i}
      BY <1>1, <2>1 DEF new, SwCall
    <3>2. Foreseen(t)' = Foreseen(t)
      BY <1>9, <1>13, <3>1
    <3>3. t \in Passing(j)' => t \in Passing(j)
      BY <1>1, <1>12, <3>1, <3>2 DEF Passing
    <3> QED
      BY <1>13, <3>3
  <2>2. CASE self.todo = {i} /\ total >= WindowRate
    <3>1. new.pc = "idle"
      BY <2>2 DEF new, SwIdle
    <3> QED
      BY <1>13, <3>1
  <2>3. CASE self.todo = {i} /\ ~(total >= WindowRate)
    <3>1. self.todo \ {i} = {}
      BY <2>3
    <3>2. Foreseen(t) = total
      <4>1. SumFunctionOnSet(sw.count, self.todo \ {i}) = 0
        BY <1>7, <3>1
      <4> QED
        BY <1>5, <1>9, <4>1
    <3>3. total < WindowRate + j
      BY <1>5, <2>3, LimiterAssumption
    <3>4. t \in Passing(j)
      BY <1>1, <3>2, <3>3 DEF Passing
    <3> QED
      BY <1>13, <3>4
  <2> QED
    BY <2>1, <2>2, <2>3
<1> QED
  BY <1>12, <1>13, <1>14, BudgetKept DEF WindowInv

\* Clearing a segment lowers what a thread foresees by no more than what the window holds.
LEMMA WindowClears == ASSUME WindowInv, NEW t \in RlThreads, ClearSegment(t), rlTime' = rlTime PROVE WindowInv'
<1>1. PICK i \in swThread[t].todo :
        /\ sw' = [sw EXCEPT !.count = [sw.count EXCEPT ![i] = 0]]
        /\ swThread' = [swThread EXCEPT ![t] = [swThread[t] EXCEPT !.todo = swThread[t].todo \ {i},
                                                   !.pc = IF swThread[t].todo = {i} THEN "store" ELSE "clear"]]
  BY DEF ClearSegment, WindowInv, WindowShape, SwCall
<1> DEFINE new == [swThread[t] EXCEPT !.todo = swThread[t].todo \ {i},
                                      !.pc = IF swThread[t].todo = {i} THEN "store" ELSE "clear"]
           f == sw.count
           e == [sw.count EXCEPT ![i] = 0]
           c == sw.count[i]
<1>2. swThread[t] \in SwCall /\ f \in [SwIndexes -> Nat] /\ Admitted \in Nat
  BY WindowNumbers DEF WindowInv, WindowShape
<1>3. i \in SwIndexes /\ c \in Nat /\ e \in [SwIndexes -> Nat]
  BY <1>1, <1>2 DEF SwCall
<1>4. new \in SwCall /\ new.pc \in {"store", "clear"}
  BY <1>2 DEF SwCall, SwPcs
<1>5. sw'.count = e /\ sw' \in [count : [SwIndexes -> Nat], idx : SwIndexes, last : Nat]
  <2> HIDE DEF e
  <2>1. sw' = [sw EXCEPT !.count = e]
    BY <1>1 DEF e
  <2> QED
    BY <1>3, <2>1 DEF WindowInv, WindowShape
<1> HIDE DEF new, f, e, c
<1>6. WindowShape' /\ swThread'[t] = new /\ \A u \in RlThreads \ {t} : swThread'[u] = swThread[u]
  <2>1. swThread' = [swThread EXCEPT ![t] = new] /\ (new.pc = "sum" => new.todo # {})
    BY <1>1, <1>4 DEF new
  <2> QED
    BY <1>4, <1>5, <2>1, CallMoves DEF WindowInv
<1>7. e[i] = 0 /\ f[i] = c /\ \A x \in SwIndexes \ {i} : e[x] = f[x]
  BY <1>2, <1>3 DEF e, f, c
<1>8. ASSUME NEW K \in SUBSET SwIndexes
      PROVE  SumFunctionOnSet(e, K) = IF i \in K THEN SumFunctionOnSet(f, K) - c ELSE SumFunctionOnSet(f, K)
  <2>1. IsFiniteSet(K) /\ IsFiniteSet(K \ {i}) /\ K \ {i} \in SUBSET SwIndexes
    BY <1>2, SegmentSums
  <2>2. \A x \in K \ {i} : f[x] \in Int /\ e[x] = f[x]
    BY <1>2, <1>7
  <2>3. SumFunctionOnSet(f, K \ {i}) = SumFunctionOnSet(e, K \ {i})
    BY <2>1, <2>2, SumSame
  <2>4. CASE i \in K
    <3>1. SumFunctionOnSet(f, K) = f[i] + SumFunctionOnSet(f, K \ {i}) /\ SumFunctionOnSet(f, K \ {i}) \in Nat
      BY <1>2, <2>1, <2>4, SegmentSums
    <3>2. SumFunctionOnSet(e, K) = e[i] + SumFunctionOnSet(e, K \ {i})
      BY <1>3, <2>4, SegmentSums
    <3> QED
      BY <1>3, <1>7, <2>3, <2>4, <3>1, <3>2
  <2>5. CASE i \notin K
    <3>1. K \ {i} = K
      BY <2>5
    <3> QED
      BY <2>3, <2>5, <3>1
  <2> QED
    BY <2>4, <2>5
<1>9. Admitted' = Admitted - c
  BY <1>3, <1>5, <1>8 DEF Admitted, SwIndexes, f
<1>10. ASSUME NEW u \in RlThreads \ {t} PROVE Foreseen(u) \in Nat /\ Foreseen(u)' \in Nat /\ Foreseen(u) <= Foreseen(u)' + c
  <2>1. swThread'[u] = swThread[u] /\ swThread[u].todo \in SUBSET SwIndexes /\ swThread[u].total \in Nat
    BY <1>6 DEF WindowInv, WindowShape, SwCall
  <2>2. PICK K \in SUBSET SwIndexes, a \in Nat : K = swThread[u].todo /\ a = swThread[u].total
    BY <2>1
  <2>3. Foreseen(u) = a + SumFunctionOnSet(f, K) /\ Foreseen(u)' = a + SumFunctionOnSet(e, K)
    BY <1>5, <2>1, <2>2 DEF Foreseen, f
  <2>4. SumFunctionOnSet(f, K) \in Nat /\ SumFunctionOnSet(e, K) \in Nat
    BY <1>2, <1>3, SegmentSums
  <2>5. SumFunctionOnSet(f, K) <= SumFunctionOnSet(e, K) + c
    BY <1>3, <1>8, <2>4
  <2> QED
    BY <1>3, <2>3, <2>4, <2>5
<1> SUFFICES ASSUME NEW j \in Nat
             PROVE  Admitted' + Cardinality(Passing(j)') <= WindowRate + Cardinality(RlThreads) - 1 + j
  BY <1>6 DEF WindowInv, WindowBudget
<1>11. Passing(j)' \subseteq Passing(j + c)
  <2> SUFFICES ASSUME NEW u \in Passing(j)' PROVE u \in Passing(j + c)
    OBVIOUS
  <2>1. u \in RlThreads \ {t} /\ swThread'[u] = swThread[u]
    BY <1>4, <1>6 DEF Passing
  <2>2. CASE swThread[u].pc \in {"pick", "count"}
    BY <2>1, <2>2 DEF Passing
  <2>3. CASE swThread[u].pc \notin {"pick", "count"}
    <3>1. swThread[u].pc = "sum" /\ Foreseen(u)' < WindowRate + j
      BY <2>1, <2>3 DEF Passing
    <3>2. Foreseen(u) < WindowRate + (j + c)
      BY <1>3, <1>10, <2>1, <3>1, LimiterAssumption
    <3> QED
      BY <2>1, <3>1, <3>2 DEF Passing
  <2> QED
    BY <2>2, <2>3
<1>12. j + c \in Nat
  BY <1>3
<1>13. Admitted + Cardinality(Passing(j + c)) <= WindowRate + Cardinality(RlThreads) - 1 + (j + c)
  BY <1>12 DEF WindowInv, WindowBudget
<1>14. Passing(j + c) \in SUBSET RlThreads /\ Passing(j)' \in SUBSET Passing(j + c)
  BY <1>11 DEF Passing
<1>15. /\ Cardinality(Passing(j + c)) \in Nat /\ Cardinality(Passing(j)') \in Nat
       /\ Cardinality(Passing(j)') <= Cardinality(Passing(j + c)) /\ Cardinality(RlThreads) \in Nat
  BY <1>14, PassingFew
<1>16. WindowRate \in Nat
  BY LimiterAssumption
<1> QED
  BY <1>2, <1>3, <1>9, <1>13, <1>15, <1>16

\* A thread that counts its request no longer passes.
LEMMA WindowCounts == ASSUME WindowInv, NEW t \in RlThreads, CountRequest(t), rlTime' = rlTime PROVE WindowInv'
<1> DEFINE i == swThread[t].idx
           f == sw.count
           e == [sw.count EXCEPT ![i] = sw.count[i] + 1]
<1>1. /\ swThread[t].pc = "count" /\ sw' = [sw EXCEPT !.count = e]
      /\ swThread' = [swThread EXCEPT ![t] = SwIdle]
  BY DEF CountRequest
<1>2. f \in [SwIndexes -> Nat] /\ Admitted \in Nat /\ i \in SwIndexes
  BY WindowNumbers DEF WindowInv, WindowShape, SwCall
<1>3. f[i] + 1 \in Nat
  BY <1>2
<1>4. e \in [SwIndexes -> Nat] /\ e[i] = f[i] + 1 /\ \A x \in SwIndexes \ {i} : e[x] = f[x]
  BY <1>2, <1>3
<1> HIDE DEF e
<1>5. sw'.count = e /\ sw' \in [count : [SwIndexes -> Nat], idx : SwIndexes, last : Nat]
  BY <1>1, <1>4 DEF WindowInv, WindowShape
<1>6. SwIdle \in SwCall /\ SwIdle.pc = "idle"
  BY LimiterAssumption DEF SwIdle, SwCall, SwPcs, SwIndexes
<1>7. WindowShape' /\ swThread'[t] = SwIdle /\ \A u \in RlThreads \ {t} : swThread'[u] = swThread[u]
  BY <1>1, <1>5, <1>6, CallMoves DEF WindowInv
<1> HIDE DEF i, f
<1>8. Admitted' = Admitted + 1
  <2>1. IsFiniteSet(SwIndexes) /\ f \in [SwIndexes -> Int] /\ e \in [SwIndexes -> Int]
    BY <1>2, <1>4, SegmentSums
  <2>2. SumFunctionOnSet(e, SwIndexes) = SumFunctionOnSet(f, SwIndexes) - f[i] + e[i]
    BY <1>2, <1>4, <2>1, SumUpdated
  <2>3. Admitted = SumFunctionOnSet(f, SwIndexes) /\ Admitted' = SumFunctionOnSet(e, SwIndexes)
    BY <1>5 DEF Admitted, SwIndexes, f
  <2>4. f[i] \in Nat
    BY <1>2
  <2> QED
    BY <1>2, <1>4, <2>2, <2>3, <2>4
<1>9. ASSUME NEW u \in RlThreads \ {t} PROVE Foreseen(u) \in Nat /\ Foreseen(u)' \in Nat /\ Foreseen(u) <= Foreseen(u)'
  <2>1. swThread'[u] = swThread[u] /\ swThread[u].todo \in SUBSET SwIndexes /\ swThread[u].total \in Nat
    BY <1>7 DEF WindowInv, WindowShape, SwCall
  <2>2. PICK K \in SUBSET SwIndexes, a \in Nat : K = swThread[u].todo /\ a = swThread[u].total
    BY <2>1
  <2>3. Foreseen(u) = a + SumFunctionOnSet(f, K) /\ Foreseen(u)' = a + SumFunctionOnSet(e, K)
    BY <1>5, <2>1, <2>2 DEF Foreseen, f
  <2>4. SumFunctionOnSet(f, K) \in Nat /\ SumFunctionOnSet(e, K) \in Nat /\ IsFiniteSet(K)
    BY <1>2, <1>4, SegmentSums
  <2>5. \A x \in K : f[x] \in Int /\ e[x] \in Int /\ f[x] <= e[x]
    BY <1>2, <1>4
  <2>6. SumFunctionOnSet(f, K) <= SumFunctionOnSet(e, K)
    BY <2>4, <2>5, SumOrdered
  <2> QED
    BY <2>3, <2>4, <2>6
<1> SUFFICES ASSUME NEW j \in Nat
             PROVE  Admitted' + Cardinality(Passing(j)') <= WindowRate + Cardinality(RlThreads) - 1 + j
  BY <1>7 DEF WindowInv, WindowBudget
<1>10. Passing(j)' \subseteq Passing(j) \ {t}
  <2> SUFFICES ASSUME NEW u \in Passing(j)' PROVE u \in Passing(j) \ {t}
    OBVIOUS
  <2>1. u \in RlThreads \ {t} /\ swThread'[u] = swThread[u]
    BY <1>6, <1>7 DEF Passing
  <2>2. CASE swThread[u].pc \in {"pick", "count"}
    BY <2>1, <2>2 DEF Passing
  <2>3. CASE swThread[u].pc \notin {"pick", "count"}
    <3>1. swThread[u].pc = "sum" /\ Foreseen(u)' < WindowRate + j
      BY <2>1, <2>3 DEF Passing
    <3>2. Foreseen(u) < WindowRate + j
      BY <1>9, <2>1, <3>1, LimiterAssumption
    <3> QED
      BY <2>1, <3>1, <3>2 DEF Passing
  <2> QED
    BY <2>2, <2>3
<1>11. t \in Passing(j) /\ Passing(j) \in SUBSET RlThreads
  BY <1>1 DEF Passing
<1>12. /\ Cardinality(Passing(j)) \in Nat /\ Cardinality(RlThreads) \in Nat
       /\ Cardinality(Passing(j) \ {t}) = Cardinality(Passing(j)) - 1
  BY <1>11, PassingFew
<1>13. Passing(j) \ {t} \in SUBSET RlThreads /\ Passing(j)' \in SUBSET (Passing(j) \ {t})
  BY <1>10, <1>11
<1>14. Cardinality(Passing(j)') \in Nat /\ Cardinality(Passing(j)') <= Cardinality(Passing(j) \ {t})
  BY <1>13, PassingFew
<1>15. Admitted + Cardinality(Passing(j)) <= WindowRate + Cardinality(RlThreads) - 1 + j
  BY DEF WindowInv, WindowBudget
<1>16. WindowRate \in Nat
  BY LimiterAssumption
<1> QED
  BY <1>2, <1>8, <1>12, <1>14, <1>15, <1>16

\* Every step of the limiters keeps the window's invariant.
LEMMA WindowStep == WindowInv /\ [RlNext]_rlVars => WindowInv'
<1> SUFFICES ASSUME WindowInv, [RlNext]_rlVars PROVE WindowInv'
  OBVIOUS
<1>0. /\ rlTime \in Nat /\ sw \in [count : [SwIndexes -> Nat], idx : SwIndexes, last : Nat]
      /\ \A t \in RlThreads : swThread[t] \in SwCall
      /\ 0 \in SwIndexes
  BY LimiterAssumption DEF WindowInv, WindowShape, SwIndexes
<1>1. ASSUME NEW t \in RlThreads, SwBegin(t), rlTime' = rlTime PROVE WindowInv'
  <2>1. PICK new : new = [SwIdle EXCEPT !.pc = "load", !.now = rlTime] /\ swThread' = [swThread EXCEPT ![t] = new] /\ sw' = sw
    BY <1>1 DEF SwBegin
  <2>2. new \in SwCall /\ new.pc = "load"
    BY <1>0, <2>1 DEF SwIdle, SwCall, SwPcs
  <2> QED
    BY <1>1, <2>1, <2>2, WindowIdles
<1>2. ASSUME NEW t \in RlThreads, rotate_if_needed(t), rlTime' = rlTime PROVE WindowInv'
  <2>1. CASE swThread[t].now = sw.last
    <3>1. swThread' = [swThread EXCEPT ![t] = ToSum(swThread[t])] /\ sw' = sw
      BY <1>2, <2>1 DEF rotate_if_needed
    <3> QED
      BY <1>0, <1>2, <3>1, WindowSums
  <2>2. CASE swThread[t].now # sw.last
    <3>1. PICK new : new = [swThread[t] EXCEPT !.last = sw.last, !.pc = "index"]
                     /\ swThread' = [swThread EXCEPT ![t] = new] /\ sw' = sw
      BY <1>2, <2>2 DEF rotate_if_needed
    <3>2. new \in SwCall /\ new.pc = "index"
      BY <1>0, <3>1 DEF SwCall, SwPcs
    <3> QED
      BY <1>2, <3>1, <3>2, WindowIdles
  <2> QED
    BY <2>1, <2>2
<1>3. ASSUME NEW t \in RlThreads, LoadIndex(t), rlTime' = rlTime PROVE WindowInv'
  <2>1. PICK land \in SwIndexes, N \in SUBSET Nat :
           /\ swThread' = [swThread EXCEPT ![t] = [swThread[t] EXCEPT !.pc = "clear", !.idx = land,
                             !.todo = {(sw.idx + i) % Segments : i \in N}]]
           /\ sw' = sw
    <3>1. \A k : 1..k \in SUBSET Nat
      OBVIOUS
    <3> QED
      BY <1>3, <3>1 DEF LoadIndex, SwIndexes
  <2>2. {(sw.idx + i) % Segments : i \in N} \in SUBSET SwIndexes
    <3> SUFFICES ASSUME NEW i \in N PROVE (sw.idx + i) % Segments \in SwIndexes
      OBVIOUS
    <3>1. sw.idx \in Nat /\ i \in Nat /\ Segments \in Nat \ {0}
      BY <1>0, LimiterAssumption DEF SwIndexes
    <3>2. PICK a \in Nat : a = sw.idx + i
      BY <3>1
    <3>3. a % Segments \in 0..(Segments - 1)
      BY <3>1
    <3> QED
      BY <3>2, <3>3 DEF SwIndexes
  <2>3. PICK T \in SUBSET SwIndexes : T = {(sw.idx + i) % Segments : i \in N}
    BY <2>2
  <2>4. PICK new : /\ new = [swThread[t] EXCEPT !.pc = "clear", !.idx = land, !.todo = T]
                   /\ swThread' = [swThread EXCEPT ![t] = new]
    BY <2>1, <2>3
  <2>5. new \in SwCall /\ new.pc = "clear"
    BY <1>0, <2>4 DEF SwCall, SwPcs
  <2> QED
    BY <1>3, <2>1, <2>4, <2>5, WindowIdles
<1>4. ASSUME NEW t \in RlThreads, StoreIndex(t), rlTime' = rlTime PROVE WindowInv'
  <2>1. PICK new : /\ new = [swThread[t] EXCEPT !.pc = "stamp"] /\ swThread' = [swThread EXCEPT ![t] = new]
                   /\ sw' = [sw EXCEPT !.idx = swThread[t].idx]
    BY <1>4 DEF StoreIndex, SwGoto
  <2>2. new \in SwCall /\ new.pc = "stamp" /\ swThread[t].idx \in SwIndexes
    BY <1>0, <2>1 DEF SwCall, SwPcs
  <2>3. sw'.count = sw.count /\ sw' \in [count : [SwIndexes -> Nat], idx : SwIndexes, last : Nat]
    BY <1>0, <2>1, <2>2
  <2>4. WindowShape' /\ swThread'[t] = new /\ \A u \in RlThreads \ {t} : swThread'[u] = swThread[u]
    BY <1>4, <2>1, <2>2, <2>3, CallMoves DEF WindowInv
  <2>5. Admitted' = Admitted /\ \A u \in RlThreads \ {t} : Foreseen(u)' = Foreseen(u)
    BY <2>3, <2>4 DEF Admitted, Foreseen, SwIndexes
  <2>6. \A j \in Nat : Passing(j)' \subseteq Passing(j)
    BY <2>2, <2>4, <2>5 DEF Passing
  <2> QED
    BY <2>4, <2>5, <2>6, BudgetKept DEF WindowInv
<1>5. ASSUME NEW t \in RlThreads, StampRotation(t), rlTime' = rlTime PROVE WindowInv'
  <2>1. /\ swThread' = [swThread EXCEPT ![t] = ToSum(swThread[t])]
        /\ sw' = [sw EXCEPT !.last = swThread[t].now] /\ swThread[t].now \in Nat
    BY <1>0, <1>5 DEF StampRotation, SwCall
  <2>2. sw'.count = sw.count /\ sw' \in [count : [SwIndexes -> Nat], idx : SwIndexes, last : Nat]
    BY <1>0, <2>1
  <2> QED
    BY <1>5, <2>1, <2>2, WindowSums
<1>6. ASSUME NEW t \in RlThreads, PickSegment(t), rlTime' = rlTime PROVE WindowInv'
  <2>1. PICK new : /\ new = [swThread[t] EXCEPT !.pc = "count", !.idx = sw.idx]
                   /\ swThread' = [swThread EXCEPT ![t] = new] /\ sw' = sw /\ swThread[t].pc = "pick"
    BY <1>6 DEF PickSegment
  <2>2. new \in SwCall /\ new.pc = "count"
    BY <1>0, <2>1 DEF SwCall, SwPcs
  <2>3. WindowShape' /\ swThread'[t] = new /\ \A u \in RlThreads \ {t} : swThread'[u] = swThread[u]
    BY <1>0, <1>6, <2>1, <2>2, CallMoves DEF WindowInv
  <2>4. Admitted' = Admitted /\ \A j \in Nat : Passing(j)' \subseteq Passing(j) \cup {t}
    BY <2>1, <2>3, OthersPass
  <2>5. \A j \in Nat : t \in Passing(j)
    BY <2>1 DEF Passing
  <2>6. \A j \in Nat : Passing(j)' \subseteq Passing(j)
    BY <2>4, <2>5
  <2> QED
    BY <2>3, <2>4, <2>6, BudgetKept DEF WindowInv
<1>7. ASSUME sw' = sw, swThread' = swThread, rlTime' \in Nat PROVE WindowInv'
  <2>1. WindowShape'
    BY <1>7 DEF WindowInv, WindowShape, SwIndexes, SwCall, SwPcs
  <2>2. Admitted' = Admitted /\ \A j \in Nat : Passing(j)' = Passing(j)
    BY <1>7 DEF Admitted, Passing, Foreseen, SwIndexes
  <2> QED
    BY <2>1, <2>2, BudgetKept DEF WindowInv
<1>8. CASE RlTick
  BY <1>0, <1>7, <1>8 DEF RlTick, swVars
<1>9. CASE TbNext
  BY <1>0, <1>7, <1>9 DEF TbNext, swVars
<1>10. CASE SwNext
  BY <1>1, <1>2, <1>3, <1>4, <1>5, <1>6, <1>10, WindowClears, WindowLoads, WindowCounts DEF SwNext
<1>11. CASE UNCHANGED rlVars
  BY <1>0, <1>7, <1>11 DEF rlVars, swVars
<1> QED
  BY <1>8, <1>9, <1>10, <1>11 DEF RlNext

\* However many threads, segments and requests, and whatever rotations, wrapped
\* subtractions and stale sums come in between, the sliding window admits at most one
\* request per other thread above its rate (rate_limiter.rs SlidingWindowLimiter).
THEOREM WindowOvershoots == RlSpec => []WindowOvershootBounded
<1>1. RlInit => WindowInv
  <2> SUFFICES ASSUME RlInit PROVE WindowInv
    OBVIOUS
  <2>1. /\ rlTime = 0 /\ sw = [count |-> [i \in SwIndexes |-> 0], idx |-> 0, last |-> 0]
        /\ swThread = [t \in RlThreads |-> SwIdle]
    BY DEF RlInit, SwIndexes
  <2>2. SwIdle \in SwCall /\ SwIdle.pc = "idle" /\ 0 \in SwIndexes
    BY LimiterAssumption DEF SwIdle, SwCall, SwPcs, SwIndexes
  <2>3. WindowShape
    BY <2>1, <2>2 DEF WindowShape
  <2>4. Admitted = 0
    <3>1. sw.count \in [SwIndexes -> Nat]
      BY <2>1
    <3>2. IsFiniteSet(SwIndexes) /\ \A x \in SwIndexes : sw.count[x] \in 0..0
      BY <2>1, <3>1, SegmentSums
    <3>3. Admitted \in Nat /\ Admitted <= Cardinality(SwIndexes) * 0
      BY <3>2, SumBounded DEF Admitted
    <3>4. Cardinality(SwIndexes) \in Nat
      BY <3>2, FS_CardinalityType
    <3> QED
      BY <3>3, <3>4
  <2>5. \A j \in Nat : Passing(j) = {}
    BY <2>1, <2>2 DEF Passing
  <2>6. Cardinality({}) = 0 /\ Cardinality(RlThreads) \in Nat /\ Cardinality(RlThreads) >= 1
    BY FS_EmptySet, PassingFew
  <2>7. ASSUME NEW j \in Nat
        PROVE  Admitted + Cardinality(Passing(j)) <= WindowRate + Cardinality(RlThreads) - 1 + j
    <3>1. Cardinality(Passing(j)) = 0
      BY <2>5, <2>6
    <3> QED
      BY <2>4, <2>6, <3>1, LimiterAssumption
  <2> QED
    BY <2>3, <2>7 DEF WindowInv, WindowBudget
<1> QED
  BY <1>1, WindowStep, WindowBounds, PTL DEF RlSpec
-----------------------------------------------------------------------------
(* Pair exposure. *)

\* The invariant: as long as no leg was linked twice, a link leads back.
PxInv ==
    /\ pxPosition \in [PxLegs -> Int] /\ pxLink \in [PxLegs -> PxLegs] /\ pxRelinked \in BOOLEAN
    /\ ~pxRelinked => \A k \in PxLegs : pxLink[pxLink[k]] = k

PairsOf == {{k, pxLink[k]} : k \in {k \in PxOpen : Netted(k)}}
AloneOf == {k \in PxOpen : ~Netted(k)}

LEMMA PxAbsIs == \A n \in Int : PxAbs(n) \in Int /\ PxAbs(n) >= n /\ PxAbs(n) >= -n /\ (PxAbs(n) = n \/ PxAbs(n) = -n)
BY DEF PxAbs

\* Where links lead back, an open leg is alone or in exactly one pair of open legs.
LEMMA PairsPartition ==
    ASSUME PxInv, ~pxRelinked
    PROVE  /\ PairsOf \in SUBSET (SUBSET PxLegs) /\ \A p, q \in PairsOf : p # q => p \cap q = {}
           /\ UNION PairsOf = PxOpen \ AloneOf
<1>1. /\ pxLink \in [PxLegs -> PxLegs] /\ \A k \in PxLegs : pxLink[pxLink[k]] = k
      /\ PxOpen \subseteq PxLegs
  BY DEF PxInv, PxOpen
<1>2. PairsOf \in SUBSET (SUBSET PxLegs)
  BY <1>1 DEF PairsOf
<1>3. ASSUME NEW p \in PairsOf, NEW q \in PairsOf, p \cap q # {} PROVE p = q
  <2>1. PICK k \in PxOpen : p = {k, pxLink[k]}
    BY DEF PairsOf
  <2>2. PICK m \in PxOpen : q = {m, pxLink[m]}
    BY DEF PairsOf
  <2>3. k \in PxLegs /\ m \in PxLegs /\ pxLink[pxLink[k]] = k /\ pxLink[pxLink[m]] = m
    BY <1>1
  <2>4. k = m \/ k = pxLink[m] \/ pxLink[k] = m \/ pxLink[k] = pxLink[m]
    BY <1>3, <2>1, <2>2
  <2>5. k = m \/ (k = pxLink[m] /\ pxLink[k] = m)
    BY <2>3, <2>4
  <2> QED
    BY <2>1, <2>2, <2>5
<1>4. ASSUME NEW k \in PxOpen \ AloneOf PROVE k \in UNION PairsOf
  BY DEF PairsOf, AloneOf
<1>5. ASSUME NEW x \in UNION PairsOf PROVE x \in PxOpen \ AloneOf
  <2>1. PICK k \in PxOpen : Netted(k) /\ x \in {k, pxLink[k]}
    BY DEF PairsOf
  <2>2. pxLink[k] # k /\ pxLink[k] \in PxOpen /\ pxLink[pxLink[k]] = k
    BY <1>1, <2>1 DEF Netted
  <2> QED
    BY <2>1, <2>2 DEF AloneOf, Netted
<1> QED
  BY <1>2, <1>3, <1>4, <1>5

\* The legs without a position add nothing.
LEMMA ClosedAddNothing ==
    ASSUME PxInv
    PROVE  SumFunctionOnSet(pxPosition, PxLegs) = SumFunctionOnSet(pxPosition, PxOpen)
<1>1. IsFiniteSet(PxLegs) /\ \A k \in PxLegs : pxPosition[k] \in Int
  BY ExposureAssumption DEF PxInv
<1>2. PxOpen \in SUBSET PxLegs /\ PxLegs \ PxOpen \in SUBSET PxLegs
  BY DEF PxOpen
<1>3. /\ SumFunctionOnSet(pxPosition, PxOpen) \in Int
      /\ SumFunctionOnSet(pxPosition, PxLegs) = SumFunctionOnSet(pxPosition, PxOpen)
                                                + SumFunctionOnSet(pxPosition, PxLegs \ PxOpen)
  BY <1>1, <1>2, SumSplit
<1>4. SumFunctionOnSet(pxPosition, PxLegs \ PxOpen) = 0
  <2>1. IsFiniteSet(PxLegs \ PxOpen) /\ \A k \in PxLegs \ PxOpen : pxPosition[k] \in 0..0
    BY <1>1, <1>2, FS_Subset DEF PxOpen
  <2>2. /\ SumFunctionOnSet(pxPosition, PxLegs \ PxOpen) \in Nat
        /\ SumFunctionOnSet(pxPosition, PxLegs \ PxOpen) <= Cardinality(PxLegs \ PxOpen) * 0
    BY <2>1, SumBounded
  <2>3. Cardinality(PxLegs \ PxOpen) \in Nat
    BY <2>1, FS_CardinalityType
  <2> QED
    BY <2>2, <2>3
<1> QED
  BY <1>3, <1>4

\* The invariant is enough: the pairs and the legs on their own each cover their net.
LEMMA ExposureBounds == PxInv => ExposureCoversNet
<1> SUFFICES ASSUME PxInv, ~pxRelinked
             PROVE  netted_portfolio_exposure >= PxAbs(SumFunctionOnSet(pxPosition, PxLegs))
  BY DEF ExposureCoversNet
<1> DEFINE g == [p \in PairsOf |-> PxAbs(SumFunctionOnSet(pxPosition, p))]
           h == [k \in AloneOf |-> PxAbs(pxPosition[k])]
           P == SumFunctionOnSet(g, PairsOf)
           A == SumFunctionOnSet(h, AloneOf)
           netP == SumFunctionOnSet(pxPosition, UNION PairsOf)
           netA == SumFunctionOnSet(pxPosition, AloneOf)
<1>1. netted_portfolio_exposure = P + A
  BY DEF netted_portfolio_exposure, PairsOf, AloneOf
<1>2. IsFiniteSet(PxLegs) /\ \A k \in PxLegs : pxPosition[k] \in Int
  BY ExposureAssumption DEF PxInv
<1>3. /\ PairsOf \in SUBSET (SUBSET PxLegs) /\ \A p, q \in PairsOf : p # q => p \cap q = {}
      /\ UNION PairsOf = PxOpen \ AloneOf
  BY PairsPartition
<1>4. AloneOf \in SUBSET PxOpen /\ PxOpen \in SUBSET PxLegs
  BY DEF AloneOf, PxOpen
<1>5. ASSUME NEW T \in SUBSET PxLegs PROVE IsFiniteSet(T) /\ SumFunctionOnSet(pxPosition, T) \in Int
  <2>1. IsFiniteSet(T) /\ \A x \in T : pxPosition[x] \in Int
    BY <1>2, FS_Subset
  <2> QED
    BY <2>1, SumWithout
<1>6. P \in Int /\ netP \in Int /\ P >= netP /\ P >= -netP
  <2>1. \A p \in PairsOf : /\ g[p] \in Int /\ g[p] >= SumFunctionOnSet(pxPosition, p)
                           /\ g[p] >= -SumFunctionOnSet(pxPosition, p)
    BY <1>3, <1>5, PxAbsIs
  <2> HIDE DEF g
  <2> QED
    BY <1>2, <1>3, <2>1, SumOfBlocks
<1>7. A \in Int /\ netA \in Int /\ A >= netA /\ A >= -netA
  <2>1. \A k \in AloneOf : pxPosition[k] \in Int /\ h[k] \in Int /\ h[k] >= pxPosition[k] /\ h[k] >= -pxPosition[k]
    BY <1>2, <1>4, PxAbsIs
  <2>2. IsFiniteSet(AloneOf)
    BY <1>4, <1>5
  <2> HIDE DEF h
  <2> QED
    BY <2>1, <2>2, SumOfMagnitudes
<1>8. SumFunctionOnSet(pxPosition, PxLegs) = netA + netP
  <2>1. IsFiniteSet(PxOpen) /\ \A k \in PxOpen : pxPosition[k] \in Int
    BY <1>2, <1>4, <1>5
  <2>2. SumFunctionOnSet(pxPosition, PxOpen) = netA + SumFunctionOnSet(pxPosition, PxOpen \ AloneOf)
    BY <1>4, <2>1, SumSplit
  <2> QED
    BY <1>3, <2>2, ClosedAddNothing
<1> HIDE DEF P, A, netP, netA
<1>9. P + A >= netA + netP /\ P + A >= -(netA + netP) /\ netA + netP \in Int
  BY <1>6, <1>7
<1>10. PxAbs(netA + netP) = netA + netP \/ PxAbs(netA + netP) = -(netA + netP)
  BY <1>9, PxAbsIs
<1> QED
  BY <1>1, <1>8, <1>9, <1>10

\* Every operation keeps the links leading back.
LEMMA PxStep == PxInv /\ [PxNext]_pxVars => PxInv'
<1> SUFFICES ASSUME PxInv, [PxNext]_pxVars PROVE PxInv'
  OBVIOUS
<1>1. ASSUME NEW k \in PxLegs, NEW q \in {-1, 1}, update_position(k, q) PROVE PxInv'
  <2>1. pxPosition[k] + q \in Int
    BY DEF PxInv
  <2>2. pxPosition' \in [PxLegs -> Int]
    BY <1>1, <2>1 DEF update_position, PxInv
  <2> QED
    BY <1>1, <2>2 DEF update_position, PxInv
<1>2. ASSUME NEW new \in [PxLegs -> -PxMax..PxMax], set_positions(new) PROVE PxInv'
  <2>1. new \in [PxLegs -> Int]
    BY ExposureAssumption
  <2> QED
    BY <1>2, <2>1 DEF set_positions, PxInv
<1>3. ASSUME NEW a \in PxLegs, NEW b \in PxLegs, register_pair_link(a, b) PROVE PxInv'
  <2>1. /\ a # b /\ pxLink' = [pxLink EXCEPT ![a] = b, ![b] = a] /\ pxPosition' = pxPosition
        /\ pxRelinked' = (pxRelinked \/ pxLink[a] \notin {a, b} \/ pxLink[b] \notin {a, b})
    BY <1>3 DEF register_pair_link
  <2>2. pxLink' \in [PxLegs -> PxLegs] /\ pxRelinked' \in BOOLEAN
    BY <2>1 DEF PxInv
  <2>3. ASSUME ~pxRelinked', NEW k \in PxLegs PROVE pxLink'[pxLink'[k]] = k
    <3>1. ~pxRelinked /\ pxLink[a] \in {a, b} /\ pxLink[b] \in {a, b}
      BY <2>1, <2>3
    <3>2. pxLink[pxLink[k]] = k /\ pxLink[k] \in PxLegs
      BY <3>1 DEF PxInv
    <3>3. k \notin {a, b} => pxLink[k] \notin {a, b}
      BY <3>1, <3>2
    <3>4. CASE k \in {a, b}
      BY <2>1, <3>4 DEF PxInv
    <3>5. CASE k \notin {a, b}
      BY <2>1, <3>2, <3>3, <3>5 DEF PxInv
    <3> QED
      BY <3>4, <3>5
  <2> QED
    BY <2>1, <2>2, <2>3 DEF PxInv
<1>4. ASSUME NEW a \in PxLegs, unregister_pair_link(a) PROVE PxInv'
  <2>1. PICK b \in PxLegs : b = pxLink[a]
    BY DEF PxInv
  <2>2. pxLink' = [pxLink EXCEPT ![a] = a, ![b] = b] /\ pxPosition' = pxPosition /\ pxRelinked' = pxRelinked
    BY <1>4, <2>1 DEF unregister_pair_link, Unlinked
  <2>3. pxLink' \in [PxLegs -> PxLegs]
    BY <2>2 DEF PxInv
  <2>4. ASSUME ~pxRelinked, NEW k \in PxLegs PROVE pxLink'[pxLink'[k]] = k
    <3>1. pxLink[pxLink[k]] = k /\ pxLink[k] \in PxLegs /\ pxLink[b] = a
      BY <2>1, <2>4 DEF PxInv
    <3>2. k \notin {a, b} => pxLink[k] \notin {a, b}
      BY <2>1, <3>1
    <3>3. CASE k \in {a, b}
      BY <2>2, <3>3 DEF PxInv
    <3>4. CASE k \notin {a, b}
      BY <2>2, <3>1, <3>2, <3>4 DEF PxInv
    <3> QED
      BY <3>3, <3>4
  <2> QED
    BY <2>2, <2>3, <2>4 DEF PxInv
<1>5. CASE UNCHANGED pxVars
  BY <1>5 DEF pxVars, PxInv
<1> QED
  BY <1>1, <1>2, <1>3, <1>4, <1>5 DEF PxNext

\* For every set of legs and every sequence of fills, reconciliations, links and
\* unlinks in which no leg was linked a second time, the netted exposure covers the true
\* net of the portfolio (risk_controls.rs netted_portfolio_exposure, register_pair_link).
THEOREM ExposureCovers == PxSpec => []ExposureCoversNet
<1>1. PxInit => PxInv
  <2> SUFFICES ASSUME PxInit PROVE PxInv
    OBVIOUS
  <2>1. pxPosition \in [PxLegs -> Int] /\ pxLink \in [PxLegs -> PxLegs]
    BY DEF PxInit
  <2>4. pxRelinked \in BOOLEAN
    BY Zenon DEF PxInit
  <2>2. \A k \in PxLegs : pxLink[k] = k
    BY DEF PxInit
  <2>3. \A k \in PxLegs : pxLink[pxLink[k]] = k
    BY <2>2
  <2> QED
    BY <2>1, <2>3, <2>4 DEF PxInv
<1> QED
  BY <1>1, PxStep, ExposureBounds, PTL DEF PxSpec

-----------------------------------------------------------------------------
(* The write-ahead log: what the checkpoint covers. *)

WalViews == Views(WalEntries)
WalJobs == [entry : WalEntries \cup {WalNone}, applied : BOOLEAN]
WalCommands == [cmd : {"Append", "Checkpoint", "Shutdown"}, entry : WalEntries \cup {WalNone}]
WalWriters ==
    [running : BOOLEAN, buffer : Seq(WalEntries), collected : WalViews \cup {WalNone}, seen : 0..WalMaxSeq]
WalCkpts == [seq : 0..WalMaxSeq, active : WalViews]
NoJobs == [t \in WalTasks |-> RestingTask]

\* The entries the tasks hold, and those sent: queued, buffered or in the file.
WalHeld == {walTask[t].entry : t \in WalTasks} \ {WalNone}
WalSent ==
    {e \in WalEntries : \/ \E i \in 1..Len(walQueue) : walQueue[i] = Command("Append", e)
                        \/ \E i \in 1..Len(walWriter.buffer) : walWriter.buffer[i] = e
                        \/ \E i \in 1..Len(walFile) : walFile[i] = e}

\* The order of an entry has ended or is in the view.
CoveredBy(view, e) == e.order \in walEnded \/ view[e.order] # WalNone
\* The orders the view shows as terminal have ended.
EndsTold(view) == \A o \in WalOrders : view[o] # WalNone /\ is_terminal(view[o].state) => o \in walEnded

WalShape ==
    /\ walOrders \in WalViews /\ walSeq \in 0..WalMaxSeq
    /\ walTask \in [WalTasks -> WalJobs]
    /\ walQueue \in Seq(WalCommands)
    /\ \A i \in 1..Len(walQueue) : walQueue[i].cmd = "Append" => walQueue[i].entry # WalNone
    /\ walWriter \in WalWriters
    /\ walFile \in Seq(WalEntries)
    /\ walCkpt \in WalCkpts \cup {WalNone}
WalDown == ~walUp => walTask = NoJobs /\ walQueue = << >> /\ walWriter = RestingWriter
WalEnds ==
    /\ EndsTold(walOrders)
    /\ walWriter.collected # WalNone => EndsTold(walWriter.collected)
    /\ walCkpt # WalNone => EndsTold(walCkpt.active)
    /\ \A e \in WalHeld \cup WalSent : is_terminal(e.state) => e.order \in walEnded
WalApplied ==
    \A t \in WalTasks : walTask[t].applied =>
        walTask[t].entry # WalNone /\ walOrders[walTask[t].entry.order] # WalNone
WalNumbers == walUp => CkptSeq <= walSeq /\ walWriter.seen <= walSeq
WalKnown == walUp => \A e \in WalSent : CoveredBy(walOrders, e)
WalCollected ==
    walWriter.collected # WalNone =>
        \A e \in WalHeld \cup WalSent : e.seq <= walWriter.seen => CoveredBy(walWriter.collected, e)
WalCheckpointed ==
    walCkpt # WalNone => \A e \in WalHeld \cup WalSent : e.seq <= walCkpt.seq => CoveredBy(walCkpt.active, e)

WalInv ==
    /\ WalShape /\ WalDown /\ WalEnds /\ WalApplied /\ WalNumbers
    /\ ~walRaced => WalKnown /\ WalCollected /\ WalCheckpointed

\* What a flush adds to the file comes from the buffer, whether it failed or not.
LEMMA FlushWrites ==
    ASSUME WalShape, NEW buffer \in Seq(WalEntries), flush_buffer(buffer)
    PROVE  /\ walFile' \in Seq(WalEntries)
           /\ \A i \in 1..Len(walFile') : \/ \E j \in 1..Len(walFile) : walFile'[i] = walFile[j]
                                          \/ \E j \in 1..Len(buffer) : walFile'[i] = buffer[j]
<1>1. walFile \in Seq(WalEntries)
  BY DEF WalShape
<1>2. PICK b \in Seq(WalEntries) :
          walFile' = walFile \o b /\ \A i \in 1..Len(b) : \E j \in 1..Len(buffer) : b[i] = buffer[j]
  <2>1. CASE walFile' = walFile \o buffer
    BY <2>1
  <2>2. CASE \E n \in 0..(Len(buffer) - 1) : walFile' = walFile \o SubSeq(buffer, 1, n)
    <3>1. PICK n \in 0..(Len(buffer) - 1) : walFile' = walFile \o SubSeq(buffer, 1, n)
      BY <2>2
    <3> DEFINE b == SubSeq(buffer, 1, n)
    <3>2. b \in Seq(WalEntries) /\ Len(b) = n /\ \A i \in 1..n : b[i] = buffer[i]
      BY <3>1
    <3>3. \A i \in 1..Len(b) : i \in 1..Len(buffer)
      BY <3>2
    <3> QED
      BY <3>1, <3>2, <3>3
  <2> QED
    BY <2>1, <2>2 DEF flush_buffer
<1>3. Len(walFile') = Len(walFile) + Len(b) /\ walFile' \in Seq(WalEntries)
  BY <1>1, <1>2
<1>4. ASSUME NEW i \in 1..Len(walFile')
      PROVE  \/ \E j \in 1..Len(walFile) : walFile'[i] = walFile[j]
             \/ \E j \in 1..Len(buffer) : walFile'[i] = buffer[j]
  <2>1. CASE i <= Len(walFile)
    <3>1. i \in 1..Len(walFile) /\ walFile'[i] = walFile[i]
      BY <1>1, <1>2, <1>3, <2>1
    <3> QED
      BY <3>1
  <2>2. CASE i > Len(walFile)
    <3> DEFINE k == i - Len(walFile)
    <3>1. k \in 1..Len(b) /\ walFile'[i] = b[k]
      BY <1>1, <1>2, <1>3, <2>2
    <3> QED
      BY <3>1, <1>2
  <2> QED
    BY <2>1, <2>2, <1>1
<1> QED
  BY <1>3, <1>4

\* The invariant after a step that sends and numbers nothing and keeps the views.
LEMMA WalQuiet ==
    ASSUME WalInv, WalShape', WalDown', WalApplied',
           WalHeld' \subseteq WalHeld, WalSent' \subseteq WalHeld \cup WalSent,
           \A e \in WalSent' \ WalSent : walOrders[e.order] # WalNone,
           UNCHANGED <<walOrders, walSeq, walCkpt, walUp, walEnded, walRaced>>,
           walWriter'.seen = walWriter.seen, walWriter'.collected = walWriter.collected
    PROVE  WalInv'
<1>1. WalEnds'
  BY DEF WalInv, WalEnds, EndsTold
<1>2. WalNumbers'
  BY DEF WalInv, WalNumbers, CkptSeq
<1>3. ASSUME ~walRaced PROVE WalKnown' /\ WalCollected' /\ WalCheckpointed'
  BY <1>3 DEF WalInv, WalKnown, WalCollected, WalCheckpointed, CoveredBy
<1> QED
  BY <1>1, <1>2, <1>3 DEF WalInv

\* What is sent stays among what was, when the queue, the buffer and the file do.
LEMMA SentFrom ==
    ASSUME NEW S,
           \A i \in 1..Len(walQueue') : \A e \in WalEntries : walQueue'[i] = Command("Append", e) => e \in S,
           \A i \in 1..Len(walWriter'.buffer) : walWriter'.buffer[i] \in S,
           \A i \in 1..Len(walFile') : walFile'[i] \in S
    PROVE  WalSent' \subseteq S
BY DEF WalSent

LEMMA SentParts ==
    ASSUME WalShape
    PROVE  /\ \A i \in 1..Len(walQueue) : \A e \in WalEntries : walQueue[i] = Command("Append", e) => e \in WalSent
           /\ \A i \in 1..Len(walWriter.buffer) : walWriter.buffer[i] \in WalSent /\ walWriter.buffer[i] \in WalEntries
           /\ \A i \in 1..Len(walFile) : walFile[i] \in WalSent /\ walFile[i] \in WalEntries
           /\ WalSent \subseteq WalEntries
<1>1. /\ \A i \in 1..Len(walWriter.buffer) : walWriter.buffer[i] \in WalEntries
      /\ \A i \in 1..Len(walFile) : walFile[i] \in WalEntries
  BY DEF WalShape, WalWriters
<1> QED
  BY <1>1 DEF WalSent

\* After a flush of the buffer, or of the buffer and one entry sent before.
LEMMA FlushSends ==
    ASSUME WalShape, NEW buffer \in Seq(WalEntries), flush_buffer(buffer),
           \A i \in 1..Len(buffer) : buffer[i] \in WalSent
    PROVE  walFile' \in Seq(WalEntries) /\ \A i \in 1..Len(walFile') : walFile'[i] \in WalSent
BY FlushWrites, SentParts

LEMMA NumberEntryKeeps ==
    ASSUME WalInv, NEW t \in WalTasks, NEW o \in WalOrders, NEW s \in WalStates, NumberEntry(t, o, s)
    PROVE  WalInv'
<1> DEFINE new == [order |-> o, seq |-> walSeq + 1, state |-> s]
<1>1. /\ walSeq \in 0..WalMaxSeq /\ walSeq < WalMaxSeq /\ WalMaxSeq \in Nat /\ walTask[t] = RestingTask /\ walUp
      /\ walTask \in [WalTasks -> WalJobs]
  BY OrderWalAssumption DEF WalInv, WalShape, NumberEntry
<1>2. /\ new \in WalEntries /\ new # WalNone
      /\ new.order = o /\ new.seq = walSeq + 1 /\ new.state = s
  BY <1>1, OrderWalAssumption DEF WalEntries
<1>3. /\ walSeq' = walSeq + 1 /\ walTask' = [walTask EXCEPT ![t] = [walTask[t] EXCEPT !.entry = new]]
      /\ walEnded \subseteq walEnded' /\ (is_terminal(s) => o \in walEnded')
      /\ UNCHANGED <<walOrders, walLast, walQueue, walWriter, walFile, walCkpt, walUp, walFaults, walRaced>>
  <2>1. /\ walSeq' = walSeq + 1 /\ walTask' = [walTask EXCEPT ![t] = [walTask[t] EXCEPT !.entry = new]]
        /\ walEnded' = IF is_terminal(s) THEN walEnded \cup {o} ELSE walEnded
        /\ UNCHANGED <<walOrders, walLast, walQueue, walWriter, walFile, walCkpt, walUp, walFaults, walRaced>>
    BY DEF NumberEntry, walDisk
  <2>4. walEnded \subseteq walEnded' /\ (is_terminal(s) => o \in walEnded')
    BY <2>1
  <2> QED
    BY <2>1, <2>4
<1> HIDE DEF new
<1>4. walTask' \in [WalTasks -> WalJobs] /\ walTask'[t].entry = new /\ ~walTask'[t].applied
      /\ \A u \in WalTasks \ {t} : walTask'[u] = walTask[u]
  <2> DEFINE job == [walTask[t] EXCEPT !.entry = new]
  <2>1. walTask[t] \in WalJobs /\ ~walTask[t].applied
    <3>1. ~RestingTask.applied
      BY DEF RestingTask
    <3>2. walTask[t] \in WalJobs
      BY <1>1
    <3> QED
      BY <1>1, <3>1, <3>2, Zenon
  <2>2. job \in WalJobs /\ job.entry = new /\ ~job.applied
    BY <1>2, <2>1 DEF WalJobs
  <2>3. walTask' = [walTask EXCEPT ![t] = job]
    BY <1>3
  <2> HIDE DEF job
  <2> QED
    BY <1>1, <2>2, <2>3
<1>5. WalHeld' \subseteq WalHeld \cup {new} /\ WalSent' = WalSent
  BY <1>3, <1>4 DEF WalHeld, WalSent
<1>6. WalShape'
  <2>1. walSeq' \in 0..WalMaxSeq
    BY <1>1, <1>3
  <2> QED
    BY <1>3, <1>4, <2>1 DEF WalInv, WalShape
<1>7. WalDown' /\ WalApplied'
  BY <1>1, <1>3, <1>4 DEF WalInv, WalDown, WalApplied
<1>8. WalEnds'
  BY <1>2, <1>3, <1>5 DEF WalInv, WalEnds, EndsTold
<1>9. CkptSeq \in Nat /\ CkptSeq <= walSeq /\ walWriter.seen \in Nat /\ walWriter.seen <= walSeq
  BY <1>1 DEF WalInv, WalShape, WalNumbers, CkptSeq, WalCkpts, WalWriters
<1>10. WalNumbers'
  BY <1>1, <1>3, <1>9 DEF WalNumbers, CkptSeq
<1>11. ~(new.seq <= CkptSeq) /\ ~(new.seq <= walWriter.seen)
  BY <1>1, <1>2, <1>9
<1>12. ASSUME ~walRaced PROVE WalKnown' /\ WalCollected' /\ WalCheckpointed'
  BY <1>3, <1>5, <1>11, <1>12 DEF WalInv, WalKnown, WalCollected, WalCheckpointed, CoveredBy, CkptSeq
<1> QED
  BY <1>3, <1>6, <1>7, <1>8, <1>10, <1>12 DEF WalInv

LEMMA ApplyEntryKeeps ==
    ASSUME WalInv, NEW t \in WalTasks, apply_entry(t)
    PROVE  WalInv'
<1> DEFINE e == walTask[t].entry
<1>1. /\ walUp /\ e # WalNone /\ walOrders \in WalViews /\ walTask \in [WalTasks -> WalJobs]
      /\ walOrders' = [walOrders EXCEPT ![e.order] = e]
      /\ walTask' = [walTask EXCEPT ![t] = [walTask[t] EXCEPT !.applied = TRUE]]
      /\ UNCHANGED <<walSeq, walLast, walQueue, walWriter, walFile, walCkpt, walUp, walFaults, walEnded, walRaced>>
  BY DEF apply_entry, walDisk, WalInv, WalShape
<1>2. e \in WalEntries /\ e \in WalHeld
  BY <1>1 DEF WalJobs, WalHeld
<1>3. e.order \in WalOrders
  BY <1>2 DEF WalEntries
<1> HIDE DEF e
<1>4. /\ walTask' \in [WalTasks -> WalJobs] /\ walTask'[t].entry = e
      /\ \A u \in WalTasks \ {t} : walTask'[u] = walTask[u]
      /\ \A u \in WalTasks : walTask'[u].entry = walTask[u].entry
  <2> DEFINE job == [walTask[t] EXCEPT !.applied = TRUE]
  <2>1. walTask[t] \in WalJobs /\ walTask[t].entry = e
    BY <1>1 DEF e
  <2>2. job \in WalJobs /\ job.entry = e
    BY <2>1 DEF WalJobs
  <2>3. walTask' = [walTask EXCEPT ![t] = job]
    BY <1>1
  <2> HIDE DEF job
  <2> QED
    BY <1>1, <2>1, <2>2, <2>3
<1>5. /\ walOrders' \in WalViews /\ walOrders'[e.order] = e
      /\ \A o \in WalOrders \ {e.order} : walOrders'[o] = walOrders[o]
  BY <1>1, <1>2, <1>3 DEF WalViews, Views
<1>6. WalHeld' = WalHeld /\ WalSent' = WalSent
  BY <1>1, <1>4 DEF WalHeld, WalSent
<1>7. WalShape'
  BY <1>1, <1>4, <1>5 DEF WalInv, WalShape
<1>8. WalDown'
  BY <1>1 DEF WalDown
<1>9. WalApplied'
  <2> SUFFICES ASSUME NEW u \in WalTasks, walTask'[u].applied
               PROVE  walTask'[u].entry # WalNone /\ walOrders'[walTask'[u].entry.order] # WalNone
    BY DEF WalApplied
  <2>1. CASE u = t
    BY <2>1, <1>1, <1>4, <1>5
  <2>2. CASE u # t
    <3>1. walTask'[u] = walTask[u]
      BY <2>2, <1>4
    <3>2. walTask[u].entry # WalNone /\ walOrders[walTask[u].entry.order] # WalNone
      BY <3>1 DEF WalInv, WalApplied
    <3>3. walTask[u].entry.order \in WalOrders
      BY <3>2, <1>1 DEF WalJobs, WalEntries
    <3> QED
      BY <3>1, <3>2, <3>3, <1>1, <1>5
  <2> QED
    BY <2>1, <2>2
<1>10. EndsTold(walOrders)'
  BY <1>1, <1>2, <1>3, <1>5 DEF WalInv, WalEnds, EndsTold
<1>11. WalEnds'
  BY <1>1, <1>6, <1>10 DEF WalInv, WalEnds, EndsTold
<1>12. WalNumbers'
  BY <1>1 DEF WalInv, WalNumbers, CkptSeq
<1>13. ASSUME ~walRaced PROVE WalKnown' /\ WalCollected' /\ WalCheckpointed'
  <2>1. ASSUME NEW f \in WalSent PROVE f.order \in walEnded \/ walOrders'[f.order] # WalNone
    <3>1. f.order \in WalOrders /\ (f.order \in walEnded \/ walOrders[f.order] # WalNone)
      BY <1>1, <1>13 DEF WalInv, WalKnown, CoveredBy, WalSent, WalEntries
    <3> QED
      BY <3>1, <1>1, <1>5
  <2>2. WalKnown'
    BY <2>1, <1>1, <1>6 DEF WalKnown, CoveredBy
  <2> QED
    BY <2>2, <1>1, <1>6, <1>13 DEF WalInv, WalCollected, WalCheckpointed, CoveredBy
<1> QED
  BY <1>1, <1>7, <1>8, <1>9, <1>11, <1>12, <1>13 DEF WalInv

LEMMA SendEntryKeeps ==
    ASSUME WalInv, NEW t \in WalTasks, SendEntry(t)
    PROVE  WalInv'
<1> DEFINE e == walTask[t].entry
           S == WalSent \cup {e}
<1>1. /\ walUp /\ walTask[t].applied /\ walTask \in [WalTasks -> WalJobs]
      /\ walTask' = [walTask EXCEPT ![t] = RestingTask]
      /\ UNCHANGED <<walOrders, walSeq, walLast, walWriter, walFile, walCkpt, walUp, walFaults, walEnded, walRaced>>
  BY DEF SendEntry, walDisk, WalInv, WalShape
<1>2. e \in WalEntries /\ e # WalNone /\ e \in WalHeld /\ walOrders[e.order] # WalNone
  BY <1>1 DEF WalInv, WalApplied, WalJobs, WalHeld
<1>3. PICK cmds \in Seq(WalCommands) :
          /\ walQueue' = walQueue \o cmds
          /\ \A i \in 1..Len(cmds) : cmds[i] \in {Command("Append", e), Command("Checkpoint", WalNone)}
  <2>1. Command("Append", e) \in WalCommands /\ Command("Checkpoint", WalNone) \in WalCommands
    BY <1>2 DEF Command, WalCommands
  <2>2. walQueue \in Seq(WalCommands)
    BY DEF WalInv, WalShape
  <2> DEFINE due == walSeq - walLast >= WalCheckpointInterval
             one == <<Command("Append", e)>>
             two == <<Command("Append", e)>> \o <<Command("Checkpoint", WalNone)>>
  <2>3. one \in Seq(WalCommands) /\ \A i \in 1..Len(one) : one[i] = Command("Append", e)
    BY <2>1
  <2>4. two \in Seq(WalCommands) /\ Len(two) = 2 /\ two[1] = Command("Append", e) /\ two[2] = Command("Checkpoint", WalNone)
    BY <2>1
  <2>5. one = one \o << >>
    BY <2>1
  <2>6. walQueue = walQueue \o << >>
    BY <2>2
  <2>7. walQueue' = walQueue \o one \/ walQueue' = walQueue \o two \/ walQueue' = walQueue \o << >>
    BY <2>5, <2>6 DEF SendEntry
  <2>8. \A i \in 1..Len(two) : two[i] \in {Command("Append", e), Command("Checkpoint", WalNone)}
    BY <2>4
  <2> DEFINE nil == << >>
  <2>9. nil \in Seq(WalCommands) /\ \A i \in 1..Len(nil) : nil[i] \in {Command("Append", e), Command("Checkpoint", WalNone)}
    OBVIOUS
  <2> HIDE DEF one, two, nil
  <2>10. CASE walQueue' = walQueue \o one
    <3>1. \A i \in 1..Len(one) : one[i] \in {Command("Append", e), Command("Checkpoint", WalNone)}
      BY <2>3
    <3> QED
      BY <2>3, <2>10, <3>1
  <2>11. CASE walQueue' = walQueue \o two
    BY <2>4, <2>8, <2>11
  <2>12. CASE walQueue' = walQueue \o nil
    BY <2>9, <2>12
  <2> QED
    BY <2>7, <2>10, <2>11, <2>12 DEF nil
<1> HIDE DEF e
<1>4. walQueue \in Seq(WalCommands)
  BY DEF WalInv, WalShape
<1>5. /\ walQueue' \in Seq(WalCommands)
      /\ \A i \in 1..Len(walQueue') :
            \/ \E j \in 1..Len(walQueue) : walQueue'[i] = walQueue[j]
            \/ walQueue'[i] \in {Command("Append", e), Command("Checkpoint", WalNone)}
  <2>1. walQueue' \in Seq(WalCommands) /\ Len(walQueue') = Len(walQueue) + Len(cmds)
    BY <1>3, <1>4
  <2>2. ASSUME NEW i \in 1..Len(walQueue'), i <= Len(walQueue)
        PROVE  \E j \in 1..Len(walQueue) : walQueue'[i] = walQueue[j]
    <3>1. i \in 1..Len(walQueue) /\ walQueue'[i] = walQueue[i]
      BY <1>3, <1>4, <2>2
    <3> QED
      BY <3>1
  <2>3. ASSUME NEW i \in 1..Len(walQueue'), i > Len(walQueue)
        PROVE  walQueue'[i] \in {Command("Append", e), Command("Checkpoint", WalNone)}
    <3> DEFINE k == i - Len(walQueue)
    <3>1. k \in 1..Len(cmds) /\ walQueue'[i] = cmds[k]
      BY <1>3, <1>4, <2>1, <2>3
    <3> QED
      BY <1>3, <3>1
  <2> QED
    BY <2>1, <2>2, <2>3, <1>4
<1>6. /\ walTask' \in [WalTasks -> WalJobs] /\ walTask'[t] = RestingTask
      /\ \A u \in WalTasks \ {t} : walTask'[u] = walTask[u]
  <2>1. RestingTask \in WalJobs
    BY DEF RestingTask, WalJobs
  <2> QED
    BY <1>1, <2>1
<1>7. WalHeld' \subseteq WalHeld
  BY <1>6 DEF WalHeld, RestingTask
<1>8. WalShape
  BY DEF WalInv
<1>9. WalSent' \subseteq S
  <2>1. ASSUME NEW i \in 1..Len(walQueue'), NEW f \in WalEntries, walQueue'[i] = Command("Append", f)
        PROVE  f \in S
    <3>1. CASE \E j \in 1..Len(walQueue) : walQueue'[i] = walQueue[j]
      BY <3>1, <2>1, <1>8, SentParts
    <3>2. CASE walQueue'[i] = Command("Append", e)
      BY <3>2, <2>1 DEF Command
    <3>3. CASE walQueue'[i] = Command("Checkpoint", WalNone)
      BY <3>3, <2>1 DEF Command
    <3> QED
      BY <1>5, <3>1, <3>2, <3>3
  <2>2. /\ \A i \in 1..Len(walWriter'.buffer) : walWriter'.buffer[i] \in S
        /\ \A i \in 1..Len(walFile') : walFile'[i] \in S
    BY <1>1, <1>8, SentParts
  <2> HIDE DEF S
  <2> QED
    BY <2>1, <2>2, SentFrom
<1>10. WalShape'
  <2>1. ASSUME NEW i \in 1..Len(walQueue'), walQueue'[i].cmd = "Append" PROVE walQueue'[i].entry # WalNone
    <3>1. CASE \E j \in 1..Len(walQueue) : walQueue'[i] = walQueue[j]
      BY <3>1, <2>1, <1>8 DEF WalShape
    <3>2. CASE walQueue'[i] \in {Command("Append", e), Command("Checkpoint", WalNone)}
      BY <3>2, <2>1, <1>2 DEF Command
    <3> QED
      BY <1>5, <3>1, <3>2
  <2> QED
    BY <2>1, <1>1, <1>5, <1>6, <1>8 DEF WalShape
<1>11. WalDown' /\ WalApplied'
  BY <1>1, <1>6 DEF WalInv, WalDown, WalApplied, RestingTask
<1> QED
  BY <1>1, <1>2, <1>7, <1>9, <1>10, <1>11, WalQuiet

LEMMA RequestShutdownKeeps ==
    ASSUME WalInv, RequestShutdown
    PROVE  WalInv'
<1> DEFINE c == Command("Shutdown", WalNone)
<1>1. /\ WalShape /\ walQueue \in Seq(WalCommands) /\ walUp /\ walQueue' = Append(walQueue, c)
      /\ UNCHANGED <<walOrders, walSeq, walLast, walTask, walWriter, walFile, walCkpt, walUp, walFaults, walEnded, walRaced>>
  BY DEF RequestShutdown, walDisk, WalInv, WalShape
<1>2. c \in WalCommands /\ c.cmd = "Shutdown" /\ \A e : c # Command("Append", e)
  BY DEF Command, WalCommands
<1> HIDE DEF c
<1>3. /\ walQueue' \in Seq(WalCommands)
      /\ \A i \in 1..Len(walQueue') : walQueue'[i] = c \/ \E j \in 1..Len(walQueue) : walQueue'[i] = walQueue[j]
  <2>1. walQueue' \in Seq(WalCommands) /\ Len(walQueue') = Len(walQueue) + 1
    BY <1>1, <1>2
  <2>2. \A i \in 1..Len(walQueue') : i = Len(walQueue) + 1 \/ i \in 1..Len(walQueue)
    BY <1>1, <2>1
  <2>3. walQueue'[Len(walQueue) + 1] = c /\ \A i \in 1..Len(walQueue) : walQueue'[i] = walQueue[i]
    BY <1>1, <1>2
  <2> QED
    BY <2>1, <2>2, <2>3
<1>4. WalHeld' = WalHeld
  BY <1>1 DEF WalHeld
<1>5. WalSent' \subseteq WalSent
  <2>1. ASSUME NEW i \in 1..Len(walQueue'), NEW e \in WalEntries, walQueue'[i] = Command("Append", e)
        PROVE  e \in WalSent
    BY <2>1, <1>1, <1>2, <1>3, SentParts
  <2>2. /\ \A i \in 1..Len(walWriter'.buffer) : walWriter'.buffer[i] \in WalSent
        /\ \A i \in 1..Len(walFile') : walFile'[i] \in WalSent
    BY <1>1, SentParts
  <2> QED
    BY <2>1, <2>2, SentFrom
<1>6. WalShape'
  <2>1. \A i \in 1..Len(walQueue') : walQueue'[i].cmd = "Append" => walQueue'[i].entry # WalNone
    BY <1>1, <1>2, <1>3 DEF WalShape
  <2> QED
    BY <1>1, <1>3, <2>1 DEF WalShape
<1>7. WalDown' /\ WalApplied'
  BY <1>1 DEF WalInv, WalDown, WalApplied
<1> QED
  BY <1>1, <1>4, <1>5, <1>6, <1>7, WalQuiet

\* The queue without its first command.
LEMMA RestOfQueue ==
    ASSUME WalShape, walQueue # << >>, walQueue' = Tail(walQueue)
    PROVE  /\ walQueue' \in Seq(WalCommands)
           /\ \A i \in 1..Len(walQueue') : \E j \in 1..Len(walQueue) : walQueue'[i] = walQueue[j]
           /\ \A i \in 1..Len(walQueue') : walQueue'[i].cmd = "Append" => walQueue'[i].entry # WalNone
<1>1. walQueue \in Seq(WalCommands)
  BY DEF WalShape
<1>2. /\ walQueue' \in Seq(WalCommands) /\ Len(walQueue') = Len(walQueue) - 1
      /\ \A i \in 1..Len(walQueue') : walQueue'[i] = walQueue[i + 1]
  BY <1>1
<1>3. \A i \in 1..Len(walQueue') : i + 1 \in 1..Len(walQueue)
  BY <1>1, <1>2
<1>4. \A i \in 1..Len(walQueue') : \E j \in 1..Len(walQueue) : walQueue'[i] = walQueue[j]
  BY <1>2, <1>3
<1> QED
  BY <1>2, <1>4 DEF WalShape

\* A step of the writer that leaves the views and takes nothing new.
LEMMA WriterQuiet ==
    ASSUME WalInv, WriterFree, walWriter' \in WalWriters,
           walWriter'.seen = walWriter.seen, walWriter'.collected = walWriter.collected,
           walQueue' \in Seq(WalCommands),
           \A i \in 1..Len(walQueue') : \E j \in 1..Len(walQueue) : walQueue'[i] = walQueue[j],
           \A i \in 1..Len(walWriter'.buffer) : walWriter'.buffer[i] \in WalSent,
           walFile' \in Seq(WalEntries), \A i \in 1..Len(walFile') : walFile'[i] \in WalSent,
           UNCHANGED <<walOrders, walSeq, walTask, walCkpt, walUp, walEnded, walRaced>>
    PROVE  WalInv'
<1>1. WalShape /\ walUp
  BY DEF WalInv, WriterFree
<1>2. WalHeld' = WalHeld
  BY DEF WalHeld
<1>3. WalSent' \subseteq WalSent
  <2>1. ASSUME NEW i \in 1..Len(walQueue'), NEW e \in WalEntries, walQueue'[i] = Command("Append", e)
        PROVE  e \in WalSent
    BY <2>1, <1>1, SentParts
  <2> QED
    BY <2>1, SentFrom
<1>4. WalShape'
  <2>1. \A i \in 1..Len(walQueue') : walQueue'[i].cmd = "Append" => walQueue'[i].entry # WalNone
    BY <1>1 DEF WalShape
  <2> QED
    BY <2>1, <1>1 DEF WalShape
<1>5. WalDown' /\ WalApplied'
  BY <1>1 DEF WalInv, WalDown, WalApplied
<1> QED
  BY <1>2, <1>3, <1>4, <1>5, WalQuiet

\* The writer with another buffer.
LEMMA Rebuffered ==
    ASSUME walWriter \in WalWriters, NEW b \in Seq(WalEntries),
           \/ walWriter' = [walWriter EXCEPT !.buffer = b]
           \/ walWriter' = [walWriter EXCEPT !.buffer = b, !.running = FALSE]
    PROVE  /\ walWriter' \in WalWriters /\ walWriter'.buffer = b
           /\ walWriter'.seen = walWriter.seen /\ walWriter'.collected = walWriter.collected
BY DEF WalWriters

LEMMA NoEntries == << >> \in Seq(WalEntries) /\ \A i \in 1..Len(<< >>) : FALSE
OBVIOUS

LEMMA TakeAppendKeeps ==
    ASSUME WalInv, TakeAppend
    PROVE  WalInv'
<1> DEFINE e == Head(walQueue).entry
           buffer == Append(walWriter.buffer, e)
<1>1. /\ WalShape /\ WriterFree /\ walQueue # << >> /\ Head(walQueue).cmd = "Append" /\ walQueue' = Tail(walQueue)
      /\ IF Len(buffer) >= WalBufferSize
         THEN flush_buffer(buffer) /\ walWriter' = [walWriter EXCEPT !.buffer = << >>]
         ELSE walWriter' = [walWriter EXCEPT !.buffer = buffer] /\ UNCHANGED <<walFile, walFaults>>
      /\ UNCHANGED <<walOrders, walSeq, walTask, walCkpt, walUp, walEnded, walRaced>>
  BY DEF WalInv, TakeAppend
<1>2. e \in WalEntries /\ e \in WalSent
  <2>1. walQueue \in Seq(WalCommands) /\ 1 \in 1..Len(walQueue) /\ Head(walQueue) = walQueue[1]
    BY <1>1 DEF WalShape
  <2>2. walQueue[1] \in WalCommands /\ walQueue[1].cmd = "Append" /\ walQueue[1].entry # WalNone
    BY <1>1, <2>1 DEF WalShape
  <2>3. walQueue[1].entry \in WalEntries /\ walQueue[1] = Command("Append", walQueue[1].entry)
    BY <2>2 DEF WalCommands, Command
  <2> QED
    BY <2>1, <2>3, <1>1, SentParts
<1>3. walWriter \in WalWriters /\ walWriter.buffer \in Seq(WalEntries)
  BY <1>1 DEF WalShape, WalWriters
<1>4. buffer \in Seq(WalEntries) /\ \A i \in 1..Len(buffer) : buffer[i] \in WalSent
  <2>1. /\ buffer \in Seq(WalEntries) /\ Len(buffer) = Len(walWriter.buffer) + 1 /\ buffer[Len(walWriter.buffer) + 1] = e
        /\ \A i \in 1..Len(walWriter.buffer) : buffer[i] = walWriter.buffer[i]
    BY <1>2, <1>3
  <2>2. \A i \in 1..Len(buffer) : i = Len(walWriter.buffer) + 1 \/ i \in 1..Len(walWriter.buffer)
    BY <1>3, <2>1
  <2> HIDE DEF buffer
  <2> QED
    BY <2>1, <2>2, <1>1, <1>2, SentParts
<1> HIDE DEF buffer
<1>5. /\ walFile' \in Seq(WalEntries) /\ \A i \in 1..Len(walFile') : walFile'[i] \in WalSent
  <2>1. CASE flush_buffer(buffer)
    BY <2>1, <1>1, <1>4, FlushSends
  <2>2. CASE UNCHANGED walFile
    <3>1. walFile \in Seq(WalEntries)
      BY <1>1 DEF WalShape
    <3> QED
      BY <2>2, <3>1, <1>1, SentParts
  <2> QED
    BY <1>1, <2>1, <2>2
<1>6. /\ walWriter' \in WalWriters /\ walWriter'.seen = walWriter.seen /\ walWriter'.collected = walWriter.collected
      /\ (walWriter'.buffer = << >> \/ walWriter'.buffer = buffer)
  <2>1. CASE walWriter' = [walWriter EXCEPT !.buffer = << >>]
    BY <2>1, <1>3, Rebuffered, NoEntries
  <2>2. CASE walWriter' = [walWriter EXCEPT !.buffer = buffer]
    BY <2>2, <1>3, <1>4, Rebuffered
  <2> QED
    BY <1>1, <2>1, <2>2
<1>7. \A i \in 1..Len(walWriter'.buffer) : walWriter'.buffer[i] \in WalSent
  <2>1. CASE walWriter'.buffer = << >>
    BY <2>1
  <2>2. CASE walWriter'.buffer = buffer
    BY <2>2, <1>4
  <2> QED
    BY <1>6, <2>1, <2>2
<1>8. /\ walQueue' \in Seq(WalCommands)
      /\ \A i \in 1..Len(walQueue') : \E j \in 1..Len(walQueue) : walQueue'[i] = walQueue[j]
  BY <1>1, RestOfQueue
<1> QED
  BY <1>1, <1>5, <1>6, <1>7, <1>8, WriterQuiet

\* The buffer, flushed whole.
LEMMA BufferFlushed ==
    ASSUME WalInv, flush_buffer(walWriter.buffer)
    PROVE  /\ walFile' \in Seq(WalEntries) /\ \A i \in 1..Len(walFile') : walFile'[i] \in WalSent
           /\ walWriter \in WalWriters
<1>1. WalShape /\ walWriter \in WalWriters /\ walWriter.buffer \in Seq(WalEntries)
  BY DEF WalInv, WalShape, WalWriters
<1> QED
  BY <1>1, FlushSends, SentParts

LEMMA PeriodicFlushKeeps ==
    ASSUME WalInv, PeriodicFlush
    PROVE  WalInv'
<1>1. /\ WriterFree /\ flush_buffer(walWriter.buffer) /\ walWriter' = [walWriter EXCEPT !.buffer = << >>]
      /\ UNCHANGED <<walOrders, walSeq, walTask, walQueue, walCkpt, walUp, walEnded, walRaced>>
  BY DEF PeriodicFlush
<1>2. /\ walFile' \in Seq(WalEntries) /\ \A i \in 1..Len(walFile') : walFile'[i] \in WalSent
      /\ walWriter \in WalWriters
  BY <1>1, BufferFlushed
<1>3. /\ walWriter' \in WalWriters /\ walWriter'.seen = walWriter.seen /\ walWriter'.collected = walWriter.collected
      /\ walWriter'.buffer = << >>
  BY <1>1, <1>2, Rebuffered, NoEntries
<1>4. walQueue' \in Seq(WalCommands) /\ \A i \in 1..Len(walWriter'.buffer) : walWriter'.buffer[i] \in WalSent
  BY <1>1, <1>3 DEF WalInv, WalShape
<1> QED
  BY <1>1, <1>2, <1>3, <1>4, WriterQuiet

LEMMA TakeShutdownKeeps ==
    ASSUME WalInv, TakeShutdown
    PROVE  WalInv'
<1>1. /\ WriterFree /\ flush_buffer(walWriter.buffer) /\ walQueue' = << >>
      /\ walWriter' = [walWriter EXCEPT !.buffer = << >>, !.running = FALSE]
      /\ UNCHANGED <<walOrders, walSeq, walTask, walCkpt, walUp, walEnded, walRaced>>
  BY DEF TakeShutdown
<1>2. /\ walFile' \in Seq(WalEntries) /\ \A i \in 1..Len(walFile') : walFile'[i] \in WalSent
      /\ walWriter \in WalWriters
  BY <1>1, BufferFlushed
<1>3. /\ walWriter' \in WalWriters /\ walWriter'.seen = walWriter.seen /\ walWriter'.collected = walWriter.collected
      /\ walWriter'.buffer = << >>
  BY <1>1, <1>2, Rebuffered, NoEntries
<1>4. /\ walQueue' \in Seq(WalCommands) /\ \A i \in 1..Len(walWriter'.buffer) : walWriter'.buffer[i] \in WalSent
      /\ \A i \in 1..Len(walQueue') : \E j \in 1..Len(walQueue) : walQueue'[i] = walQueue[j]
  BY <1>1, <1>3
<1> QED
  BY <1>1, <1>2, <1>3, <1>4, WriterQuiet

LEMMA TakeCheckpointKeeps ==
    ASSUME WalInv, TakeCheckpoint
    PROVE  WalInv'
<1> DEFINE seen == IF Unapplied THEN 0 ELSE walSeq
<1>1. /\ WalShape /\ walUp /\ walQueue # << >> /\ walQueue' = Tail(walQueue) /\ flush_buffer(walWriter.buffer)
      /\ walWriter' = [walWriter EXCEPT !.buffer = << >>, !.collected = ActiveOrders, !.seen = seen]
      /\ UNCHANGED <<walOrders, walSeq, walTask, walCkpt, walUp, walEnded, walRaced>>
  BY DEF WalInv, TakeCheckpoint, WriterFree
<1>2. /\ walFile' \in Seq(WalEntries) /\ \A i \in 1..Len(walFile') : walFile'[i] \in WalSent
      /\ walWriter \in WalWriters
  BY <1>1, BufferFlushed
<1>3. /\ walQueue' \in Seq(WalCommands)
      /\ \A i \in 1..Len(walQueue') : \E j \in 1..Len(walQueue) : walQueue'[i] = walQueue[j]
      /\ \A i \in 1..Len(walQueue') : walQueue'[i].cmd = "Append" => walQueue'[i].entry # WalNone
  BY <1>1, RestOfQueue
<1>4. /\ ActiveOrders \in WalViews
      /\ \A o \in WalOrders : /\ ActiveOrders[o] # WalNone => ActiveOrders[o] = walOrders[o] /\ ~is_terminal(walOrders[o].state)
                              /\ walOrders[o] # WalNone /\ ~is_terminal(walOrders[o].state) => ActiveOrders[o] # WalNone
  BY <1>1 DEF ActiveOrders, WalShape, WalViews, Views
<1>5. seen \in 0..WalMaxSeq /\ seen <= walSeq
  BY <1>1, OrderWalAssumption DEF WalShape
<1>6. /\ walWriter' \in WalWriters /\ walWriter'.buffer = << >>
      /\ walWriter'.collected = ActiveOrders /\ walWriter'.seen = seen
  <2> HIDE DEF seen
  <2>1. ASSUME NEW b \in Seq(WalEntries), NEW c \in WalViews, NEW n \in 0..WalMaxSeq,
               walWriter' = [walWriter EXCEPT !.buffer = b, !.collected = c, !.seen = n]
        PROVE  walWriter' \in WalWriters /\ walWriter'.buffer = b /\ walWriter'.collected = c /\ walWriter'.seen = n
    BY <2>1, <1>2 DEF WalWriters
  <2> QED
    BY <2>1, <1>1, <1>4, <1>5, NoEntries
<1>7. WalHeld' = WalHeld
  BY <1>1 DEF WalHeld
<1>8. WalSent' \subseteq WalSent
  <2>1. ASSUME NEW i \in 1..Len(walQueue'), NEW e \in WalEntries, walQueue'[i] = Command("Append", e)
        PROVE  e \in WalSent
    BY <2>1, <1>1, <1>3, SentParts
  <2>2. \A i \in 1..Len(walWriter'.buffer) : walWriter'.buffer[i] \in WalSent
    BY <1>6
  <2> QED
    BY <2>1, <2>2, <1>2, SentFrom
<1>9. WalShape'
  BY <1>1, <1>2, <1>3, <1>6 DEF WalShape
<1>10. WalDown' /\ WalApplied'
  BY <1>1 DEF WalInv, WalDown, WalApplied
<1>11. WalEnds'
  <2>1. EndsTold(walOrders)' /\ (walCkpt # WalNone => EndsTold(walCkpt.active))'
    BY <1>1 DEF WalInv, WalEnds, EndsTold
  <2>2. EndsTold(walWriter.collected)'
    BY <1>1, <1>4, <1>6 DEF EndsTold
  <2>3. \A e \in WalHeld' \cup WalSent' : is_terminal(e.state) => e.order \in walEnded'
    BY <1>1, <1>7, <1>8 DEF WalInv, WalEnds
  <2> QED
    BY <2>1, <2>2, <2>3 DEF WalEnds
<1>12. WalNumbers'
  BY <1>1, <1>5, <1>6 DEF WalInv, WalNumbers, CkptSeq
<1>13. ASSUME ~walRaced PROVE WalKnown' /\ WalCollected' /\ WalCheckpointed'
  <2>1. WalKnown' /\ WalCheckpointed'
    BY <1>1, <1>7, <1>8, <1>13 DEF WalInv, WalKnown, WalCheckpointed, CoveredBy
  <2>2. ASSUME NEW e \in WalHeld \cup WalSent, e.seq <= seen
        PROVE  e.order \in walEnded \/ ActiveOrders[e.order] # WalNone
    <3>1. e \in WalEntries /\ e.order \in WalOrders /\ e.seq \in 1..WalMaxSeq
      BY <1>1, SentParts DEF WalShape, WalJobs, WalHeld, WalEntries
    <3>2. e.order \in walEnded \/ walOrders[e.order] # WalNone
      <4>1. CASE e \in WalSent
        BY <4>1, <1>1, <1>13 DEF WalInv, WalKnown, CoveredBy
      <4>2. CASE e \in WalHeld
        <5>1. PICK t \in WalTasks : walTask[t].entry = e /\ e # WalNone
          BY <4>2 DEF WalHeld
        <5>2. ~Unapplied
          <6>1. ~(e.seq <= 0)
            BY <3>1
          <6> QED
            BY <2>2, <6>1
        <5>3. walTask[t].applied
          BY <5>1, <5>2 DEF Unapplied
        <5> QED
          BY <5>1, <5>3 DEF WalInv, WalApplied
      <4> QED
        BY <4>1, <4>2
    <3> QED
      BY <3>1, <3>2, <1>4 DEF WalInv, WalEnds, EndsTold
  <2>3. WalCollected'
    <3> HIDE DEF seen
    <3> QED
      BY <2>2, <1>1, <1>6, <1>7, <1>8 DEF WalCollected, CoveredBy
  <2> QED
    BY <2>1, <2>3
<1> QED
  BY <1>1, <1>9, <1>10, <1>11, <1>12, <1>13 DEF WalInv

LEMMA WriteCheckpointKeeps ==
    ASSUME WalInv, WriteCheckpoint
    PROVE  WalInv'
<1> DEFINE view == walWriter.collected
<1>1. /\ WalShape /\ walUp /\ view # WalNone
      /\ walCkpt' = [seq |-> walSeq, active |-> view]
      /\ walRaced' = (walRaced \/ walWriter.seen < walSeq)
      /\ walWriter' = [walWriter EXCEPT !.collected = WalNone]
      /\ UNCHANGED <<walOrders, walSeq, walTask, walQueue, walFile, walUp, walFaults, walEnded>>
  BY DEF WriteCheckpoint, WalInv
<1>2. walWriter \in WalWriters /\ view \in WalViews /\ walSeq \in 0..WalMaxSeq /\ walWriter.seen \in 0..WalMaxSeq
  BY <1>1 DEF WalShape, WalWriters
<1>3. /\ walWriter' \in WalWriters /\ walWriter'.collected = WalNone
      /\ walWriter'.buffer = walWriter.buffer /\ walWriter'.seen = walWriter.seen
  BY <1>1, <1>2 DEF WalWriters
<1>4. walCkpt' \in WalCkpts /\ walCkpt'.seq = walSeq /\ walCkpt'.active = view /\ walCkpt' # WalNone
  BY <1>1, <1>2, OrderWalAssumption DEF WalCkpts, WalViews
<1>5. WalHeld' = WalHeld /\ WalSent' = WalSent
  BY <1>1, <1>3 DEF WalHeld, WalSent
<1>6. WalShape'
  BY <1>1, <1>3, <1>4 DEF WalShape
<1>7. WalDown' /\ WalApplied'
  BY <1>1 DEF WalInv, WalDown, WalApplied
<1>8. WalEnds'
  BY <1>1, <1>3, <1>4, <1>5 DEF WalInv, WalEnds, EndsTold
<1>9. WalNumbers'
  <2>1. CkptSeq' = walSeq
    BY <1>4 DEF CkptSeq
  <2>2. walWriter.seen <= walSeq
    BY <1>1 DEF WalInv, WalNumbers
  <2> QED
    BY <2>1, <2>2, <1>1, <1>2, <1>3 DEF WalNumbers
<1>10. ASSUME ~walRaced' PROVE ~walRaced /\ WalKnown' /\ WalCollected' /\ WalCheckpointed'
  <2>1. ~walRaced /\ ~(walWriter.seen < walSeq)
    BY <1>1, <1>10
  <2>2. WalKnown'
    BY <2>1, <1>1, <1>5 DEF WalInv, WalKnown, CoveredBy
  <2>3. WalCollected'
    BY <1>3 DEF WalCollected
  <2>4. WalCheckpointed'
    <3> SUFFICES ASSUME NEW e \in WalHeld \cup WalSent, e.seq <= walSeq
                 PROVE  e.order \in walEnded \/ view[e.order] # WalNone
      BY <1>1, <1>4, <1>5 DEF WalCheckpointed, CoveredBy
    <3>1. e.seq \in 1..WalMaxSeq
      BY <1>1, SentParts DEF WalShape, WalJobs, WalHeld, WalEntries
    <3>2. e.seq <= walWriter.seen
      BY <2>1, <3>1, <1>2
    <3> QED
      BY <2>1, <3>2, <1>1 DEF WalInv, WalCollected, CoveredBy
  <2> QED
    BY <2>1, <2>2, <2>3, <2>4
<1> QED
  BY <1>6, <1>7, <1>8, <1>9, <1>10 DEF WalInv

LEMMA WalCrashKeeps ==
    ASSUME WalInv, WalCrash
    PROVE  WalInv'
<1>1. /\ WalShape /\ ~walUp' /\ walOrders' = NoView /\ walSeq' = 0 /\ walTask' = NoJobs
      /\ walQueue' = << >> /\ walWriter' = RestingWriter
      /\ UNCHANGED <<walFile, walCkpt, walEnded, walRaced>>
  BY DEF WalCrash, walDisk, WalInv, NoJobs
<1>2. /\ RestingWriter \in WalWriters /\ RestingWriter.collected = WalNone /\ RestingWriter.buffer = << >>
  <2>1. 0 \in 0..WalMaxSeq
    BY OrderWalAssumption
  <2> QED
    BY <2>1, NoEntries DEF RestingWriter, WalWriters
<1>3. /\ NoJobs \in [WalTasks -> WalJobs] /\ \A t \in WalTasks : NoJobs[t].entry = WalNone /\ ~NoJobs[t].applied
  BY DEF NoJobs, RestingTask, WalJobs
<1>4. NoView \in WalViews /\ \A o \in WalOrders : NoView[o] = WalNone
  BY DEF NoView, WalViews, Views
<1>5. WalHeld' = {}
  BY <1>1, <1>3 DEF WalHeld
<1>6. WalSent' \subseteq WalSent
  <2>1. /\ \A i \in 1..Len(walQueue') : \A e \in WalEntries : walQueue'[i] = Command("Append", e) => e \in WalSent
        /\ \A i \in 1..Len(walWriter'.buffer) : walWriter'.buffer[i] \in WalSent
    BY <1>1, <1>2
  <2>2. \A i \in 1..Len(walFile') : walFile'[i] \in WalSent
    BY <1>1, SentParts
  <2> QED
    BY <2>1, <2>2, SentFrom
<1>7. WalShape'
  <2>1. walQueue' \in Seq(WalCommands) /\ Len(walQueue') = 0 /\ walSeq' \in 0..WalMaxSeq
    BY <1>1, OrderWalAssumption
  <2>2. \A i \in 1..Len(walQueue') : walQueue'[i].cmd = "Append" => walQueue'[i].entry # WalNone
    BY <2>1
  <2> QED
    BY <1>1, <1>2, <1>3, <1>4, <2>1, <2>2 DEF WalShape
<1>8. WalDown' /\ WalNumbers' /\ WalKnown'
  BY <1>1 DEF WalDown, WalNumbers, WalKnown
<1>9. WalApplied'
  BY <1>1, <1>3 DEF WalApplied
<1>10. WalEnds'
  BY <1>1, <1>2, <1>4, <1>5, <1>6 DEF WalInv, WalEnds, EndsTold
<1>11. ASSUME ~walRaced PROVE WalCollected' /\ WalCheckpointed'
  BY <1>1, <1>2, <1>5, <1>6, <1>11 DEF WalInv, WalCollected, WalCheckpointed, CoveredBy
<1> QED
  BY <1>1, <1>7, <1>8, <1>9, <1>10, <1>11 DEF WalInv

\* Every order with an entry past the checkpoint is replayed to one of its entries.
LEMMA ReplaysAll ==
    ASSUME WalShape, NEW view \in WalViews
    PROVE  /\ ReplayedOver(view) \in WalViews
           /\ \A i \in 1..Len(walFile) : walFile[i].seq > CkptSeq => ReplayedOver(view)[walFile[i].order] # WalNone
           /\ \A o \in WalOrders : \/ ReplayedOver(view)[o] = view[o]
                                   \/ \E i \in 1..Len(walFile) : ReplayedOver(view)[o] = walFile[i] /\ walFile[i].order = o
           /\ \A o \in WalOrders : view[o] # WalNone => ReplayedOver(view)[o] # WalNone
<1>1. walFile \in Seq(WalEntries) /\ Len(walFile) \in Nat /\ DOMAIN walFile = 1..Len(walFile)
  BY DEF WalShape
<1>2. \A i \in 1..Len(walFile) : walFile[i] \in WalEntries /\ walFile[i].order \in WalOrders /\ walFile[i] # WalNone
  <2>1. \A i \in 1..Len(walFile) : walFile[i] \in WalEntries /\ walFile[i] # WalNone
    BY <1>1, OrderWalAssumption
  <2>2. \A e \in WalEntries : e.order \in WalOrders
    BY DEF WalEntries
  <2> QED
    BY <2>1, <2>2
<1>3. ASSUME NEW o \in WalOrders, ReplayedOf(o) # {}
      PROVE  Max(ReplayedOf(o)) \in 1..Len(walFile) /\ walFile[Max(ReplayedOf(o))].order = o
  <2>1. ReplayedOf(o) \in SUBSET (1..Len(walFile)) /\ \A i \in ReplayedOf(o) : walFile[i].order = o
    BY <1>1 DEF ReplayedOf, Replayed
  <2>2. Max(ReplayedOf(o)) \in ReplayedOf(o)
    BY <2>1, <1>1, <1>3, MaxInSet
  <2> QED
    BY <2>1, <2>2
<1> DEFINE after == ReplayedOver(view)
<1>4. \A o \in WalOrders : after[o] = IF ReplayedOf(o) = {} THEN view[o] ELSE walFile[Max(ReplayedOf(o))]
  BY DEF ReplayedOver
<1>5. after = [o \in WalOrders |-> after[o]]
  BY DEF ReplayedOver
<1> HIDE DEF after
<1>6. ASSUME NEW o \in WalOrders PROVE after[o] \in WalEntries \cup {WalNone}
  <2>1. view[o] \in WalEntries \cup {WalNone}
    BY DEF WalViews, Views
  <2> QED
    BY <2>1, <1>2, <1>3, <1>4
<1>7. after \in WalViews
  BY <1>5, <1>6 DEF WalViews, Views
<1>8. ASSUME NEW i \in 1..Len(walFile), walFile[i].seq > CkptSeq PROVE after[walFile[i].order] # WalNone
  <2>1. walFile[i].order \in WalOrders /\ ReplayedOf(walFile[i].order) # {}
    BY <1>1, <1>2, <1>8 DEF ReplayedOf, Replayed
  <2> QED
    BY <2>1, <1>2, <1>3, <1>4
<1>9. ASSUME NEW o \in WalOrders
      PROVE  /\ after[o] = view[o] \/ \E i \in 1..Len(walFile) : after[o] = walFile[i] /\ walFile[i].order = o
             /\ view[o] # WalNone => after[o] # WalNone
  BY <1>2, <1>3, <1>4
<1> QED
  BY <1>7, <1>8, <1>9 DEF after

LEMMA RecoverKeeps ==
    ASSUME WalInv, recover
    PROVE  WalInv'
<1> DEFINE view == IF walCkpt = WalNone THEN NoView ELSE walCkpt.active
           S == {CkptSeq} \cup {walFile[i].seq : i \in Replayed}
<1>1. /\ WalShape /\ ~walUp /\ walUp' /\ walOrders' = ReplayedOver(view) /\ walSeq' = Max(S)
      /\ UNCHANGED <<walTask, walQueue, walWriter, walFile, walCkpt, walEnded, walRaced>>
  BY DEF recover, walDisk, WalInv
<1>2. walTask = NoJobs /\ walQueue = << >> /\ walWriter = RestingWriter
  BY <1>1 DEF WalInv, WalDown
<1>3. view \in WalViews
  <2>1. NoView \in WalViews
    BY DEF NoView, WalViews, Views
  <2> QED
    BY <2>1, <1>1 DEF WalShape, WalCkpts
<1>4. EndsTold(view)
  BY DEF WalInv, WalEnds, EndsTold, NoView
<1>5. CkptSeq \in 0..WalMaxSeq /\ WalMaxSeq \in Nat
  BY <1>1, OrderWalAssumption DEF WalShape, WalCkpts, CkptSeq
<1>6. \A i \in 1..Len(walFile) : walFile[i] \in WalEntries /\ walFile[i].seq \in 1..WalMaxSeq /\ walFile[i].order \in WalOrders
  BY <1>1, SentParts DEF WalEntries
<1>7. walSeq' \in 0..WalMaxSeq /\ CkptSeq <= walSeq'
  <2>1. S \in SUBSET (0..WalMaxSeq) /\ S # {} /\ CkptSeq \in S
    <3>1. Replayed \subseteq 1..Len(walFile)
      BY <1>1 DEF Replayed, WalShape
    <3>2. \A i \in 1..Len(walFile) : walFile[i].seq \in 0..WalMaxSeq
      BY <1>5, <1>6
    <3> QED
      BY <1>5, <3>1, <3>2
  <2>2. Max(S) \in S /\ \A y \in S : Max(S) >= y
    BY <2>1, <1>5, MaxOfSet
  <2>3. Max(S) \in 0..WalMaxSeq /\ Max(S) >= CkptSeq
    BY <2>1, <2>2
  <2> HIDE DEF S
  <2> QED
    BY <1>1, <1>5, <2>3
<1> HIDE DEF S, view
<1>8. /\ walOrders' \in WalViews
      /\ \A i \in 1..Len(walFile) : walFile[i].seq > CkptSeq => walOrders'[walFile[i].order] # WalNone
      /\ \A o \in WalOrders : \/ walOrders'[o] = view[o]
                              \/ \E i \in 1..Len(walFile) : walOrders'[o] = walFile[i] /\ walFile[i].order = o
      /\ \A o \in WalOrders : view[o] # WalNone => walOrders'[o] # WalNone
  BY <1>1, <1>3, ReplaysAll
<1>9. /\ RestingWriter.collected = WalNone /\ RestingWriter.seen = 0 /\ RestingWriter.buffer = << >>
      /\ \A t \in WalTasks : NoJobs[t].entry = WalNone /\ ~NoJobs[t].applied
  BY DEF RestingWriter, NoJobs, RestingTask
<1>10. WalHeld' = WalHeld /\ WalSent' = WalSent
  BY <1>1 DEF WalHeld, WalSent
<1>11. WalShape'
  BY <1>1, <1>7, <1>8 DEF WalShape
<1>12. WalDown'
  BY <1>1 DEF WalDown
<1>13. WalApplied'
  BY <1>1, <1>2, <1>9 DEF WalApplied
<1>14. WalNumbers'
  <2>1. CkptSeq' = CkptSeq /\ walWriter'.seen = 0
    BY <1>1, <1>2, <1>9 DEF CkptSeq
  <2> QED
    BY <2>1, <1>5, <1>7 DEF WalNumbers
<1>15. WalEnds'
  <2>1. EndsTold(walOrders)'
    <3> SUFFICES ASSUME NEW o \in WalOrders, walOrders'[o] # WalNone, is_terminal(walOrders'[o].state)
                 PROVE  o \in walEnded
      BY <1>1 DEF EndsTold
    <3>1. CASE walOrders'[o] = view[o]
      BY <3>1, <1>4 DEF EndsTold
    <3>2. CASE \E i \in 1..Len(walFile) : walOrders'[o] = walFile[i] /\ walFile[i].order = o
      <4>1. PICK i \in 1..Len(walFile) : walOrders'[o] = walFile[i] /\ walFile[i].order = o
        BY <3>2
      <4>2. walFile[i] \in WalSent
        BY <1>1, SentParts
      <4> QED
        BY <4>1, <4>2 DEF WalInv, WalEnds
    <3> QED
      BY <3>1, <3>2, <1>8
  <2> QED
    BY <2>1, <1>1, <1>2, <1>9, <1>10 DEF WalInv, WalEnds, EndsTold
<1>16. ASSUME ~walRaced PROVE WalKnown' /\ WalCollected' /\ WalCheckpointed'
  <2>1. ASSUME NEW e \in WalSent PROVE e.order \in walEnded \/ walOrders'[e.order] # WalNone
    <3>1. PICK i \in 1..Len(walFile) : walFile[i] = e
      <4>1. Len(walQueue) = 0 /\ Len(walWriter.buffer) = 0
        BY <1>2, <1>9
      <4> QED
        BY <4>1 DEF WalSent
    <3>2. e.seq \in 1..WalMaxSeq /\ e.order \in WalOrders
      BY <3>1, <1>6
    <3>3. CASE e.seq > CkptSeq
      BY <3>1, <3>3, <1>8
    <3>4. CASE ~(e.seq > CkptSeq)
      <4>1. walCkpt # WalNone /\ e.seq <= walCkpt.seq
        BY <3>2, <3>4, <1>5 DEF CkptSeq
      <4>2. e.order \in walEnded \/ walCkpt.active[e.order] # WalNone
        BY <4>1, <1>16 DEF WalInv, WalCheckpointed, CoveredBy
      <4> QED
        BY <4>1, <4>2, <3>2, <1>8 DEF view
    <3> QED
      BY <3>3, <3>4
  <2>2. WalKnown'
    BY <2>1, <1>1, <1>10 DEF WalKnown, CoveredBy
  <2> QED
    BY <2>2, <1>1, <1>2, <1>9, <1>10, <1>16 DEF WalInv, WalCollected, WalCheckpointed, CoveredBy
<1> QED
  BY <1>1, <1>11, <1>12, <1>13, <1>14, <1>15, <1>16 DEF WalInv

LEMMA WalStart == WalInit => WalInv
<1> SUFFICES ASSUME WalInit PROVE WalInv
  OBVIOUS
<1>1. /\ walOrders = NoView /\ walSeq = 0 /\ walTask = NoJobs /\ walQueue = << >> /\ walWriter = RestingWriter
      /\ walFile = << >> /\ walCkpt = WalNone /\ walUp
  BY DEF WalInit, NoJobs
<1>2. 0 \in 0..WalMaxSeq
  BY OrderWalAssumption
<1>3. /\ RestingWriter \in WalWriters /\ RestingWriter.collected = WalNone /\ RestingWriter.buffer = << >> /\ RestingWriter.seen = 0
  BY <1>2, NoEntries DEF RestingWriter, WalWriters
<1>4. /\ NoJobs \in [WalTasks -> WalJobs] /\ \A t \in WalTasks : NoJobs[t].entry = WalNone /\ ~NoJobs[t].applied
  BY DEF NoJobs, RestingTask, WalJobs
<1>5. NoView \in WalViews /\ \A o \in WalOrders : NoView[o] = WalNone
  BY DEF NoView, WalViews, Views
<1>6. WalHeld = {} /\ WalSent = {}
  <2>1. Len(walQueue) = 0 /\ Len(walWriter.buffer) = 0 /\ Len(walFile) = 0
    BY <1>1, <1>3
  <2> QED
    BY <2>1, <1>1, <1>4 DEF WalHeld, WalSent
<1>7. WalShape
  <2>1. walQueue \in Seq(WalCommands) /\ walFile \in Seq(WalEntries) /\ Len(walQueue) = 0
    BY <1>1
  <2>2. \A i \in 1..Len(walQueue) : walQueue[i].cmd = "Append" => walQueue[i].entry # WalNone
    BY <2>1
  <2> QED
    BY <1>1, <1>2, <1>3, <1>4, <1>5, <2>1, <2>2 DEF WalShape
<1>8. WalNumbers
  BY <1>1, <1>3 DEF WalNumbers, CkptSeq
<1> QED
  BY <1>1, <1>3, <1>4, <1>5, <1>6, <1>7, <1>8
     DEF WalInv, WalDown, WalEnds, EndsTold, WalApplied, WalKnown, WalCollected, WalCheckpointed

LEMMA WalStep == WalInv /\ [WalNext]_walVars => WalInv'
<1> SUFFICES ASSUME WalInv, [WalNext]_walVars PROVE WalInv'
  OBVIOUS
<1>1. CASE \E t \in WalTasks : \/ \E o \in WalOrders, s \in WalStates : NumberEntry(t, o, s)
                               \/ apply_entry(t) \/ SendEntry(t)
  BY <1>1, NumberEntryKeeps, ApplyEntryKeeps, SendEntryKeeps
<1>2. CASE RequestShutdown \/ TakeAppend \/ PeriodicFlush \/ TakeShutdown
  BY <1>2, RequestShutdownKeeps, TakeAppendKeeps, PeriodicFlushKeeps, TakeShutdownKeeps
<1>3. CASE TakeCheckpoint \/ WriteCheckpoint \/ WalCrash \/ recover
  BY <1>3, TakeCheckpointKeeps, WriteCheckpointKeeps, WalCrashKeeps, RecoverKeeps
<1>4. CASE UNCHANGED walVars
  <2>1. UNCHANGED <<walOrders, walSeq, walTask, walQueue, walWriter, walFile, walCkpt, walUp, walEnded, walRaced>>
    BY <1>4 DEF walVars
  <2>2. WalHeld' = WalHeld /\ WalSent' = WalSent /\ CkptSeq' = CkptSeq
    BY <2>1 DEF WalHeld, WalSent, CkptSeq
  <2>3. WalShape' /\ WalDown' /\ WalApplied'
    BY <2>1 DEF WalInv, WalShape, WalDown, WalApplied
  <2> QED
    BY <2>1, <2>2, <2>3, WalQuiet
<1> QED
  BY <1>1, <1>2, <1>3, <1>4 DEF WalNext

\* The log forgets no order that reached the disk and has not ended, through any
\* number of crashes, failed flushes and checkpoints, as long as no checkpoint took
\* a sequence number whose entry it had not seen applied (write_checkpoint, recover).
THEOREM WalRemembers == WalSpec => []WalForgetsOnlyInRace
<1>1. WalInv => WalForgetsOnlyInRace
  <2> SUFFICES ASSUME WalInv, ~walRaced, walUp, NEW o \in OnDisk \ walEnded
               PROVE  walOrders[o] # WalNone
    BY DEF WalForgetsOnlyInRace, WalNeverForgets
  <2>1. PICK i \in 1..Len(walFile) : walFile[i].order = o
    BY DEF OnDisk, WalInv, WalShape
  <2>2. walFile[i] \in WalSent
    BY SentParts DEF WalInv
  <2> QED
    BY <2>1, <2>2 DEF WalInv, WalKnown, CoveredBy
<1> QED
  BY <1>1, WalStart, WalStep, PTL DEF WalSpec

-----------------------------------------------------------------------------
(* The retry worker of the dead letter queue: what is left to be sent. *)

RwEntries == [id : RwIds, retries : Nat, status : RwStatuses]
RwWorkers == [running : BOOLEAN, batch : Seq(RwEntries), pc : {"next", "send", "done"}]

OneEach(s) == \A i, j \in 1..Len(s) : s[i].id = s[j].id => i = j
\* mark_retrying has counted the retry that retry_fn is about to make.
Sending(id) == rwWorker.pc = "send" /\ rwWorker.batch[1].id = id
\* The entries of the copied batch that are still to be sent.
Unsent == {k \in 1..Len(rwWorker.batch) : k > 1 \/ rwWorker.pc # "done"}

\* A limit of zero still lets the worker make the first retry.
RwLimit == IF RwMaxRetries = 0 THEN 1 ELSE RwMaxRetries

RwShape ==
    /\ rwQueue \in Seq(RwEntries) /\ rwWorker \in RwWorkers
    /\ rwSends \in [RwIds -> Nat]
    /\ OneEach(rwQueue) /\ OneEach(rwWorker.batch)
    /\ ~rwWorker.running => rwWorker.pc = "next" /\ rwWorker.batch = << >>
    /\ rwWorker.pc # "next" => rwWorker.batch # << >>
    /\ \A i \in 1..Len(rwQueue) : rwQueue[i].id \in rwUsed
    /\ \A id \in RwIds \ rwUsed : rwSends[id] = 0 /\ \A k \in 1..Len(rwWorker.batch) : rwWorker.batch[k].id # id
RwCounted ==
    \A i \in 1..Len(rwQueue) :
        rwQueue[i].retries = rwSends[rwQueue[i].id] + (IF Sending(rwQueue[i].id) THEN 1 ELSE 0)
RwPending == \A i \in 1..Len(rwQueue) : rwQueue[i].status = "Pending" => rwQueue[i].retries < RwLimit
RwLeft == \A k \in Unsent : rwSends[rwWorker.batch[k].id] < RwLimit
RwBound == \A id \in RwIds : rwSends[id] <= RwLimit

RwLive == RwShape /\ RwCounted /\ RwPending /\ RwLeft /\ RwBound
RwInv ==
    /\ rwCrashes \in Nat
    /\ rwCrashes = 0 => RwLive

\* The parts of an entry.
LEMMA RwEntryParts ==
    \A e \in RwEntries : e.id \in RwIds /\ e.retries \in Nat /\ e.status \in RwStatuses
BY DEF RwEntries

LEMMA RwLimitPositive == RwLimit \in Nat /\ RwLimit > 0 /\ RwMaxRetries \in Nat /\ RwMaxRetries <= RwLimit
BY RetryWorkerAssumption DEF RwLimit

\* The types of the parts, in the form the steps use.
LEMMA RwTyped ==
    ASSUME RwShape
    PROVE  /\ Len(rwQueue) \in Nat /\ \A i \in 1..Len(rwQueue) : rwQueue[i] \in RwEntries
           /\ rwWorker.batch \in Seq(RwEntries) /\ Len(rwWorker.batch) \in Nat
           /\ \A k \in 1..Len(rwWorker.batch) : rwWorker.batch[k] \in RwEntries
           /\ rwWorker.pc \in {"next", "send", "done"}
           /\ rwWorker.batch # << >> => 1 \in 1..Len(rwWorker.batch) /\ Head(rwWorker.batch) = rwWorker.batch[1]
<1>1. rwQueue \in Seq(RwEntries) /\ rwWorker.batch \in Seq(RwEntries) /\ rwWorker.pc \in {"next", "send", "done"}
  BY DEF RwShape, RwWorkers
<1> QED
  BY <1>1

\* A step that changes the queue only: each entry left was there before, as pending
\* then if it is pending now, or is a new one.
LEMMA QueueOnly ==
    ASSUME RwLive, UNCHANGED <<rwWorker, rwSends>>,
           rwQueue' \in Seq(RwEntries), OneEach(rwQueue'),
           rwUsed \subseteq rwUsed', \A i \in 1..Len(rwQueue') : rwQueue'[i].id \in rwUsed',
           \A i \in 1..Len(rwQueue') :
               \/ rwQueue'[i].id \in RwIds \ rwUsed /\ rwQueue'[i].retries = 0
               \/ \E j \in 1..Len(rwQueue) : /\ rwQueue'[i].id = rwQueue[j].id /\ rwQueue'[i].retries = rwQueue[j].retries
                                             /\ rwQueue'[i].status = "Pending" => rwQueue[j].status = "Pending"
    PROVE  RwLive'
<1>1. RwShape
  BY DEF RwLive
<1>2. RwShape'
  BY <1>1 DEF RwShape
<1>3. RwLeft' /\ RwBound'
  BY DEF RwLive, RwLeft, RwBound, Unsent
<1>4. ASSUME NEW i \in 1..Len(rwQueue')
      PROVE  /\ rwQueue'[i].retries = rwSends[rwQueue'[i].id] + (IF Sending(rwQueue'[i].id) THEN 1 ELSE 0)
             /\ rwQueue'[i].status = "Pending" => rwQueue'[i].retries < RwLimit
  <2>1. CASE rwQueue'[i].id \in RwIds \ rwUsed /\ rwQueue'[i].retries = 0
    <3>1. ~Sending(rwQueue'[i].id)
      BY <2>1, <1>1, RwTyped DEF RwShape, Sending
    <3>2. rwSends[rwQueue'[i].id] = 0
      BY <2>1, <1>1 DEF RwShape
    <3> QED
      BY <2>1, <3>1, <3>2, RwLimitPositive
  <2>2. CASE \E j \in 1..Len(rwQueue) : /\ rwQueue'[i].id = rwQueue[j].id /\ rwQueue'[i].retries = rwQueue[j].retries
                                        /\ rwQueue'[i].status = "Pending" => rwQueue[j].status = "Pending"
    BY <2>2 DEF RwLive, RwCounted, RwPending
  <2> QED
    BY <2>1, <2>2
<1>5. RwCounted' /\ RwPending'
  BY <1>4 DEF RwCounted, RwPending, Sending
<1> QED
  BY <1>2, <1>3, <1>5 DEF RwLive

\* RwUpdated changes the entry of one order and keeps the order of the queue.
LEMMA QueueMapped ==
    ASSUME RwShape, NEW f, rwQueue' = [i \in 1..Len(rwQueue) |-> f[i]],
           \A i \in 1..Len(rwQueue) : f[i] \in RwEntries /\ f[i].id = rwQueue[i].id
    PROVE  /\ rwQueue' \in Seq(RwEntries) /\ Len(rwQueue') = Len(rwQueue) /\ OneEach(rwQueue')
           /\ \A i \in 1..Len(rwQueue) : rwQueue'[i] = f[i]
           /\ \A i \in 1..Len(rwQueue) : rwQueue'[i].id \in rwUsed
<1>1. Len(rwQueue) \in Nat
  BY RwTyped
<1>2. rwQueue' \in [1..Len(rwQueue) -> RwEntries] /\ \A i \in 1..Len(rwQueue) : rwQueue'[i] = f[i]
  BY <1>1
<1>3. rwQueue' \in Seq(RwEntries) /\ Len(rwQueue') = Len(rwQueue)
  BY <1>1, <1>2
<1>4. OneEach(rwQueue')
  BY <1>2, <1>3 DEF RwShape, OneEach
<1> QED
  BY <1>2, <1>3, <1>4 DEF RwShape

LEMMA RwDismissKeeps ==
    ASSUME RwLive, NEW id \in RwIds, dismiss(id)
    PROVE  RwLive'
<1> DEFINE f == [i \in 1..Len(rwQueue) |-> IF rwQueue[i].id = id THEN [rwQueue[i] EXCEPT !.status = "Dismissed"] ELSE rwQueue[i]]
<1>1. /\ RwShape /\ rwQueue' = f
      /\ UNCHANGED <<rwWorker, rwUsed, rwSends>>
  BY DEF dismiss, RwUpdated, RwLive
<1>2. ASSUME NEW i \in 1..Len(rwQueue)
      PROVE  /\ f[i] \in RwEntries /\ f[i].id = rwQueue[i].id /\ f[i].retries = rwQueue[i].retries
             /\ f[i].status = "Pending" => rwQueue[i].status = "Pending"
  <2>1. rwQueue[i] \in RwEntries
    BY <1>1, RwTyped
  <2> QED
    BY <2>1 DEF RwEntries, RwStatuses
<1>3. rwQueue' = [i \in 1..Len(rwQueue) |-> f[i]]
  BY <1>1
<1> HIDE DEF f
<1>4. /\ rwQueue' \in Seq(RwEntries) /\ Len(rwQueue') = Len(rwQueue) /\ OneEach(rwQueue')
      /\ \A i \in 1..Len(rwQueue) : rwQueue'[i] = f[i]
      /\ \A i \in 1..Len(rwQueue) : rwQueue'[i].id \in rwUsed
  BY <1>1, <1>2, <1>3, QueueMapped
<1>5. \A i \in 1..Len(rwQueue') :
          \E j \in 1..Len(rwQueue) : /\ rwQueue'[i].id = rwQueue[j].id /\ rwQueue'[i].retries = rwQueue[j].retries
                                     /\ rwQueue'[i].status = "Pending" => rwQueue[j].status = "Pending"
  BY <1>2, <1>4
<1> QED
  BY <1>1, <1>4, <1>5, QueueOnly

\* A queue that keeps some of the entries, in their order.
LEMMA QueueThinned ==
    ASSUME RwLive, UNCHANGED <<rwWorker, rwSends, rwUsed>>, rwQueue' \in Seq(RwEntries),
           NEW g, \A i \in 1..Len(rwQueue') : g[i] \in 1..Len(rwQueue) /\ rwQueue'[i] = rwQueue[g[i]],
           \A i, j \in 1..Len(rwQueue') : g[i] = g[j] => i = j
    PROVE  RwLive'
<1>1. RwShape
  BY DEF RwLive
<1>2. OneEach(rwQueue') /\ \A i \in 1..Len(rwQueue') : rwQueue'[i].id \in rwUsed
  <2>1. \A m, n \in 1..Len(rwQueue) : rwQueue[m].id = rwQueue[n].id => m = n
    BY <1>1 DEF RwShape, OneEach
  <2>2. ASSUME NEW i \in 1..Len(rwQueue'), NEW j \in 1..Len(rwQueue'), rwQueue'[i].id = rwQueue'[j].id PROVE i = j
    <3>1. g[i] = g[j]
      BY <2>1, <2>2
    <3> QED
      BY <3>1
  <2>3. \A m \in 1..Len(rwQueue) : rwQueue[m].id \in rwUsed
    BY <1>1 DEF RwShape
  <2>4. \A i \in 1..Len(rwQueue') : rwQueue'[i].id \in rwUsed
    BY <2>3
  <2> QED
    BY <2>2, <2>4 DEF OneEach
<1>3. \A i \in 1..Len(rwQueue') :
          \E j \in 1..Len(rwQueue) : /\ rwQueue'[i].id = rwQueue[j].id /\ rwQueue'[i].retries = rwQueue[j].retries
                                     /\ rwQueue'[i].status = "Pending" => rwQueue[j].status = "Pending"
  OBVIOUS
<1> QED
  BY <1>2, <1>3, QueueOnly

LEMMA RwCleanupKeeps ==
    ASSUME RwLive, NEW id \in RwIds, cleanup(id)
    PROVE  RwLive'
<1>1. RwShape /\ UNCHANGED <<rwWorker, rwUsed, rwSends>>
  BY DEF RwLive, cleanup
<1>2. PICK n \in 1..Len(rwQueue) : rwQueue' = SubSeq(rwQueue, 1, n - 1) \o SubSeq(rwQueue, n + 1, Len(rwQueue))
  BY DEF cleanup, RemoveAt
<1>3. rwQueue \in Seq(RwEntries) /\ Len(rwQueue) \in Nat /\ n \in Nat /\ n <= Len(rwQueue) /\ n >= 1
  BY <1>1, <1>2, RwTyped DEF RwShape
<1> DEFINE a == SubSeq(rwQueue, 1, n - 1)
           b == SubSeq(rwQueue, n + 1, Len(rwQueue))
           g == [i \in 1..(Len(rwQueue) - 1) |-> IF i < n THEN i ELSE i + 1]
<1>4. a \in Seq(RwEntries) /\ Len(a) = n - 1 /\ \A i \in 1..(n - 1) : a[i] = rwQueue[i]
  BY <1>3
<1>5. b \in Seq(RwEntries) /\ Len(b) = Len(rwQueue) - n /\ \A i \in 1..(Len(rwQueue) - n) : b[i] = rwQueue[n + i]
  BY <1>3
<1> HIDE DEF a, b
<1>6. /\ rwQueue' = a \o b /\ rwQueue' \in Seq(RwEntries) /\ Len(rwQueue') = Len(rwQueue) - 1
  <2>1. rwQueue' = a \o b
    BY <1>2 DEF a, b
  <2>2. a \o b \in Seq(RwEntries) /\ Len(a \o b) = Len(a) + Len(b)
    BY <1>4, <1>5
  <2> QED
    BY <2>1, <2>2, <1>3, <1>4, <1>5
<1>7. ASSUME NEW i \in 1..Len(rwQueue') PROVE g[i] \in 1..Len(rwQueue) /\ rwQueue'[i] = rwQueue[g[i]]
  <2>1. CASE i < n
    <3>1. i \in 1..(n - 1) /\ i \in 1..Len(rwQueue) /\ g[i] = i
      BY <1>3, <1>6, <2>1
    <3>2. rwQueue'[i] = a[i]
      BY <1>3, <1>4, <1>5, <1>6, <3>1
    <3> QED
      BY <1>4, <3>1, <3>2
  <2>2. CASE i >= n
    <3> DEFINE k == i - n + 1
    <3>1. k \in 1..(Len(rwQueue) - n) /\ i + 1 \in 1..Len(rwQueue) /\ g[i] = i + 1 /\ n + k = i + 1
      BY <1>3, <1>6, <2>2
    <3>2. rwQueue'[i] = b[k]
      BY <1>3, <1>4, <1>5, <1>6, <2>2
    <3> QED
      BY <1>5, <3>1, <3>2
  <2> QED
    BY <2>1, <2>2, <1>3
<1>8. \A i, j \in 1..Len(rwQueue') : g[i] = g[j] => i = j
  BY <1>3, <1>6
<1> HIDE DEF g
<1> QED
  BY <1>1, <1>6, <1>7, <1>8, QueueThinned

\* The oldest entry makes room; the others stay.
LEMMA RoomMadeKeeps ==
    ASSUME RwLive
    PROVE  /\ RoomMade \in Seq(RwEntries) /\ OneEach(RoomMade)
           /\ \A i \in 1..Len(RoomMade) : \E j \in 1..Len(rwQueue) : RoomMade[i] = rwQueue[j]
<1>1. RwShape /\ rwQueue \in Seq(RwEntries) /\ Len(rwQueue) \in Nat /\ OneEach(rwQueue)
  BY DEF RwLive, RwShape
<1>2. CASE ~(Len(rwQueue) >= RwCapacity)
  <2>1. RoomMade = rwQueue
    BY <1>2 DEF RoomMade
  <2> QED
    BY <1>1, <2>1
<1>3. CASE Len(rwQueue) >= RwCapacity
  <2>1. RoomMade = Tail(rwQueue) /\ rwQueue # << >> /\ Len(rwQueue) >= 1
    BY <1>1, <1>3, RetryWorkerAssumption DEF RoomMade
  <2> DEFINE r == Tail(rwQueue)
  <2>2. r \in Seq(RwEntries) /\ Len(r) = Len(rwQueue) - 1 /\ \A i \in 1..Len(r) : r[i] = rwQueue[i + 1]
    BY <1>1, <2>1
  <2>3. \A i \in 1..Len(r) : i + 1 \in 1..Len(rwQueue)
    BY <1>1, <2>2
  <2> HIDE DEF r
  <2>4. ASSUME NEW i \in 1..Len(r), NEW j \in 1..Len(r), r[i].id = r[j].id PROVE i = j
    <3>1. i + 1 = j + 1
      BY <1>1, <2>2, <2>3, <2>4 DEF OneEach
    <3> QED
      BY <3>1, <2>2
  <2>5. OneEach(r) /\ \A i \in 1..Len(r) : \E j \in 1..Len(rwQueue) : r[i] = rwQueue[j]
    BY <2>2, <2>3, <2>4 DEF OneEach
  <2> QED
    BY <2>1, <2>2, <2>5 DEF r
<1> QED
  BY <1>2, <1>3

LEMMA RwEnqueueKeeps ==
    ASSUME RwLive, NEW id \in RwIds, NEW retryable \in BOOLEAN, RwEnqueue(id, retryable)
    PROVE  RwLive'
<1> DEFINE entry == [id |-> id, retries |-> 0, status |-> IF retryable THEN "Pending" ELSE "PermanentFailure"]
           r == RoomMade
<1>1. /\ id \notin rwUsed /\ rwUsed' = rwUsed \cup {id} /\ rwQueue' = Append(r, entry)
      /\ UNCHANGED <<rwWorker, rwSends>>
  BY DEF RwEnqueue
<1>2. entry \in RwEntries /\ entry.id = id /\ entry.retries = 0
  BY DEF RwEntries, RwStatuses
<1>3. /\ r \in Seq(RwEntries) /\ OneEach(r)
      /\ \A i \in 1..Len(r) : \E j \in 1..Len(rwQueue) : r[i] = rwQueue[j]
  BY RoomMadeKeeps
<1> HIDE DEF entry, r
<1>4. /\ rwQueue' \in Seq(RwEntries) /\ Len(rwQueue') = Len(r) + 1 /\ Len(r) \in Nat
      /\ rwQueue'[Len(r) + 1] = entry /\ \A i \in 1..Len(r) : rwQueue'[i] = r[i]
  BY <1>1, <1>2, <1>3
<1>5. \A i \in 1..Len(rwQueue') : i = Len(r) + 1 \/ i \in 1..Len(r)
  BY <1>4
<1>6. \A i \in 1..Len(r) : rwQueue'[i].id \in rwUsed /\ rwQueue'[i].id # id
  BY <1>1, <1>3, <1>4 DEF RwLive, RwShape
<1>7. OneEach(rwQueue')
  <2> SUFFICES ASSUME NEW i \in 1..Len(rwQueue'), NEW j \in 1..Len(rwQueue'), rwQueue'[i].id = rwQueue'[j].id PROVE i = j
    BY DEF OneEach
  <2>1. CASE i \in 1..Len(r) /\ j \in 1..Len(r)
    BY <2>1, <1>3, <1>4 DEF OneEach
  <2>2. CASE i = Len(r) + 1 \/ j = Len(r) + 1
    BY <2>2, <1>2, <1>4, <1>5, <1>6
  <2> QED
    BY <2>1, <2>2, <1>5
<1>8. \A i \in 1..Len(rwQueue') : rwQueue'[i].id \in rwUsed'
  BY <1>1, <1>2, <1>4, <1>5, <1>6
<1>9. \A i \in 1..Len(rwQueue') :
          \/ rwQueue'[i].id \in RwIds \ rwUsed /\ rwQueue'[i].retries = 0
          \/ \E j \in 1..Len(rwQueue) : rwQueue'[i] = rwQueue[j]
  BY <1>1, <1>2, <1>3, <1>4, <1>5
<1>10. \A i \in 1..Len(rwQueue') :
           \/ rwQueue'[i].id \in RwIds \ rwUsed /\ rwQueue'[i].retries = 0
           \/ \E j \in 1..Len(rwQueue) : /\ rwQueue'[i].id = rwQueue[j].id /\ rwQueue'[i].retries = rwQueue[j].retries
                                         /\ rwQueue'[i].status = "Pending" => rwQueue[j].status = "Pending"
  BY <1>9
<1> QED
  BY <1>1, <1>4, <1>7, <1>8, <1>10, QueueOnly

\* A step of the worker between two entries: what is left of its batch was there.
LEMMA BatchOnly ==
    ASSUME RwLive, UNCHANGED <<rwQueue, rwUsed, rwSends>>, rwWorker.pc = "next", rwWorker'.pc = "next",
           rwWorker' \in RwWorkers, OneEach(rwWorker'.batch), rwWorker'.running \/ rwWorker'.batch = << >>,
           \A k \in 1..Len(rwWorker'.batch) :
               \/ \E m \in 1..Len(rwWorker.batch) : rwWorker'.batch[k] = rwWorker.batch[m]
               \/ \E i \in 1..Len(rwQueue) : rwWorker'.batch[k] = rwQueue[i] /\ rwQueue[i].status = "Pending"
    PROVE  RwLive'
<1>1. RwShape /\ rwQueue \in Seq(RwEntries) /\ rwSends \in [RwIds -> Nat]
  BY DEF RwLive, RwShape
<1>2. \A id : ~Sending(id) /\ ~Sending(id)'
  BY DEF Sending
<1>3. RwShape'
  <2>1. \A id \in RwIds \ rwUsed : rwSends[id] = 0 /\ \A k \in 1..Len(rwWorker'.batch) : rwWorker'.batch[k].id # id
    BY <1>1 DEF RwShape
  <2> QED
    BY <1>1, <2>1 DEF RwShape
<1>4. RwCounted'
  BY <1>2 DEF RwLive, RwCounted
<1>5. RwPending' /\ RwBound'
  BY DEF RwLive, RwPending, RwBound
<1>6. RwLeft'
  <2> SUFFICES ASSUME NEW k \in 1..Len(rwWorker'.batch) PROVE rwSends[rwWorker'.batch[k].id] < RwLimit
    BY DEF RwLeft, Unsent
  <2>1. CASE \E m \in 1..Len(rwWorker.batch) : rwWorker'.batch[k] = rwWorker.batch[m]
    BY <2>1 DEF RwLive, RwLeft, Unsent
  <2>2. CASE \E i \in 1..Len(rwQueue) : rwWorker'.batch[k] = rwQueue[i] /\ rwQueue[i].status = "Pending"
    <3>1. PICK i \in 1..Len(rwQueue) : rwWorker'.batch[k] = rwQueue[i] /\ rwQueue[i].status = "Pending"
      BY <2>2
    <3>2. rwQueue[i].retries < RwLimit
      BY <3>1 DEF RwLive, RwPending
    <3>3. rwQueue[i].retries = rwSends[rwQueue[i].id] + 0
      BY <1>2 DEF RwLive, RwCounted
    <3>4. rwSends[rwQueue[i].id] \in Nat
      BY <1>1, RwTyped, RwEntryParts
    <3> QED
      BY <3>1, <3>2, <3>3, <3>4
  <2> QED
    BY <2>1, <2>2
<1> QED
  BY <1>3, <1>4, <1>5, <1>6 DEF RwLive

LEMMA RwStopKeeps ==
    ASSUME RwLive, RwStart \/ RwStop
    PROVE  RwLive'
<1>1. RwShape /\ rwWorker.pc = "next" /\ UNCHANGED <<rwQueue, rwUsed, rwSends>>
  BY DEF RwLive, RwShape, RwStart, RwStop
<1>2. PICK r \in BOOLEAN : rwWorker' = [running |-> r, batch |-> << >>, pc |-> "next"]
  <2>1. CASE RwStart
    <3>1. rwWorker' = [RwStopped EXCEPT !.running = TRUE]
      BY <2>1 DEF RwStart
    <3>2. rwWorker' = [running |-> TRUE, batch |-> << >>, pc |-> "next"]
      BY <3>1 DEF RwStopped
    <3> QED
      BY <3>2
  <2>2. CASE RwStop
    BY <2>2 DEF RwStop, RwStopped
  <2> QED
    BY <2>1, <2>2
<1>3. rwWorker' \in RwWorkers /\ rwWorker'.pc = "next" /\ rwWorker'.batch = << >>
  BY <1>2 DEF RwWorkers
<1>4. OneEach(rwWorker'.batch) /\ Len(rwWorker'.batch) = 0
  BY <1>3 DEF OneEach
<1> QED
  BY <1>1, <1>3, <1>4, BatchOnly

LEMMA GetPendingKeeps ==
    ASSUME RwLive, get_pending
    PROVE  RwLive'
<1>1. /\ RwShape /\ rwWorker \in RwWorkers /\ rwWorker.running /\ rwWorker.pc = "next"
      /\ UNCHANGED <<rwQueue, rwUsed, rwSends>>
  BY DEF RwLive, RwShape, get_pending
<1>2. PICK f \in Ascending(PendingAt) : rwWorker' = [rwWorker EXCEPT !.batch = [k \in DOMAIN f |-> rwQueue[f[k]]]]
  BY DEF get_pending
<1> DEFINE n == Cardinality(PendingAt)
           b == [k \in DOMAIN f |-> rwQueue[f[k]]]
<1>3. n \in Nat
  <2>1. PendingAt \subseteq 1..Len(rwQueue) /\ Len(rwQueue) \in Nat
    BY <1>1, RwTyped DEF PendingAt
  <2>2. IsFiniteSet(1..Len(rwQueue))
    BY <2>1, FS_Interval
  <2> QED
    BY <2>1, <2>2, FS_Subset, FS_CardinalityType
<1>4. f \in [1..n -> PendingAt] /\ \A k, l \in 1..n : k < l => f[k] < f[l]
  BY DEF Ascending
<1> HIDE DEF n
<1>5. \A k \in 1..n : f[k] \in 1..Len(rwQueue) /\ rwQueue[f[k]].status = "Pending"
  BY <1>4 DEF PendingAt
<1>6. b \in [1..n -> RwEntries] /\ \A k \in 1..n : b[k] = rwQueue[f[k]]
  BY <1>1, <1>4, <1>5, RwTyped
<1> HIDE DEF b
<1>7. b \in Seq(RwEntries) /\ Len(b) = n
  BY <1>3, <1>6
<1>8. \A k, l \in 1..n : f[k] = f[l] => k = l
  <2> SUFFICES ASSUME NEW k \in 1..n, NEW l \in 1..n, f[k] = f[l], k # l PROVE FALSE
    OBVIOUS
  <2>1. f[k] \in Nat /\ f[l] \in Nat /\ ~(f[k] < f[l]) /\ ~(f[l] < f[k])
    BY <1>5, <1>1, RwTyped
  <2>2. k < l \/ l < k
    BY <1>3
  <2> QED
    BY <2>1, <2>2, <1>4
<1>9. OneEach(b)
  <2>1. \A i, j \in 1..Len(rwQueue) : rwQueue[i].id = rwQueue[j].id => i = j
    BY <1>1 DEF RwShape, OneEach
  <2> QED
    BY <2>1, <1>5, <1>6, <1>7, <1>8 DEF OneEach
<1>10. rwWorker' \in RwWorkers /\ rwWorker'.pc = "next" /\ rwWorker'.batch = b /\ rwWorker'.running
  <2>1. rwWorker' = [rwWorker EXCEPT !.batch = b]
    BY <1>2 DEF b
  <2> QED
    BY <2>1, <1>1, <1>7 DEF RwWorkers
<1> QED
  BY <1>1, <1>5, <1>6, <1>7, <1>9, <1>10, BatchOnly

\* The rest of the batch.
LEMMA RestOfBatch ==
    ASSUME RwShape, rwWorker.batch # << >>, NEW b, b = Tail(rwWorker.batch)
    PROVE  /\ b \in Seq(RwEntries) /\ OneEach(b) /\ Len(b) \in Nat
           /\ \A k \in 1..Len(b) : k + 1 \in 1..Len(rwWorker.batch) /\ b[k] = rwWorker.batch[k + 1]
           /\ \A k \in 1..Len(b) : b[k].id # rwWorker.batch[1].id
<1> DEFINE s == rwWorker.batch
<1>1. s \in Seq(RwEntries) /\ s # << >> /\ OneEach(s) /\ b = Tail(s) /\ 1 \in 1..Len(s)
  BY RwTyped DEF RwShape
<1> HIDE DEF s
<1>2. b \in Seq(RwEntries) /\ Len(b) = Len(s) - 1 /\ Len(b) \in Nat /\ \A k \in 1..Len(b) : b[k] = s[k + 1]
  <2>1. Tail(s) \in Seq(RwEntries) /\ Len(Tail(s)) = Len(s) - 1 /\ \A k \in 1..Len(Tail(s)) : Tail(s)[k] = s[k + 1]
    BY <1>1
  <2>2. Len(Tail(s)) \in Nat
    BY <2>1
  <2> QED
    BY <1>1, <2>1, <2>2
<1>3. \A k \in 1..Len(b) : k + 1 \in 1..Len(s) /\ k + 1 # 1
  BY <1>1, <1>2
<1>4. ASSUME NEW i \in 1..Len(b), NEW j \in 1..Len(b), b[i].id = b[j].id PROVE i = j
  <2>1. i + 1 = j + 1
    BY <1>1, <1>2, <1>3, <1>4 DEF OneEach
  <2> QED
    BY <2>1, <1>2
<1>5. \A k \in 1..Len(b) : b[k].id # s[1].id
  BY <1>1, <1>2, <1>3 DEF OneEach
<1> QED
  BY <1>2, <1>3, <1>4, <1>5 DEF OneEach, s

LEMMA RwSkipKeeps ==
    ASSUME RwLive, RwSkip
    PROVE  RwLive'
<1> DEFINE b == Tail(rwWorker.batch)
<1>1. /\ RwShape /\ rwWorker \in RwWorkers /\ rwWorker.pc = "next" /\ rwWorker.batch # << >>
      /\ rwWorker' = [rwWorker EXCEPT !.batch = b] /\ UNCHANGED <<rwQueue, rwUsed, rwSends>>
  BY DEF RwLive, RwShape, RwSkip
<1>2. /\ b \in Seq(RwEntries) /\ OneEach(b)
      /\ \A k \in 1..Len(b) : k + 1 \in 1..Len(rwWorker.batch) /\ b[k] = rwWorker.batch[k + 1]
  BY <1>1, RestOfBatch
<1> HIDE DEF b
<1>3. rwWorker' \in RwWorkers /\ rwWorker'.pc = "next" /\ rwWorker'.batch = b /\ rwWorker'.running
  <2>1. rwWorker.running
    BY <1>1 DEF RwShape
  <2> QED
    BY <2>1, <1>1, <1>2 DEF RwWorkers
<1> QED
  BY <1>1, <1>2, <1>3, BatchOnly

\* The entry mark_retrying leaves.
Retried(e) == [e EXCEPT !.status = "Retrying", !.retries = e.retries + 1]

LEMMA RetriedEntry ==
    ASSUME NEW e \in RwEntries
    PROVE  /\ Retried(e) \in RwEntries /\ Retried(e).id = e.id
           /\ Retried(e).retries = e.retries + 1 /\ Retried(e).status = "Retrying"
<1>1. e.retries + 1 \in Nat
  BY RwEntryParts
<1>2. ASSUME NEW n \in Nat
      PROVE  LET r == [e EXCEPT !.status = "Retrying", !.retries = n]
             IN  r \in RwEntries /\ r.id = e.id /\ r.retries = n /\ r.status = "Retrying"
  BY DEF RwEntries, RwStatuses
<1> QED
  BY <1>1, <1>2 DEF Retried

LEMMA MarkRetryingKeeps ==
    ASSUME RwLive, RwMarkRetrying
    PROVE  RwLive'
<1> DEFINE h == rwWorker.batch[1].id
           f == [i \in 1..Len(rwQueue) |-> IF rwQueue[i].id = h
                                           THEN [rwQueue[i] EXCEPT !.status = "Retrying", !.retries = rwQueue[i].retries + 1]
                                           ELSE rwQueue[i]]
<1>1. /\ RwShape /\ rwWorker \in RwWorkers /\ rwWorker.pc = "next" /\ rwWorker.batch # << >>
      /\ rwWorker' = [rwWorker EXCEPT !.pc = "send"] /\ UNCHANGED <<rwUsed, rwSends>>
      /\ rwQueue' = f
  <2>1. RwShape /\ rwWorker.batch # << >>
    BY DEF RwLive, RwMarkRetrying
  <2>2. Head(rwWorker.batch) = rwWorker.batch[1]
    BY <2>1, RwTyped
  <2> QED
    BY <2>1, <2>2 DEF RwShape, RwMarkRetrying, RwUpdated
<1>2. ASSUME NEW i \in 1..Len(rwQueue)
      PROVE  /\ f[i] \in RwEntries /\ f[i].id = rwQueue[i].id
             /\ rwQueue[i].id = h => f[i].retries = rwQueue[i].retries + 1 /\ f[i].status = "Retrying"
             /\ rwQueue[i].id # h => f[i] = rwQueue[i]
  <2>1. rwQueue[i] \in RwEntries
    BY <1>1, RwTyped
  <2>2. f[i] = IF rwQueue[i].id = h THEN Retried(rwQueue[i]) ELSE rwQueue[i]
    BY DEF Retried
  <2> HIDE DEF f
  <2> QED
    BY <2>1, <2>2, RetriedEntry
<1>3. rwQueue' = [i \in 1..Len(rwQueue) |-> f[i]]
  BY <1>1
<1> HIDE DEF f, h
<1>4. /\ rwQueue' \in Seq(RwEntries) /\ Len(rwQueue') = Len(rwQueue) /\ OneEach(rwQueue')
      /\ \A i \in 1..Len(rwQueue) : rwQueue'[i] = f[i]
      /\ \A i \in 1..Len(rwQueue) : rwQueue'[i].id \in rwUsed
  BY <1>1, <1>2, <1>3, QueueMapped
<1>5. /\ rwWorker' \in RwWorkers /\ rwWorker'.pc = "send" /\ rwWorker'.batch = rwWorker.batch
      /\ rwWorker'.running = rwWorker.running
  BY <1>1 DEF RwWorkers
<1>6. rwWorker.running
  BY <1>1 DEF RwLive, RwShape
<1>7. RwShape'
  BY <1>1, <1>4, <1>5, <1>6 DEF RwShape
<1>8. \A id : ~Sending(id) /\ (Sending(id)' <=> id = h)
  BY <1>1, <1>5 DEF Sending, h
<1>9. RwCounted'
  <2> SUFFICES ASSUME NEW i \in 1..Len(rwQueue)
               PROVE  f[i].retries = rwSends[f[i].id] + (IF f[i].id = h THEN 1 ELSE 0)
    BY <1>1, <1>4, <1>8 DEF RwCounted
  <2>1. rwQueue[i].retries = rwSends[rwQueue[i].id] + 0 /\ rwSends[rwQueue[i].id] \in Nat
    BY <1>1, <1>8, RwTyped, RwEntryParts DEF RwLive, RwShape, RwCounted
  <2> QED
    BY <2>1, <1>2
<1>10. RwPending'
  BY <1>2, <1>4 DEF RwLive, RwPending
<1>11. RwLeft' /\ RwBound'
  BY <1>1, <1>5 DEF RwLive, RwLeft, RwBound, Unsent
<1> QED
  BY <1>7, <1>9, <1>10, <1>11 DEF RwLive

LEMMA RwSendKeeps ==
    ASSUME RwLive, RwSend
    PROVE  RwLive'
<1> DEFINE h == rwWorker.batch[1].id
<1>1. /\ RwShape /\ rwWorker \in RwWorkers /\ rwWorker.pc = "send" /\ rwWorker.batch # << >> /\ rwWorker.running
      /\ rwSends \in [RwIds -> Nat]
  BY DEF RwLive, RwShape, RwSend
<1>2. /\ 1 \in 1..Len(rwWorker.batch) /\ Head(rwWorker.batch) = rwWorker.batch[1] /\ h \in RwIds
  BY <1>1, RwTyped, RwEntryParts
<1>3. /\ rwSends' = [rwSends EXCEPT ![h] = rwSends[h] + 1] /\ rwWorker' = [rwWorker EXCEPT !.pc = "done"]
      /\ UNCHANGED <<rwQueue, rwUsed>>
  BY <1>2 DEF RwSend
<1>4. rwSends[h] < RwLimit /\ rwSends[h] \in Nat
  BY <1>1, <1>2 DEF RwLive, RwLeft, Unsent
<1>5. /\ rwSends' \in [RwIds -> Nat] /\ rwSends'[h] = rwSends[h] + 1 /\ rwSends'[h] <= RwLimit
      /\ \A id \in RwIds \ {h} : rwSends'[id] = rwSends[id]
  <2> HIDE DEF h
  <2> QED
    BY <1>1, <1>2, <1>3, <1>4, RwLimitPositive
<1>6. /\ rwWorker' \in RwWorkers /\ rwWorker'.pc = "done" /\ rwWorker'.batch = rwWorker.batch
      /\ rwWorker'.running = rwWorker.running
  BY <1>1, <1>3 DEF RwWorkers
<1>7. h \in rwUsed
  BY <1>1, <1>2 DEF RwShape
<1>8. \A k \in 1..Len(rwWorker.batch) : k > 1 => rwWorker.batch[k].id # h /\ rwWorker.batch[k].id \in RwIds
  BY <1>1, <1>2, RwTyped, RwEntryParts DEF RwShape, OneEach
<1>9. \A id : (Sending(id) <=> id = h) /\ ~Sending(id)'
  BY <1>1, <1>6 DEF Sending
<1> HIDE DEF h
<1>10. RwShape'
  BY <1>1, <1>3, <1>5, <1>6, <1>7 DEF RwShape
<1>11. RwCounted'
  <2> SUFFICES ASSUME NEW i \in 1..Len(rwQueue)
               PROVE  rwQueue[i].retries = rwSends'[rwQueue[i].id] + 0
    BY <1>3, <1>9 DEF RwCounted
  <2>1. rwQueue[i].retries = rwSends[rwQueue[i].id] + (IF rwQueue[i].id = h THEN 1 ELSE 0)
    BY <1>9 DEF RwLive, RwCounted
  <2>2. rwQueue[i].id \in RwIds /\ rwSends[rwQueue[i].id] \in Nat
    BY <1>1, RwTyped, RwEntryParts
  <2> QED
    BY <2>1, <2>2, <1>5
<1>12. RwPending'
  BY <1>3 DEF RwLive, RwPending
<1>13. RwLeft'
  <2> SUFFICES ASSUME NEW k \in 1..Len(rwWorker.batch), k > 1
               PROVE  rwSends'[rwWorker.batch[k].id] < RwLimit
    BY <1>6 DEF RwLeft, Unsent
  <2>1. rwSends[rwWorker.batch[k].id] < RwLimit
    BY <1>1 DEF RwLive, RwLeft, Unsent
  <2> QED
    BY <2>1, <1>5, <1>8
<1>14. RwBound'
  BY <1>5 DEF RwLive, RwBound
<1> QED
  BY <1>10, <1>11, <1>12, <1>13, <1>14 DEF RwLive

\* What mark_resolved and mark_retry_failed leave: pending only below the limit.
LEMMA AnsweredEntry ==
    ASSUME NEW e \in RwEntries
    PROVE  \A a \in {[e EXCEPT !.status = "Resolved"], AfterFailure(e)} :
               /\ a \in RwEntries /\ a.id = e.id /\ a.retries = e.retries
               /\ a.status = "Pending" => e.retries < RwLimit
<1>1. e.retries \in Nat
  BY RwEntryParts
<1>2. ASSUME NEW s \in RwStatuses
      PROVE  LET a == [e EXCEPT !.status = s] IN a \in RwEntries /\ a.id = e.id /\ a.retries = e.retries /\ a.status = s
  BY DEF RwEntries
<1>3. PICK s \in RwStatuses : AfterFailure(e) = [e EXCEPT !.status = s] /\ (s = "Pending" => e.retries < RwLimit)
  <2>1. CASE e.retries >= RwMaxRetries
    BY <2>1 DEF AfterFailure, RwStatuses
  <2>2. CASE ~(e.retries >= RwMaxRetries)
    <3>1. e.retries < RwLimit
      BY <1>1, <2>2, RwLimitPositive
    <3> QED
      BY <2>2, <3>1 DEF AfterFailure, RwStatuses
  <2> QED
    BY <2>1, <2>2
<1> DEFINE r == [e EXCEPT !.status = "Resolved"]
           x == [e EXCEPT !.status = s]
<1>4. r \in RwEntries /\ r.id = e.id /\ r.retries = e.retries /\ r.status = "Resolved"
  BY DEF RwEntries, RwStatuses
<1>5. x \in RwEntries /\ x.id = e.id /\ x.retries = e.retries /\ x.status = s
  BY <1>2
<1>6. \A a \in {r, x} : /\ a \in RwEntries /\ a.id = e.id /\ a.retries = e.retries
                        /\ a.status = "Pending" => e.retries < RwLimit
  <2> HIDE DEF r, x
  <2> QED
    BY <1>3, <1>4, <1>5
<1> QED
  BY <1>3, <1>6

LEMMA RwAnsweredKeeps ==
    ASSUME RwLive, NEW ok \in BOOLEAN, RwAnswered(ok)
    PROVE  RwLive'
<1> DEFINE h == rwWorker.batch[1].id
           b == Tail(rwWorker.batch)
           f == [i \in 1..Len(rwQueue) |-> IF rwQueue[i].id = h
                                           THEN IF ok THEN [rwQueue[i] EXCEPT !.status = "Resolved"] ELSE AfterFailure(rwQueue[i])
                                           ELSE rwQueue[i]]
<1>1. /\ RwShape /\ rwWorker \in RwWorkers /\ rwWorker.pc = "done" /\ rwWorker.batch # << >> /\ rwWorker.running
      /\ rwSends \in [RwIds -> Nat]
  BY DEF RwLive, RwShape, RwAnswered
<1>2. /\ rwQueue' = f /\ rwWorker' = [rwWorker EXCEPT !.pc = "next", !.batch = b] /\ UNCHANGED <<rwUsed, rwSends>>
  <2>1. Head(rwWorker.batch) = rwWorker.batch[1]
    BY <1>1, RwTyped
  <2>2. CASE ok
    BY <2>1, <2>2 DEF RwAnswered, RwUpdated
  <2>3. CASE ~ok
    BY <2>1, <2>3 DEF RwAnswered, RwUpdated
  <2> QED
    BY <2>2, <2>3
<1>3. ASSUME NEW i \in 1..Len(rwQueue)
      PROVE  /\ f[i] \in RwEntries /\ f[i].id = rwQueue[i].id /\ f[i].retries = rwQueue[i].retries
             /\ f[i].status = "Pending" => rwQueue[i].retries < RwLimit
  <2>1. rwQueue[i] \in RwEntries
    BY <1>1, RwTyped
  <2>2. rwQueue[i].status = "Pending" => rwQueue[i].retries < RwLimit
    BY DEF RwLive, RwPending
  <2>3. f[i] \in {[rwQueue[i] EXCEPT !.status = "Resolved"], AfterFailure(rwQueue[i])} \/ f[i] = rwQueue[i]
    OBVIOUS
  <2> HIDE DEF f
  <2> QED
    BY <2>1, <2>2, <2>3, AnsweredEntry
<1>4. rwQueue' = [i \in 1..Len(rwQueue) |-> f[i]]
  BY <1>2
<1> HIDE DEF f
<1>5. /\ rwQueue' \in Seq(RwEntries) /\ Len(rwQueue') = Len(rwQueue) /\ OneEach(rwQueue')
      /\ \A i \in 1..Len(rwQueue) : rwQueue'[i] = f[i]
      /\ \A i \in 1..Len(rwQueue) : rwQueue'[i].id \in rwUsed
  BY <1>1, <1>3, <1>4, QueueMapped
<1>6. /\ b \in Seq(RwEntries) /\ OneEach(b) /\ Len(b) \in Nat
      /\ \A k \in 1..Len(b) : k + 1 \in 1..Len(rwWorker.batch) /\ b[k] = rwWorker.batch[k + 1]
  BY <1>1, RestOfBatch
<1> HIDE DEF b
<1>7. rwWorker' \in RwWorkers /\ rwWorker'.pc = "next" /\ rwWorker'.batch = b /\ rwWorker'.running = rwWorker.running
  BY <1>1, <1>2, <1>6 DEF RwWorkers
<1>8. RwShape'
  <2>1. \A id \in RwIds \ rwUsed : rwSends[id] = 0 /\ \A k \in 1..Len(b) : b[k].id # id
    BY <1>1, <1>6 DEF RwShape
  <2> QED
    BY <1>1, <1>2, <1>5, <1>6, <1>7, <2>1 DEF RwShape
<1>9. \A id : ~Sending(id) /\ ~Sending(id)'
  BY <1>1, <1>7 DEF Sending
<1>10. RwCounted'
  BY <1>2, <1>3, <1>5, <1>9 DEF RwLive, RwCounted
<1>11. RwPending'
  BY <1>3, <1>5 DEF RwPending
<1>12. RwLeft'
  <2> SUFFICES ASSUME NEW k \in 1..Len(b) PROVE rwSends[b[k].id] < RwLimit
    BY <1>2, <1>7 DEF RwLeft, Unsent
  <2>1. k + 1 \in 1..Len(rwWorker.batch) /\ k + 1 > 1 /\ b[k] = rwWorker.batch[k + 1]
    BY <1>6
  <2> QED
    BY <2>1 DEF RwLive, RwLeft, Unsent
<1>13. RwBound'
  BY <1>2 DEF RwLive, RwBound
<1> QED
  BY <1>8, <1>10, <1>11, <1>12, <1>13 DEF RwLive

LEMMA RwSame ==
    ASSUME RwLive, UNCHANGED <<rwQueue, rwWorker, rwUsed, rwSends>>
    PROVE  RwLive'
BY DEF RwLive, RwShape, RwCounted, RwPending, RwLeft, RwBound, Sending, Unsent, OneEach

LEMMA RwBegin == RwInit => RwInv
<1> SUFFICES ASSUME RwInit PROVE RwInv
  OBVIOUS
<1>1. /\ rwQueue = << >> /\ rwWorker = RwStopped /\ rwUsed = {} /\ rwSends = [id \in RwIds |-> 0] /\ rwCrashes = 0
      /\ Len(rwQueue) = 0 /\ rwQueue \in Seq(RwEntries)
  BY DEF RwInit
<1>2. RwStopped \in RwWorkers /\ RwStopped.pc = "next" /\ RwStopped.batch = << >>
  BY DEF RwStopped, RwWorkers
<1>3. Len(rwWorker.batch) = 0 /\ rwSends \in [RwIds -> Nat] /\ \A id \in RwIds : rwSends[id] = 0
  BY <1>1, <1>2
<1>4. RwShape
  BY <1>1, <1>2, <1>3 DEF RwShape, OneEach
<1>5. RwCounted /\ RwPending /\ RwLeft
  BY <1>1, <1>3 DEF RwCounted, RwPending, RwLeft, Unsent
<1>6. RwBound
  BY <1>3, RwLimitPositive DEF RwBound
<1> QED
  BY <1>1, <1>4, <1>5, <1>6 DEF RwInv, RwLive

LEMMA RwStep == RwInv /\ [RwNext]_rwVars => RwInv'
<1> SUFFICES ASSUME RwInv, [RwNext]_rwVars PROVE RwInv'
  OBVIOUS
<1>1. rwCrashes \in Nat
  BY DEF RwInv
<1>2. CASE RwRestart
  <2>1. rwCrashes' = rwCrashes + 1
    BY <1>2 DEF RwRestart
  <2> QED
    BY <1>1, <2>1 DEF RwInv
<1>3. CASE ~RwRestart
  <2>1. UNCHANGED rwCrashes
    BY <1>3 DEF RwNext, rwVars, RwEnqueue, dismiss, cleanup, persist, RwStart, RwStop, get_pending, RwSkip,
                RwMarkRetrying, RwSend, RwAnswered
  <2> SUFFICES ASSUME RwLive PROVE RwLive'
    BY <1>1, <2>1 DEF RwInv
  <2>2. CASE \E id \in RwIds : (\E r \in BOOLEAN : RwEnqueue(id, r)) \/ dismiss(id) \/ cleanup(id)
    BY <2>2, RwEnqueueKeeps, RwDismissKeeps, RwCleanupKeeps
  <2>3. CASE persist \/ UNCHANGED rwVars
    <3>1. UNCHANGED <<rwQueue, rwWorker, rwUsed, rwSends>>
      BY <2>3 DEF persist, rwVars
    <3> QED
      BY <3>1, RwSame
  <2>4. CASE RwStart \/ RwStop \/ get_pending \/ RwSkip
    BY <2>4, RwStopKeeps, GetPendingKeeps, RwSkipKeeps
  <2>5. CASE RwMarkRetrying \/ RwSend \/ \E ok \in BOOLEAN : RwAnswered(ok)
    BY <2>5, MarkRetryingKeeps, RwSendKeeps, RwAnsweredKeeps
  <2> QED
    BY <1>3, <2>2, <2>3, <2>4, <2>5 DEF RwNext
<1> QED
  BY <1>2, <1>3

\* The retry worker sends a failed order at most max_retries times in one life of
\* the process, whatever is dismissed, evicted and cleaned away while it works
\* through its copy.  (max_retries = 0 is left out: the worker still sends once,
\* since mark_retry_failed looks at the limit only after a retry.)
THEOREM RetriesAreBounded ==
    ASSUME RwMaxRetries # 0
    PROVE  RwSpec => []DlqRetriesBounded
<1>1. RwInv => DlqRetriesBounded
  BY DEF RwInv, RwLive, RwBound, RwLimit, DlqRetriesBounded
<1> QED
  BY <1>1, RwBegin, RwStep, PTL DEF RwSpec
=============================================================================
