---------------------------- MODULE Backpressure ----------------------------
(***************************************************************************)
(* executionhandler backpressure.rs: a request is refused at the hard      *)
(* limit, slowed at the soft limit, and then waits for a permit of the     *)
(* rate semaphore; dropping the permit releases it.  The depth is read     *)
(* before the waits and raised after them.  Statistics, the peak and       *)
(* current_rate_limit (adjusted, and read by nothing that admits a         *)
(* request) are left out, as is an exchange's own queue_depth, which       *)
(* nothing ever raises.                                                    *)
(***************************************************************************)
EXTENDS Naturals, FiniteSets

CONSTANTS
    BpTasks,       \* concurrent requests
    BpExchanges,   \* exchanges they go to
    SoftLimit, HardLimit,
    BpPermits,     \* initial_rate_limit: permits of the semaphore
    ErrorLimit,    \* consecutive errors that make an exchange unhealthy (5)
    BpMaxCalls     \* bound: requests admitted in one behaviour

ASSUME BackpressureAssumption ==
    /\ IsFiniteSet(BpTasks) /\ BpExchanges # {} /\ BpPermits \in Nat
    /\ SoftLimit \in Nat /\ HardLimit \in Nat /\ SoftLimit <= HardLimit

VARIABLES
    bp,       \* depth, permits of the semaphore, state, under_pressure
    bpErrors, \* bpErrors[e]: consecutive_errors
    bpTask,   \* bpTask[t]: where its request is and its exchange
    bpCalls   \* history: requests admitted

bpVars == <<bp, bpErrors, bpTask, bpCalls>>

BpTypeOK ==
    /\ bp \in [depth : 0..Cardinality(BpTasks), permits : 0..(BpPermits + BpMaxCalls),
               state : {"Normal", "Throttled", "Saturated"}, pressure : BOOLEAN]
    /\ bpErrors \in [BpExchanges -> 0..(ErrorLimit + 1)]
    /\ bpTask \in [BpTasks -> [pc : {"idle", "checked", "waiting", "held"}, exchange : BpExchanges]]
    /\ bpCalls \in 0..BpMaxCalls

BpInit ==
    /\ bp = [depth |-> 0, permits |-> BpPermits, state |-> "Normal", pressure |-> FALSE]
    /\ bpErrors = [e \in BpExchanges |-> 0]
    /\ bpTask = [t \in BpTasks |-> [pc |-> "idle", exchange |-> CHOOSE e \in BpExchanges : TRUE]]
    /\ bpCalls = 0

-----------------------------------------------------------------------------
BpGoto(t, pc) == bpTask' = [bpTask EXCEPT ![t].pc = pc]
Unhealthy(e) == bpErrors[e] > ErrorLimit

\* try_acquire_for_exchange: an unhealthy exchange is refused before anything else.
try_acquire_for_exchange(t, e) ==
    /\ bpTask[t].pc = "idle"
    /\ ~Unhealthy(e)
    /\ bpTask' = [bpTask EXCEPT ![t] = [pc |-> "checked", exchange |-> e]]
    /\ UNCHANGED <<bp, bpErrors, bpCalls>>

\* try_acquire up to its first wait: the depth decides between refusing, throttling
\* (and sleeping) and going on.
CheckDepth(t) ==
    /\ bpTask[t].pc = "checked"
    /\ \/ /\ bp.depth >= HardLimit
          /\ bp' = [bp EXCEPT !.state = "Saturated"]
          /\ BpGoto(t, "idle")
       \/ /\ bp.depth >= SoftLimit /\ bp.depth < HardLimit
          /\ bp' = [bp EXCEPT !.state = "Throttled", !.pressure = TRUE]
          /\ BpGoto(t, "waiting")
       \/ /\ bp.depth < SoftLimit
          /\ bp' = [bp EXCEPT !.pressure = FALSE]
          /\ BpGoto(t, "waiting")
    /\ UNCHANGED <<bpErrors, bpCalls>>

\* The permit came in time: the depth is raised without another look at the limit.
AcquirePermit(t) ==
    /\ bpTask[t].pc = "waiting" /\ bp.permits > 0 /\ bpCalls < BpMaxCalls
    /\ bp' = [bp EXCEPT !.permits = @ - 1, !.depth = @ + 1,
                        !.state = IF bp.depth + 1 < SoftLimit THEN "Normal" ELSE @]
    /\ BpGoto(t, "held")
    /\ bpCalls' = bpCalls + 1
    /\ UNCHANGED bpErrors

\* A plausible slip: the request that gave up is still counted in.
PermitTimeoutCounted(t) ==
    /\ bpTask[t].pc = "waiting"
    /\ BpGoto(t, "idle")
    /\ bp' = [bp EXCEPT !.depth = @ + 1]
    /\ UNCHANGED <<bpErrors, bpCalls>>

PermitTimeout(t) == bpTask[t].pc = "waiting" /\ BpGoto(t, "idle") /\ UNCHANGED <<bp, bpErrors, bpCalls>>

\* Drop of BackpressurePermit: release() lowers the depth and adds a permit, and then the
\* semaphore permit held in the same struct is dropped and adds it once more.
release(t) ==
    /\ bpTask[t].pc = "held"
    /\ bp' = [bp EXCEPT !.depth = @ - 1, !.permits = @ + 2]
    /\ BpGoto(t, "idle")
    /\ UNCHANGED <<bpErrors, bpCalls>>

record_exchange_error(t) ==
    /\ bpTask[t].pc = "held"
    /\ bpErrors' = [bpErrors EXCEPT ![bpTask[t].exchange] = IF @ > ErrorLimit THEN @ ELSE @ + 1]
    /\ UNCHANGED <<bp, bpTask, bpCalls>>

record_exchange_success(t) ==
    /\ bpTask[t].pc = "held"
    /\ bpErrors' = [bpErrors EXCEPT ![bpTask[t].exchange] = 0]
    /\ UNCHANGED <<bp, bpTask, bpCalls>>

BpNext ==
    \E t \in BpTasks :
        \/ \E e \in BpExchanges : try_acquire_for_exchange(t, e)
        \/ CheckDepth(t) \/ AcquirePermit(t) \/ PermitTimeout(t) \/ release(t)
        \/ record_exchange_error(t) \/ record_exchange_success(t)

BpSpec == BpInit /\ [][BpNext]_bpVars

-----------------------------------------------------------------------------
\* However requests are refused, time out or finish, no permit of the semaphore leaks and
\* the depth counts exactly the permits held: a drained controller is back at depth 0
\* with every permit available.
NoPermitLost ==
    /\ bp.depth = Cardinality({t \in BpTasks : bpTask[t].pc = "held"})
    /\ bp.permits + bp.depth >= BpPermits

\* The rate semaphore never holds more permits than the limit it was created with:
\* what the permits of try_acquire are for.
PermitsConserved == bp.permits + bp.depth <= BpPermits
=============================================================================
