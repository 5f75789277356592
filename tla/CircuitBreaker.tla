--------------------------- MODULE CircuitBreaker ---------------------------
(***************************************************************************)
(* executionhandler circuit_breaker_v2.rs: the lock-free breaker of one    *)
(* exchange, used by several threads at once.  Every load, store, add and  *)
(* compare-exchange on an atomic is one step, so a thread may act on a     *)
(* state it loaded long ago.  Time is reduced to what is compared with it: *)
(* has recovery_timeout passed since the last recorded failure?            *)
(* consecutive_successes is written and never read, and is left out.       *)
(***************************************************************************)
EXTENDS Naturals, Sequences

CONSTANTS
    BreakerThreads,    \* the threads that send requests
    FailureThreshold,  \* failures that open the circuit
    SuccessThreshold,  \* half-open successes that close it
    HalfOpenPct,       \* requests admitted of every HalfOpenPeriod in half-open
    HalfOpenPeriod     \* 100 in the code

VARIABLES
    cb,        \* the atomics: state, failures, successes, counter, cooled
    cbThread,  \* cbThread[t]: pc, the state it loaded, the stores it has still to do
    cbHealthy  \* does the service answer without failing from now on?

cbVars == <<cb, cbThread, cbHealthy>>

CircuitStates == {"Closed", "Open", "HalfOpen"}
CbSteps == {"idle", "try_half_open", "swap", "count", "call", "succeeded", "add_success",
            "failed", "failure_seen"}

CbIdle == [pc |-> "idle", saw |-> "Closed", stores |-> << >>]

CbTypeOK ==
    /\ cb \in [state : CircuitStates, failures : 0..FailureThreshold, successes : 0..SuccessThreshold,
               counter : 0..(HalfOpenPeriod - 1), cooled : BOOLEAN]
    /\ \A t \in BreakerThreads : cbThread[t].pc \in CbSteps /\ cbThread[t].saw \in CircuitStates
    /\ cbHealthy \in BOOLEAN

CbInit ==
    /\ cb = [state |-> "Closed", failures |-> 0, successes |-> 0, counter |-> 0, cooled |-> TRUE]
    /\ cbThread = [t \in BreakerThreads |-> CbIdle]
    /\ cbHealthy = FALSE

-----------------------------------------------------------------------------
(* Stores are made one at a time; a thread goes on when it has none left. *)

\* Both counters are only compared with their threshold: they are kept up to it.
CappedAt(n, cap) == IF n > cap THEN cap ELSE n

CbAt(t, pc) == cbThread[t].pc = pc /\ cbThread[t].stores = << >>
CbGoto(t, pc) == cbThread' = [cbThread EXCEPT ![t].pc = pc]
CbThenStore(t, pc, stores) == cbThread' = [cbThread EXCEPT ![t].pc = pc, ![t].stores = stores]

Store(field, value) == [field |-> field, value |-> value]

transition_to_open == <<Store("state", "Open"), Store("successes", 0)>>

transition_to_closed ==
    <<Store("state", "Closed"), Store("failures", 0), Store("successes", 0), Store("counter", 0)>>

CbStore(t) ==
    /\ cbThread[t].stores # << >>
    /\ LET s == Head(cbThread[t].stores) IN cb' = [cb EXCEPT ![s.field] = s.value]
    /\ cbThread' = [cbThread EXCEPT ![t].stores = Tail(@)]
    /\ UNCHANGED cbHealthy

-----------------------------------------------------------------------------
(* can_execute *)

can_execute(t) ==
    /\ CbAt(t, "idle")
    /\ CbGoto(t, CASE cb.state = "Closed"   -> "call"
                   [] cb.state = "Open"     -> "try_half_open"
                   [] cb.state = "HalfOpen" -> "count")
    /\ UNCHANGED <<cb, cbHealthy>>

\* The look at the clock ...
try_transition_to_half_open(t) ==
    /\ CbAt(t, "try_half_open")
    /\ CbGoto(t, IF cb.cooled THEN "swap" ELSE "idle")
    /\ UNCHANGED <<cb, cbHealthy>>

\* ... and the compare-exchange, followed by two stores when it wins.
SwapToHalfOpen(t) ==
    /\ CbAt(t, "swap")
    /\ IF cb.state = "Open"
       THEN /\ cb' = [cb EXCEPT !.state = "HalfOpen"]
            /\ CbThenStore(t, "call", <<Store("successes", 0), Store("counter", 0)>>)
       ELSE CbGoto(t, "idle") /\ UNCHANGED cb
    /\ UNCHANGED cbHealthy

should_allow_half_open_request(t) ==
    /\ CbAt(t, "count")
    /\ cb' = [cb EXCEPT !.counter = (@ + 1) % HalfOpenPeriod]
    /\ CbGoto(t, IF cb.counter < HalfOpenPct THEN "call" ELSE "idle")
    /\ UNCHANGED cbHealthy

\* call, call_async: the protected call ends.  A future that is dropped records
\* nothing.
CallReturns(t) ==
    /\ CbAt(t, "call")
    /\ \/ CbGoto(t, "succeeded")
       \/ ~cbHealthy /\ CbGoto(t, "failed")
       \/ ~cbHealthy /\ CbGoto(t, "idle")
    /\ UNCHANGED <<cb, cbHealthy>>

-----------------------------------------------------------------------------
(* record_success, record_failure, reset *)

record_success(t) ==
    /\ CbAt(t, "succeeded")
    /\ CASE cb.state = "Closed"   -> CbThenStore(t, "idle", <<Store("failures", 0)>>)
         [] cb.state = "HalfOpen" -> CbGoto(t, "add_success")
         [] cb.state = "Open"     -> CbGoto(t, "idle")
    /\ UNCHANGED <<cb, cbHealthy>>

\* Wrong variant: only a count beyond the threshold closes.
CountSuccessOffByOne(t) ==
    /\ CbAt(t, "add_success")
    /\ cb' = [cb EXCEPT !.successes = CappedAt(@ + 1, SuccessThreshold)]
    /\ IF cb.successes + 1 > SuccessThreshold + 1
       THEN CbThenStore(t, "idle", transition_to_closed) ELSE CbGoto(t, "idle")
    /\ UNCHANGED cbHealthy

\* The add of a half-open success; the one that reaches the threshold closes.
CountSuccess(t) ==
    /\ CbAt(t, "add_success")
    /\ cb' = [cb EXCEPT !.successes = CappedAt(@ + 1, SuccessThreshold)]
    /\ IF cb.successes + 1 >= SuccessThreshold
       THEN CbThenStore(t, "idle", transition_to_closed) ELSE CbGoto(t, "idle")
    /\ UNCHANGED cbHealthy

\* The state is loaded, the time stored, then the loaded state is acted on.
record_failure(t) ==
    /\ CbAt(t, "failed")
    /\ cbThread' = [cbThread EXCEPT ![t] = [pc |-> "failure_seen", saw |-> cb.state,
                                            stores |-> <<Store("cooled", FALSE)>>]]
    /\ UNCHANGED <<cb, cbHealthy>>

ActOnFailure(t) ==
    LET add == [cb EXCEPT !.failures = CappedAt(@ + 1, FailureThreshold)] IN
    /\ CbAt(t, "failure_seen")
    /\ CASE cbThread[t].saw = "Closed" ->
               /\ cb' = add
               /\ IF cb.failures + 1 >= FailureThreshold
                  THEN CbThenStore(t, "idle", transition_to_open) ELSE CbGoto(t, "idle")
         [] cbThread[t].saw = "HalfOpen" -> UNCHANGED cb /\ CbThenStore(t, "idle", transition_to_open)
         [] cbThread[t].saw = "Open"     -> cb' = add /\ CbGoto(t, "idle")
    /\ UNCHANGED cbHealthy

\* reset, reset_all: last_failure 0 is a failure long ago.
reset_breaker(t) ==
    /\ CbAt(t, "idle")
    /\ CbThenStore(t, "idle", transition_to_closed \o <<Store("failures", 0), Store("cooled", TRUE)>>)
    /\ UNCHANGED <<cb, cbHealthy>>

-----------------------------------------------------------------------------
(* The world: time passes, and at some point the service is well for good. *)

RecoveryTimeoutPasses == ~cb.cooled /\ cb' = [cb EXCEPT !.cooled = TRUE] /\ UNCHANGED <<cbThread, cbHealthy>>
ServiceRecovers == ~cbHealthy /\ cbHealthy' = TRUE /\ UNCHANGED <<cb, cbThread>>

CbStep(t) ==
    \/ CbStore(t) \/ can_execute(t) \/ try_transition_to_half_open(t) \/ SwapToHalfOpen(t)
    \/ should_allow_half_open_request(t) \/ CallReturns(t) \/ record_success(t) \/ CountSuccess(t)
    \/ record_failure(t) \/ ActOnFailure(t)

CbNext ==
    \/ \E t \in BreakerThreads : CbStep(t) \/ reset_breaker(t)
    \/ RecoveryTimeoutPasses
    \/ ServiceRecovers

CbSpec == CbInit /\ [][CbNext]_cbVars

-----------------------------------------------------------------------------
\* Once the service answers again the circuit closes for good, whatever stale
\* loads, wiped counters and late failures the threads still carry
\* (try_transition_to_half_open, record_success, transition_to_closed).
BreakerRecovers == cbHealthy ~> [](cb.state = "Closed")
=============================================================================
