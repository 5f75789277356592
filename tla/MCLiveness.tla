----------------------------- MODULE MCLiveness -----------------------------
(* What must eventually happen, one component at a time: the due slot of a *)
(* run gets its record, a flatten ends, an open breaker closes.  Only the  *)
(* component `part` names moves; each has the fairness its code gives it.  *)
EXTENDS MCRunPipeline, Flatten, CircuitBreaker

VARIABLE part

liveVars == <<part, vars, flVars, cbVars>>

\* A part that does not move starts in one of its initial states only.
LiveInit ==
    /\ Init /\ FlInit /\ CbInit
    /\ part \in {"pipeline", "flatten", "breaker"}
    /\ part # "flatten" => flStart > 0 /\ flOrders = << >>

InPipeline(A) == part = "pipeline" /\ A /\ UNCHANGED <<part, flVars, cbVars>>
InFlatten(A) == part = "flatten" /\ A /\ UNCHANGED <<part, vars, cbVars>>
InBreaker(A) == part = "breaker" /\ A /\ UNCHANGED <<part, vars, flVars>>

LiveNext == InPipeline(Next) \/ InFlatten(FlNext) \/ InBreaker(CbNext)

\* A live process keeps going, the driver ticks, leases end, lost requests settle.
PipelineFair ==
    /\ \A p \in Procs : WF_liveVars(InPipeline(Step(p)))
    /\ WF_liveVars(InPipeline(LockExpires))
    /\ \A k \in Slots : WF_liveVars(InPipeline(RunLeaseExpires(k)))
    /\ \A t \in Tags : WF_liveVars(InPipeline(Land(t)))

\* An attempt keeps going and is repeated; the broker executes what is live.
FlattenFair ==
    /\ WF_liveVars(InFlatten(FlStep))
    /\ WF_liveVars(InFlatten(\E i \in DOMAIN flOrders : FlExecute(i)))

\* Threads keep sending requests and time passes.
BreakerFair ==
    /\ \A t \in BreakerThreads : WF_liveVars(InBreaker(CbStep(t)))
    /\ WF_liveVars(InBreaker(RecoveryTimeoutPasses))

LiveSpec == LiveInit /\ [][LiveNext]_liveVars /\ PipelineFair /\ FlattenFair /\ BreakerFair

-----------------------------------------------------------------------------
\* DueSlotFinishes of RunPipeline: the due slot gets its record once faults stop
\* (driver.rs, stores.rs begin).
SlotFinishes == part = "pipeline" => DueSlotFinishes

\* FlattenCompletes of Flatten: a halted account is flattened in the end
\* (finish_flatten of pipeline.rs and monitor.rs).
FlattenEnds == part = "flatten" => FlattenCompletes

\* BreakerRecovers of CircuitBreaker: the circuit of a service that is well again
\* closes for good (circuit_breaker_v2.rs).
CircuitCloses == part = "breaker" => BreakerRecovers
=============================================================================
