---------------------------- MODULE MCExecution ----------------------------
(* The execution handler's components, checked side by side: only the      *)
(* component `part` names moves.  The components share two sets of model   *)
(* values, tasks and ids, so that one symmetry set serves them all.        *)
EXTENDS OrderWal, RateLimiter, Backpressure, BoundedDlq, DlqRetryWorker, GracefulShutdown,
        MultiLeg, ExecutionRisk, PairExposure, TLC

VARIABLE part

ExecSymmetry == Permutations(WalTasks) \cup Permutations(RwIds)

ExecInit ==
    /\ part \in {"wal", "bucket", "window", "backpressure", "bounded_dlq", "dlq", "shutdown",
                 "multi_leg", "risk", "pairs"}
    /\ WalInit /\ RlInit /\ BpInit /\ DlqInit /\ RwInit /\ SdInit /\ MlInit /\ ExInit /\ PxInit

ExecNext ==
    /\ UNCHANGED part
    /\ \/ /\ part = "wal" /\ WalNext
          /\ UNCHANGED <<rlVars, bpVars, dlqVars, rwVars, sdVars, mlVars, exVars, pxVars>>
       \/ /\ \/ part = "bucket" /\ (RlTick \/ TbNext)
             \/ part = "window" /\ (RlTick \/ SwNext)
          /\ UNCHANGED <<walVars, bpVars, dlqVars, rwVars, sdVars, mlVars, exVars, pxVars>>
       \/ /\ part = "backpressure" /\ BpNext
          /\ UNCHANGED <<walVars, rlVars, dlqVars, rwVars, sdVars, mlVars, exVars, pxVars>>
       \/ /\ part = "bounded_dlq" /\ DlqNext
          /\ UNCHANGED <<walVars, rlVars, bpVars, rwVars, sdVars, mlVars, exVars, pxVars>>
       \/ /\ part = "dlq" /\ RwNext
          /\ UNCHANGED <<walVars, rlVars, bpVars, dlqVars, sdVars, mlVars, exVars, pxVars>>
       \/ /\ part = "shutdown" /\ SdNext
          /\ UNCHANGED <<walVars, rlVars, bpVars, dlqVars, rwVars, mlVars, exVars, pxVars>>
       \/ /\ part = "multi_leg" /\ MlNext
          /\ UNCHANGED <<walVars, rlVars, bpVars, dlqVars, rwVars, sdVars, exVars, pxVars>>
       \/ /\ part = "risk" /\ ExNext
          /\ UNCHANGED <<walVars, rlVars, bpVars, dlqVars, rwVars, sdVars, mlVars, pxVars>>
       \/ /\ part = "pairs" /\ PxNext
          /\ UNCHANGED <<walVars, rlVars, bpVars, dlqVars, rwVars, sdVars, mlVars, exVars>>

ExecSpec ==
    ExecInit /\ [][ExecNext]_<<part, walVars, rlVars, bpVars, dlqVars, rwVars, sdVars, mlVars, exVars, pxVars>>

\* The state of every component keeps its type.
ExecTypeOK ==
    /\ WalTypeOK /\ RlTypeOK /\ BpTypeOK /\ DlqTypeOK /\ RwTypeOK
    /\ SdTypeOK /\ MlTypeOK /\ ExTypeOK /\ PxTypeOK
=============================================================================
