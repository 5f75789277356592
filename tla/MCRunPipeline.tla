--------------------------- MODULE MCRunPipeline ---------------------------
(* The worlds the runs look at.  Processes are interchangeable.            *)
EXTENDS RunPipeline, TLC

ProcSymmetry == Permutations(Procs)

OneDay == [days |-> 1, cadence |-> "OnDecision", faults |-> {}, maxFaults |-> 0,
           overrun |-> FALSE, abandon |-> TRUE]

\* Every kind of fault, two days.
AnyFault == [OneDay EXCEPT !.days = 2, !.faults = FaultKinds, !.maxFaults = 3]

\* Every fault but a lost answer: when does a decision count as acted?
NoLostAnswer == [AnyFault EXCEPT !.faults = FaultKinds \ {"unknown"}, !.maxFaults = 2]

\* Crashes only, three days, every crashed run taken over the same day.
CrashesOnly == [days |-> 3, cadence |-> "Daily", faults |-> {"crash"}, maxFaults |-> 3,
                overrun |-> FALSE, abandon |-> FALSE]

\* The lock lease ends under a slow run: two attempts of one key at once.
SlowRun == [OneDay EXCEPT !.overrun = TRUE]

SafetyWorlds == {AnyFault, NoLostAnswer, CrashesOnly, SlowRun}
LiveWorlds == {[AnyFault EXCEPT !.days = 1, !.maxFaults = 2]}

\* One world per disagreement with the docs.
AbandonedWorlds == {[CrashesOnly EXCEPT !.maxFaults = 1, !.abandon = TRUE]}
FailClosedWorlds == {[OneDay EXCEPT !.faults = {"down"}, !.maxFaults = 1]}
OverrunWorlds == {SlowRun}
LostSellWorlds == {[OneDay EXCEPT !.faults = {"unknown"}, !.maxFaults = 1]}
=============================================================================
