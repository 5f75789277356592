------------------------------ MODULE Monitor ------------------------------
(***************************************************************************)
(* rebalancer-run monitor.rs: the continuous equity monitor of one         *)
(* account, from the pass that takes the account lock to the alert of its  *)
(* failure streak.  The risk step is RiskStore's, here only its verdict;   *)
(* the flatten is Flatten's, here only its result.  Between two readings   *)
(* a run of the account saves the state and a person resumes a halt.       *)
(***************************************************************************)
EXTENDS Naturals

CONSTANTS
    MoNone,       \* no code
    MoMaxReads,   \* bound: passes in one behaviour
    MoMaxHalts    \* bound: halts of the account

Failures == {"KillFlagUnreadable", "VenueNotPaper", "MandateInvalid", "BrokerUnreachable",
             "StateStoreError", "RunStoreUnavailable", "LockUnavailable", "NoRuntime", "Panicked"}
Designed == {"Observed", "Halted", "FlattenResumed", "AccountHalted", "KillFlagSet"}
MonitorCodes == Failures \cup Designed \cup {"LockBusy"}

ASSUME MonitorAssumption == MoNone \notin MonitorCodes

VARIABLES
    moMode,     \* the account's execution mode
    moAcct,     \* the stored account state: status and version
    moPass,     \* the pass: where it is, the state it loaded, the code it ends with
    moFailing,  \* FailureStreaks: the code the account is failing with
    moReads,
    moHalts,
    moTold,     \* history: the halt in force was alerted as ALERT_HALT
    moLost,     \* history: a process died since the halt in force was saved
    moStreak    \* history: the last reading's code, and its alerts while it stayed the same

moVars == <<moMode, moAcct, moPass, moFailing, moReads, moHalts, moTold, moLost, moStreak>>

Statuses == {"Active", "Shrunk", "Flattening", "Halted"}
MoTypeOK ==
    /\ moMode \in {"Live", "Assisted"}
    /\ moAcct \in [status : Statuses, version : Nat]
    /\ moPass \in [pc : {"idle", "gate", "read", "risk", "alert", "flatten", "complete", "report"},
                   status : Statuses, version : Nat, code : MonitorCodes]
    /\ moFailing \in Failures \cup {MoNone}
    /\ moReads \in 0..MoMaxReads /\ moHalts \in 0..MoMaxHalts
    /\ moTold \in BOOLEAN /\ moLost \in BOOLEAN
    /\ moStreak \in [code : MonitorCodes \cup {MoNone}, alerts : Nat]

MoIdle == [pc |-> "idle", status |-> "Active", version |-> 0, code |-> "Observed"]
NoStreak == [code |-> MoNone, alerts |-> 0]

MoInit ==
    /\ moMode \in {"Live", "Assisted"}
    /\ moAcct = [status |-> "Active", version |-> 0]
    /\ moPass = MoIdle
    /\ moFailing = MoNone
    /\ moReads = 0 /\ moHalts = 0
    /\ moTold = FALSE /\ moLost = FALSE
    /\ moStreak = NoStreak

-----------------------------------------------------------------------------
MoStable == UNCHANGED <<moMode, moFailing, moReads, moStreak>>
MoHistory == UNCHANGED <<moHalts, moTold, moLost>>
MoGoto(pc) == moPass' = [moPass EXCEPT !.pc = pc]
Done(code) == moPass' = [moPass EXCEPT !.pc = "report", !.code = code]

\* monitor_all: the account's runtime and lock.
MonitorPass ==
    /\ moPass.pc = "idle"
    /\ moReads < MoMaxReads
    /\ moReads' = moReads + 1
    /\ \/ \E code \in {"NoRuntime", "LockBusy", "LockUnavailable"} : Done(code)
       \/ MoGoto("gate")
    /\ UNCHANGED <<moMode, moAcct, moFailing, moStreak>> /\ MoHistory

\* monitor_once 1-4: venue policy, kill flag, mandate, account state.
MonitorGate ==
    /\ moPass.pc = "gate"
    /\ \/ \E code \in {"VenueNotPaper", "KillFlagSet", "KillFlagUnreadable", "MandateInvalid",
                       "StateStoreError", "Panicked"} : Done(code)
       \/ moPass' = [moPass EXCEPT !.pc = "read", !.status = moAcct.status, !.version = moAcct.version]
    /\ UNCHANGED moAcct /\ MoStable /\ MoHistory

\* 5-7: one broker read, the equity log (its failure stops nothing), and what the
\* loaded status allows.
MonitorRead ==
    /\ moPass.pc = "read"
    /\ \/ Done("BrokerUnreachable")
       \/ CASE moPass.status = "Halted" -> Done("AccountHalted")
            [] moPass.status = "Flattening" /\ moMode # "Live" -> Done("AccountHalted")
            [] moPass.status = "Flattening" /\ moMode = "Live" ->
                  moPass' = [moPass EXCEPT !.pc = "flatten", !.code = "FlattenResumed"]
            [] OTHER -> MoGoto("risk")
    /\ UNCHANGED moAcct /\ MoStable /\ MoHistory

\* save_state: compare-and-swap on the version loaded or saved last.
MoSaves == moAcct.version = moPass.version
MoSaved(status) == moAcct' = [status |-> status, version |-> moAcct.version + 1]
MoHalts(pc) ==
    /\ MoSaved("Flattening")
    /\ moPass' = [moPass EXCEPT !.pc = pc, !.status = "Flattening", !.version = @ + 1, !.code = "Halted"]

\* Wrong variant: the halt is alerted only once the flatten has been tried.
MonitorRiskLate ==
    /\ moPass.pc = "risk"
    /\ MoSaves
    /\ moHalts < MoMaxHalts
    /\ MoHalts("flatten")
    /\ moHalts' = moHalts + 1 /\ moTold' = FALSE /\ moLost' = FALSE
    /\ MoStable

\* 8: the risk step on this equity, and its state saved.
MonitorRisk ==
    /\ moPass.pc = "risk"
    /\ \/ Done("StateStoreError") /\ UNCHANGED moAcct /\ MoHistory
       \/ /\ MoSaves
          /\ \/ Done("Observed") /\ UNCHANGED moAcct /\ MoHistory
             \/ \E s \in {"Active", "Shrunk"} :
                   MoSaved(s) /\ Done("Observed") /\ MoHistory
             \/ /\ moHalts < MoMaxHalts
                /\ MoHalts("alert")
                /\ moHalts' = moHalts + 1 /\ moTold' = FALSE /\ moLost' = FALSE
    /\ MoStable

\* 9: the halt is alerted, then flattened (Live) or left to a person.  A notifier
\* that fails is recorded in the report.
MonitorAlertHalt ==
    /\ moPass.pc = "alert"
    /\ moTold' = TRUE
    /\ MoGoto(IF moMode = "Live" THEN "flatten" ELSE "complete")
    /\ UNCHANGED <<moAcct, moHalts, moLost>> /\ MoStable

\* finish_flatten: without the own order ids it does not start; a state that
\* cannot be saved leaves the account Flattening.
MonitorFlatten ==
    /\ moPass.pc = "flatten"
    /\ \/ Done("RunStoreUnavailable") /\ UNCHANGED moAcct
       \/ Done(moPass.code) /\ UNCHANGED moAcct
       \/ MoSaves /\ Done(moPass.code) /\ \E s \in {"Halted", "Flattening"} : MoSaved(s)
    /\ MoStable /\ MoHistory

\* Outside Live mode: straight to Halted, and a person is told to flatten by hand.
MonitorComplete ==
    /\ moPass.pc = "complete"
    /\ \/ Done("StateStoreError") /\ UNCHANGED moAcct
       \/ MoSaves /\ MoSaved("Halted") /\ Done("Halted")
    /\ MoStable /\ MoHistory

\* Wrong variant: a busy lock ends the streak.
StreakForgetful(code) == IF code \in Failures THEN code ELSE MoNone

\* FailureStreaks::observe: what the account is failing with after this reading.
StreakAfter(code) ==
    IF code \in Failures THEN code
    ELSE IF code = "LockBusy" THEN moFailing ELSE MoNone

\* The pass ends: the streak is folded in, a new one alerts, the guard is dropped.
MonitorReport ==
    LET code == moPass.code
        raised == IF code \in Failures /\ moFailing # code THEN 1 ELSE 0
    IN  /\ moPass.pc = "report"
        /\ moFailing' = StreakAfter(code)
        /\ moStreak' = IF code = "LockBusy" THEN moStreak
                       ELSE [code |-> code,
                             alerts |-> raised + (IF moStreak.code = code THEN moStreak.alerts ELSE 0)]
        /\ moPass' = MoIdle
        /\ UNCHANGED <<moMode, moAcct, moReads>> /\ MoHistory

\* The process dies: the streaks were in memory.
MonitorCrash ==
    /\ moPass.pc # "idle"
    /\ moPass' = MoIdle
    /\ moFailing' = MoNone
    /\ moStreak' = NoStreak
    /\ moLost' = TRUE
    /\ UNCHANGED <<moMode, moAcct, moReads, moHalts, moTold>>

\* A run under the same lock saves an observation between two passes.
RunSaves ==
    /\ moPass.pc = "idle"
    /\ moReads < MoMaxReads
    /\ moAcct.status \in {"Active", "Shrunk"}
    /\ MoSaved(moAcct.status)
    /\ moAcct.version <= moReads
    /\ UNCHANGED moPass /\ MoStable /\ MoHistory

\* A person resumes a halted account, at any time and without the lock.
HumanResume ==
    /\ moAcct.status = "Halted"
    /\ MoSaved("Active")
    /\ moTold' = FALSE /\ moLost' = FALSE
    /\ UNCHANGED <<moPass, moHalts>> /\ MoStable

MoNext ==
    \/ MonitorPass \/ MonitorGate \/ MonitorRead \/ MonitorRisk \/ MonitorAlertHalt
    \/ MonitorFlatten \/ MonitorComplete \/ MonitorReport \/ MonitorCrash \/ RunSaves \/ HumanResume

MoSpec == MoInit /\ [][MoNext]_moVars

-----------------------------------------------------------------------------
\* A halt the monitor found is alerted by the end of the reading that found it: a
\* flatten that does not start, a failed save or a lost flatten does not hide it.
\* Only a process that died after the save leaves a halt nobody was told of
\* (monitor.rs execute, step 9).
HaltIsTold ==
    moPass.pc = "idle" /\ moAcct.status \in {"Flattening", "Halted"} => moTold \/ moLost

\* One alert per failure streak: repeats and busy locks in between raise no second
\* one, and no streak goes without (monitor.rs FailureStreaks).
StreakAlertedOnce ==
    moPass.pc = "idle" /\ moStreak.code \in Failures => moStreak.alerts = 1
=============================================================================
