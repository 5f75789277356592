----------------------------- MODULE RiskStore -----------------------------
(***************************************************************************)
(* One account's risk state in the Postgres store and the callers that     *)
(* change it: scheduled runs (rebalancer-run/src/pipeline.rs), the         *)
(* continuous monitor (rebalancer-run/src/monitor.rs) and a person who     *)
(* halts or resumes through rebalancer-risk.  Each caller loads the state, *)
(* computes the next one on its own copy and saves it by compare-and-swap  *)
(* (rebalancer-store/src/state_store.rs).  A save is three database steps: *)
(* read and check, write where the version still matches, and rebuild the  *)
(* stored record through from_record.                                      *)
(*                                                                         *)
(* The per-account lock is deliberately absent: a person never takes it    *)
(* and a run can outlive it, so the compare-and-swap is what must hold.    *)
(***************************************************************************)
EXTENDS AccountRisk

CONSTANTS
    Runs, Monitors, People,  \* the callers
    Equities,                \* the equities a broker may report
    MaxDay,                  \* bound: the last trading day
    MaxVersion               \* bound: the number of saves

ASSUME CallerAssumption ==
    /\ Runs \cap Monitors = {} /\ Runs \cap People = {} /\ Monitors \cap People = {}
    /\ Equities \subseteq Int
    /\ MaxDay \in Nat
    /\ MaxVersion \in Nat

VARIABLES
    row,    \* the stored record, or None before the first save
    today,  \* the trading day
    pc,     \* pc[c]: where the caller is between two store calls
    st,     \* st[c]: the state the caller loaded (its own copy)
    nxt,    \* nxt[c]: the state the caller is saving
    old     \* old[c]: the row its save read and checked, or None

vars == <<row, today, pc, st, nxt, old>>

Automations == Runs \cup Monitors
Callers == Automations \cup People

\* idle; loaded (holds a copy); checking and writing (inside save); flattening
\* (liquidating after a halt was saved); trading (a run after its risk step).
Phases == {"idle", "loaded", "checking", "writing", "flattening", "trading"}

TypeOK ==
    /\ row \in Optional(AccountState)
    /\ today \in 0..MaxDay
    /\ pc \in [Callers -> Phases]
    /\ st \in [Callers -> AccountState]
    /\ nxt \in [Callers -> AccountState]
    /\ old \in [Callers -> Optional(AccountState)]

Init ==
    /\ row = None
    /\ today = 0
    /\ pc = [c \in Callers |-> "idle"]
    /\ st = [c \in Callers |-> NewAccount]
    /\ nxt = [c \in Callers |-> NewAccount]
    /\ old = [c \in Callers |-> None]

-----------------------------------------------------------------------------
(* Loading. *)

version_of(r) == IF r = None THEN 0 ELSE r.version

\* A row that from_record refuses cannot be loaded at all.
readable(r) == IF r = None THEN TRUE ELSE from_record_ok(r)

\* PgStateStore::load; a missing row is a fresh account.
Load(c) ==
    /\ pc[c] = "idle"
    /\ readable(row)
    /\ version_of(row) < MaxVersion
    /\ st' = [st EXCEPT ![c] = IF row = None THEN NewAccount ELSE row]
    /\ pc' = [pc EXCEPT ![c] = "loaded"]
    /\ UNCHANGED <<row, today, nxt, old>>

\* The call returns: the caller's copies go out of scope.
Return(c) ==
    /\ pc' = [pc EXCEPT ![c] = "idle"]
    /\ st' = [st EXCEPT ![c] = NewAccount]
    /\ nxt' = [nxt EXCEPT ![c] = NewAccount]
    /\ old' = [old EXCEPT ![c] = None]

\* The caller stops: it has nothing to save, a store call failed, or it died.
Stop(c) ==
    /\ pc[c] # "idle"
    /\ Return(c)
    /\ UNCHANGED <<row, today>>

\* The caller computed a next state and calls save(st.version, next).
CallSave(c, next) ==
    /\ nxt' = [nxt EXCEPT ![c] = next]
    /\ pc' = [pc EXCEPT ![c] = "checking"]
    /\ UNCHANGED <<row, today, st, old>>

-----------------------------------------------------------------------------
(* What the callers compute. *)

\* A reading taken today or, by a caller that was slow, on an earlier day.
Readings == [equity : Equities, day : 0..today, in_window : BOOLEAN]

\* step_risk / monitor step 8: fold the reading in and apply the overlay.
RiskStep(c, r) ==
    /\ pc[c] = "loaded"
    /\ may_add_risk(st[c].status)
    /\ CallSave(c, step_with(st[c], r))

\* halt_reconciliation: before the risk step or after trading.
HaltReconciliation(c) ==
    /\ pc[c] \in {"loaded", "trading"}
    /\ may_add_risk(st[c].status)
    /\ CallSave(c, halt(st[c], "Reconciliation"))

\* A caller that loads a Flattening account goes on with its flatten.
ResumeFlatten(c) ==
    /\ pc[c] = "loaded"
    /\ st[c].status = "Flattening"
    /\ pc' = [pc EXCEPT ![c] = "flattening"]
    /\ UNCHANGED <<row, today, st, nxt, old>>

\* finish_flatten: one attempt ends, verified flat or not.
FinishFlatten(c, verified_flat) ==
    /\ pc[c] = "flattening"
    /\ CallSave(c, complete_flatten(st[c], verified_flat))

\* A person halts the account by hand.
HaltByHand(c) ==
    /\ pc[c] = "loaded"
    /\ may_add_risk(st[c].status)
    /\ CallSave(c, halt(st[c], "Manual"))

\* A person resumes a halted account on the equity the broker reports.
Resume(c, equity) ==
    /\ pc[c] = "loaded"
    /\ can_resume(st[c], equity)
    /\ CallSave(c, resume(st[c], equity, today))

-----------------------------------------------------------------------------
(* PgStateStore::save. *)

\* Read the current row, refuse a stale version or an illegal transition.
SaveCheck(c) ==
    /\ pc[c] = "checking"
    /\ IF /\ readable(row)
          /\ version_of(row) = st[c].version
          /\ row # None => transition_allowed(row, nxt[c])
       THEN /\ pc' = [pc EXCEPT ![c] = "writing"]
            /\ old' = [old EXCEPT ![c] = row]
            /\ UNCHANGED <<st, nxt>>
       ELSE Return(c)
    /\ UNCHANGED <<row, today>>

Stored(c) == [nxt[c] EXCEPT !.version = st[c].version + 1]

\* save returned the stored state: a caller that saved a fresh halt flattens,
\* a run whose risk step passed goes on to trade, every other call is over.
SaveReturned(c) ==
    IF \/ c \in Automations /\ nxt[c].status = "Flattening" /\ st[c].status # "Flattening"
       \/ c \in Runs /\ may_add_risk(nxt[c].status)
    THEN /\ st' = [st EXCEPT ![c] = Stored(c)]
         /\ pc' = [pc EXCEPT ![c] = IF is_halt(nxt[c].status) THEN "flattening" ELSE "trading"]
         /\ nxt' = [nxt EXCEPT ![c] = NewAccount]
         /\ old' = [old EXCEPT ![c] = None]
    ELSE Return(c)

\* Wrong variant: the write trusts the earlier read and skips WHERE version.
WriteWithoutVersion(c) ==
    /\ pc[c] = "writing"
    /\ row' = Stored(c)
    /\ SaveReturned(c)
    /\ UNCHANGED today

\* INSERT ... ON CONFLICT DO NOTHING for version 0, UPDATE ... WHERE version
\* otherwise; no row affected is a version conflict.  The stored record is
\* then rebuilt through from_record, whose refusal is an error to the caller
\* although the row is already written.
SaveWrite(c) ==
    /\ pc[c] = "writing"
    /\ IF version_of(row) = st[c].version
       THEN /\ row' = Stored(c)
            /\ IF from_record_ok(Stored(c)) THEN SaveReturned(c) ELSE Return(c)
       ELSE Return(c) /\ UNCHANGED row
    /\ UNCHANGED today

\* The write commits but the answer is lost: the caller sees Unavailable.
SaveAnswerLost(c) ==
    /\ pc[c] = "writing"
    /\ version_of(row) = st[c].version
    /\ row' = Stored(c)
    /\ Return(c)
    /\ UNCHANGED today

-----------------------------------------------------------------------------
NextDay ==
    /\ today < MaxDay
    /\ today' = today + 1
    /\ UNCHANGED <<row, pc, st, nxt, old>>

Next ==
    \/ NextDay
    \/ \E c \in Callers : Load(c) \/ Stop(c) \/ SaveCheck(c) \/ SaveWrite(c) \/ SaveAnswerLost(c)
    \/ \E c \in Automations, r \in Readings : RiskStep(c, r)
    \/ \E c \in Runs : HaltReconciliation(c)
    \/ \E c \in Automations : ResumeFlatten(c)
    \/ \E c \in Automations, verified_flat \in BOOLEAN : FinishFlatten(c, verified_flat)
    \/ \E c \in People : HaltByHand(c)
    \/ \E c \in People, equity \in Equities : Resume(c, equity)

Spec == Init /\ [][Next]_vars

-----------------------------------------------------------------------------
(* Properties. *)

\* What a store holds: a missing row is a fresh account.
Current(r) == IF r = None THEN NewAccount ELSE r

\* A halt is left only from Halted, by one recorded resume.
KeepsHalt(a, b) ==
    is_halt(a.status) /\ ~is_halt(b.status) =>
        a.status = "Halted" /\ Len(b.resumes) = Len(a.resumes) + 1

\* Without a resume the high-water mark never falls, and does not move in a halt.
KeepsHwm(a, b) ==
    a.hwm # None /\ b.resumes = a.resumes =>
        /\ b.hwm # None
        /\ b.hwm >= a.hwm
        /\ is_halt(a.status) => b.hwm = a.hwm

\* Without a resume the daily-loss reference moves only with a later day.
KeepsDay(a, b) ==
    a.trading_day # None /\ b.resumes = a.resumes =>
        /\ b.trading_day # None
        /\ \/ b.trading_day > a.trading_day
           \/ b.trading_day = a.trading_day /\ b.day_start_equity = a.day_start_equity

\* Without a resume a halt keeps its reason and its failed attempts add up.
KeepsReason(a, b) ==
    is_halt(a.status) /\ b.resumes = a.resumes =>
        /\ b.halt.reason = a.halt.reason
        /\ b.halt.failed_flatten_attempts >= a.halt.failed_flatten_attempts

\* A halt is left only by a recorded human resume of a Halted account: no race
\* of runs, monitors and people through stale copies loses a halt
\* (overlay.rs "Halted is sticky", state.rs transition_allowed).
HaltSticky == [][KeepsHalt(Current(row), row')]_row

\* The high-water mark never falls except by a resume, and is frozen while the
\* account is flattening or halted, whoever writes (state.rs module doc).
HwmRatchets == [][KeepsHwm(Current(row), row')]_row

\* The daily-loss reference moves only to a later day or by a resume: no late
\* reading and no slow caller re-bases it (state.rs observe).
DayStartStable == [][KeepsDay(Current(row), row')]_row

\* The first halt reason is kept until a person resumes, and failed flatten
\* attempts only add up (state.rs halt, begin_flatten, complete_flatten).
FirstHaltKept == [][KeepsReason(Current(row), row')]_row

\* The write of caller c replaces exactly the state that c computed from.
Replaces(c) ==
    /\ row' = [nxt[c] EXCEPT !.version = version_of(row) + 1]
    /\ Current(row) = st[c]

\* No update is lost: every stored version was computed from exactly the
\* version it replaces, also when the read-check and the write of two saves
\* interleave (state_store.rs save).
NoLostUpdate == [][\E c \in Callers : Replaces(c)]_row

\* Why: a copy is coherent and never newer than the row, a copy with the row's
\* version is the row, and what a caller is about to save is a legal successor of its copy
\* (state_store.rs save, the inductive invariant of the proofs).
CopiesSound ==
    /\ row # None => row.version > 0
    /\ \A c \in Callers : pc[c] # "idle" =>
         /\ from_record_ok(st[c])
         /\ st[c].version <= version_of(row)
         /\ st[c].version = version_of(row) => st[c] = Current(row)
    /\ \A c \in Callers : pc[c] \in {"checking", "writing"} =>
         /\ KeepsHalt(st[c], nxt[c])
         /\ KeepsHwm(st[c], nxt[c])
         /\ KeepsDay(st[c], nxt[c])
         /\ KeepsReason(st[c], nxt[c])

\* The ladder over whatever path led to the stored state, on any reading the
\* arithmetic can evaluate: lower equity never yields a larger scale (overlay.rs
\* "Monotone"), and a Shrunk account is never moved to a shallower rung while its loss
\* is above the recovery threshold of the rung in force ("Recovery from a shrink").
LadderSound ==
    row # None =>
      /\ \A day \in 0..MaxDay, in_window \in BOOLEAN, hi, lo \in Equities :
           LET At(e) == [equity |-> e, day |-> day, in_window |-> in_window]
           IN  (lo <= hi /\ hi <= DecMax) =>
                 decide(row, At(lo)).risk_scale <= decide(row, At(hi)).risk_scale
      /\ row.status = "Shrunk" => \A e \in Equities \cap 1..DecMax :
           LET d == evaluate_risk(row, e) IN
           (row.hwm - e) * Den * Den > RungAt[row.shrink_rung] * Recovery * row.hwm =>
              \/ d.action = "HaltFlatten"
              \/ d.action = "Shrink" /\ d.next_rung >= row.shrink_rung

\* Every state a save stored can be loaded again (the round trip that
\* rebalancer-risk/tests/state_machine.rs states for its sample states).
SavedStateReadable == readable(row)
=============================================================================
