-------------------------- MODULE RiskStoreProofs --------------------------
(***************************************************************************)
(* Proofs about RiskStore for every policy, every set of callers and every *)
(* bound: type correctness; that the compare-and-swap loses neither an     *)
(* update nor a halt; and that the drawdown ladder is monotone and holds a *)
(* shrunk account until it has recovered.                                  *)
(***************************************************************************)
EXTENDS RiskStore, SetLemmas

-----------------------------------------------------------------------------
(* Operators of AccountRisk. *)

\* The daily-loss and ladder walk decides only on rungs of the ladder.
LEMMA EvaluateType ==
    ASSUME NEW s \in AccountState, NEW equity \in Int
    PROVE  /\ evaluate_risk(s, equity).action \in Actions
           /\ evaluate_risk(s, equity).action = "Shrink" =>
                /\ evaluate_risk(s, equity).risk_scale \in 1..Den
                /\ evaluate_risk(s, equity).next_rung \in ShrinkRungs
           /\ evaluate_risk(s, equity).action = "HaltFlatten" =>
                evaluate_risk(s, equity).halt_reason \in HaltReasons
<1> DEFINE inForce == RungsHit(s, equity) \cup RungsHeld(s, equity)
<1>1. /\ Len(RungAt) \in Nat /\ Len(RungScale) = Len(RungAt) - 1
      /\ \A i \in ShrinkRungs : RungScale[i] \in 1..Den
      /\ Den \in Nat
  BY PolicyAssumption DEF ShrinkRungs
<1>2. RungsHeld(s, equity) \subseteq ShrinkRungs
  BY <1>1, NoneAssumption DEF RungsHeld, EntryRung, ShrinkRungs, AccountState, Optional
<1>3. RungsHit(s, equity) \subseteq Rungs
  BY DEF RungsHit
<1>4. ASSUME Len(RungAt) \notin RungsHit(s, equity), inForce # {}
      PROVE  Max(inForce) \in ShrinkRungs
  <2>1. inForce \subseteq ShrinkRungs
    BY <1>1, <1>2, <1>3, <1>4 DEF Rungs, ShrinkRungs
  <2>2. Max(inForce) \in inForce
    <3> HIDE DEF inForce
    <3>1. Len(RungAt) - 1 \in Nat
      BY <1>1, PolicyAssumption
    <3> QED
      BY <1>4, <2>1, <3>1, MaxInSet DEF ShrinkRungs
  <2> QED
    BY <2>1, <2>2
<1> HIDE DEF inForce
<1>5. \/ evaluate_risk(s, equity) = Keep(0)
      \/ evaluate_risk(s, equity) = Keep(Den)
      \/ \E r \in HaltReasons : evaluate_risk(s, equity) = Halted(r)
      \/ \E g \in ShrinkRungs : evaluate_risk(s, equity) = Shrink(g)
  BY <1>4 DEF evaluate_risk, HaltReasons, inForce
<1> QED
  BY <1>1, <1>5 DEF Keep, Halted, Shrink, Actions

\* Halting and starting a flatten give account states.
LEMMA HaltType ==
    ASSUME NEW s \in AccountState, NEW reason \in HaltReasons
    PROVE  halt(s, reason) \in AccountState /\ begin_flatten(s, reason) \in AccountState
<1>1. NewHaltRecord(reason) \in HaltRecord
  BY DEF NewHaltRecord, HaltRecord
<1>2. "Halted" \in Statuses /\ "Flattening" \in Statuses
  BY DEF Statuses
<1> QED
  BY <1>1, <1>2 DEF halt, begin_flatten, AccountState, Optional

\* The end of a flatten attempt gives an account state.
LEMMA CompleteFlattenType ==
    ASSUME NEW s \in AccountState, NEW flat \in BOOLEAN
    PROVE  complete_flatten(s, flat) \in AccountState
<1>1. "Halted" \in Statuses
  BY DEF Statuses
<1>2. ASSUME s.halt # None
      PROVE  [s EXCEPT !.halt.failed_flatten_attempts = @ + 1] \in AccountState
  BY <1>2 DEF AccountState, Optional, HaltRecord
<1> QED
  BY <1>1, <1>2 DEF complete_flatten, AccountState

\* Observing a reading gives an account state.
LEMMA ObserveType ==
    ASSUME NEW s \in AccountState, NEW r \in Reading
    PROVE  observe_with(s, r) \in AccountState
<1>1. RatchetHwm(s, r.equity) \in Optional(Int) /\ Anchor(r) \in Optional(Int)
  BY DEF RatchetHwm, Anchor, Reading, Optional, AccountState
<1> QED
  BY <1>1 DEF observe_with, AccountState, Reading, Optional

\* Full size is a legal scale.
LEMMA FullSize == Den \in 1..Den
BY PolicyAssumption

\* Applying a well-formed decision gives an account state.
LEMMA ApplyType ==
    ASSUME NEW s \in AccountState, NEW d,
           d.action \in Actions,
           d.action = "Shrink" => d.risk_scale \in 1..Den /\ d.next_rung \in ShrinkRungs,
           d.action = "HaltFlatten" => d.halt_reason \in HaltReasons
    PROVE  apply_decision(s, d) \in AccountState
<1>1. CASE is_halt(s.status)
  BY <1>1 DEF apply_decision
<1>2. CASE ~is_halt(s.status) /\ d.action = "None"
  <2>1. apply_decision(s, d) = with_full_size(s)
    BY <1>2 DEF apply_decision
  <2> QED
    BY <2>1, FullSize DEF with_full_size, AccountState, Statuses, Optional
<1>3. CASE ~is_halt(s.status) /\ d.action = "Shrink"
  <2>1. apply_decision(s, d) = with_shrink(s, d.risk_scale, d.next_rung)
    BY <1>3 DEF apply_decision
  <2> QED
    BY <1>3, <2>1 DEF with_shrink, AccountState, Statuses, Optional
<1>4. CASE ~is_halt(s.status) /\ d.action = "HaltFlatten"
  <2>1. apply_decision(s, d) = begin_flatten(s, d.halt_reason)
    BY <1>4 DEF apply_decision
  <2> QED
    BY <1>4, <2>1, HaltType
<1> QED
  BY <1>1, <1>2, <1>3, <1>4 DEF Actions

\* One step of the overlay gives an account state.
LEMMA StepType ==
    ASSUME NEW s \in AccountState, NEW r \in Reading
    PROVE  step_with(s, r) \in AccountState
BY ObserveType, EvaluateType, ApplyType DEF step_with, Reading

\* A resume that is not refused gives an account state.
LEMMA ResumeType ==
    ASSUME NEW s \in AccountState, NEW equity \in Int, NEW day \in Int, can_resume(s, equity)
    PROVE  resume(s, equity, day) \in AccountState
<1>1. s.halt.reason \in HaltReasons
  BY DEF can_resume, AccountState, Optional, HaltRecord
<1>2. [equity_at_resume |-> equity, halt_reason |-> s.halt.reason] \in ResumeRecord
  BY <1>1 DEF ResumeRecord
<1>3. Append(s.resumes, [equity_at_resume |-> equity, halt_reason |-> s.halt.reason]) \in Seq(ResumeRecord)
  BY <1>2 DEF AccountState
<1> QED
  BY <1>3, FullSize DEF resume, AccountState, Statuses, Optional

\* AccountState::new is an account state.
LEMMA NewAccountType == NewAccount \in AccountState
BY FullSize DEF NewAccount, AccountState, Statuses, Optional

-----------------------------------------------------------------------------
(* Type correctness. *)

\* A caller that returns leaves every local variable well typed.
LEMMA ReturnType ==
    ASSUME TypeOK, NEW c \in Callers, Return(c)
    PROVE  /\ pc' \in [Callers -> Phases] /\ st' \in [Callers -> AccountState]
           /\ nxt' \in [Callers -> AccountState] /\ old' \in [Callers -> Optional(AccountState)]
BY NewAccountType DEF TypeOK, Return, Phases, Optional

\* A call of save with an account state keeps the types.
LEMMA CallSaveType ==
    ASSUME TypeOK, NEW c \in Callers, NEW next \in AccountState, CallSave(c, next)
    PROVE  TypeOK'
BY DEF TypeOK, CallSave, Phases

\* What a save writes is an account state: the next one with a new version.
LEMMA StoredType ==
    ASSUME TypeOK, NEW c \in Callers
    PROVE  Stored(c) \in AccountState
<1>1. nxt[c] \in AccountState /\ st[c].version + 1 \in Nat
  BY DEF TypeOK, AccountState
<1> QED
  BY <1>1 DEF Stored, AccountState

\* A caller that goes on after its save keeps the types.
LEMMA SaveReturnedType ==
    ASSUME TypeOK, NEW c \in Callers, SaveReturned(c)
    PROVE  /\ pc' \in [Callers -> Phases] /\ st' \in [Callers -> AccountState]
           /\ nxt' \in [Callers -> AccountState] /\ old' \in [Callers -> Optional(AccountState)]
<1>1. CASE Return(c)
  BY <1>1, ReturnType
<1>2. CASE /\ st' = [st EXCEPT ![c] = Stored(c)]
           /\ pc' = [pc EXCEPT ![c] = IF is_halt(nxt[c].status) THEN "flattening" ELSE "trading"]
           /\ nxt' = [nxt EXCEPT ![c] = NewAccount]
           /\ old' = [old EXCEPT ![c] = None]
  BY <1>2, StoredType, NewAccountType DEF TypeOK, Phases, Optional
<1> QED
  BY <1>1, <1>2 DEF SaveReturned

\* Every reading a caller may take is a reading.
LEMMA ReadingsType ==
    ASSUME TypeOK, NEW r \in Readings
    PROVE  r \in Reading
<1>1. r.equity \in Equities /\ r.day \in 0..today
  BY DEF Readings
<1>2. r.in_window \in BOOLEAN
  BY DEF Readings
<1>3. r.equity \in Int
  <2>1. Equities \subseteq Int
    BY CallerAssumption
  <2> QED
    BY <1>1, <2>1
<1>4. r.day \in Int
  <2>1. MaxDay \in Nat
    BY CallerAssumption
  <2>2. today \in 0..MaxDay
    BY DEF TypeOK
  <2> QED
    BY <1>1, <2>1, <2>2
<1>5. r = [equity |-> r.equity, day |-> r.day, in_window |-> r.in_window]
  BY DEF Readings
<1> QED
  BY <1>2, <1>3, <1>4, <1>5 DEF Reading

\* Every action keeps the types.
LEMMA TypeStep == TypeOK /\ [Next]_vars => TypeOK'
<1> SUFFICES ASSUME TypeOK, [Next]_vars PROVE TypeOK'
  OBVIOUS
<1>1. CASE NextDay
  BY <1>1, CallerAssumption DEF NextDay, TypeOK
<1>2. ASSUME NEW c \in Callers, Load(c) PROVE TypeOK'
  BY <1>2, NewAccountType DEF Load, TypeOK, Phases, Optional
<1>3. ASSUME NEW c \in Callers, Stop(c) PROVE TypeOK'
  BY <1>3, ReturnType DEF Stop, TypeOK
<1>4. ASSUME NEW c \in Callers, SaveCheck(c) PROVE TypeOK'
  <2>1. CASE Return(c)
    BY <1>4, <2>1, ReturnType DEF SaveCheck, TypeOK
  <2>2. CASE /\ pc' = [pc EXCEPT ![c] = "writing"]
             /\ old' = [old EXCEPT ![c] = row]
             /\ UNCHANGED <<st, nxt>>
    BY <1>4, <2>2 DEF SaveCheck, TypeOK, Phases
  <2> QED
    BY <1>4, <2>1, <2>2 DEF SaveCheck
<1>5. ASSUME NEW c \in Callers, SaveWrite(c) PROVE TypeOK'
  <2>1. today' = today /\ row' \in Optional(AccountState)
    BY <1>5, StoredType DEF SaveWrite, TypeOK, Optional
  <2>2. Return(c) \/ SaveReturned(c)
    BY <1>5 DEF SaveWrite
  <2> QED
    BY <2>1, <2>2, ReturnType, SaveReturnedType DEF TypeOK
<1>6. ASSUME NEW c \in Callers, SaveAnswerLost(c) PROVE TypeOK'
  BY <1>6, StoredType, ReturnType DEF SaveAnswerLost, TypeOK, Optional
<1>7. ASSUME NEW c \in Automations, NEW r \in Readings, RiskStep(c, r) PROVE TypeOK'
  <2>1. r \in Reading
    BY ReadingsType
  <2>2. step_with(st[c], r) \in AccountState
    BY <2>1, StepType DEF TypeOK, Callers
  <2> QED
    BY <1>7, <2>2, CallSaveType DEF RiskStep, Callers
<1>8. ASSUME NEW c \in Runs, HaltReconciliation(c) PROVE TypeOK'
  <2>1. halt(st[c], "Reconciliation") \in AccountState
    BY HaltType DEF TypeOK, Callers, Automations, HaltReasons
  <2> QED
    BY <1>8, <2>1, CallSaveType DEF HaltReconciliation, Callers, Automations
<1>9. ASSUME NEW c \in Automations, ResumeFlatten(c) PROVE TypeOK'
  BY <1>9 DEF ResumeFlatten, TypeOK, Phases, Callers
<1>10. ASSUME NEW c \in Automations, NEW flat \in BOOLEAN, FinishFlatten(c, flat) PROVE TypeOK'
  <2>1. complete_flatten(st[c], flat) \in AccountState
    BY CompleteFlattenType DEF TypeOK, Callers
  <2> QED
    BY <1>10, <2>1, CallSaveType DEF FinishFlatten, Callers
<1>11. ASSUME NEW c \in People, HaltByHand(c) PROVE TypeOK'
  <2>1. halt(st[c], "Manual") \in AccountState
    BY HaltType DEF TypeOK, Callers, HaltReasons
  <2> QED
    BY <1>11, <2>1, CallSaveType DEF HaltByHand, Callers
<1>12. ASSUME NEW c \in People, NEW equity \in Equities, Resume(c, equity) PROVE TypeOK'
  <2>1. resume(st[c], equity, today) \in AccountState
    BY <1>12, ResumeType, CallerAssumption DEF Resume, TypeOK, Callers
  <2> QED
    BY <1>12, <2>1, CallSaveType DEF Resume, Callers
<1>13. CASE UNCHANGED vars
  BY <1>13 DEF vars, TypeOK
<1> QED
  BY <1>1, <1>2, <1>3, <1>4, <1>5, <1>6, <1>7, <1>8, <1>9, <1>10, <1>11, <1>12, <1>13 DEF Next

\* Every reachable state is well typed: whatever the callers do, the row stays
\* a state record with a scale in (0, 1] and a rung of the ladder.
THEOREM TypeCorrect == Spec => []TypeOK
<1>1. Init => TypeOK
  BY NewAccountType, CallerAssumption DEF Init, TypeOK, Phases, Optional
<1> QED
  BY <1>1, TypeStep, PTL DEF Spec

-----------------------------------------------------------------------------
(* What the callers compute is a legal successor of what they loaded. *)

\* A legal successor in every respect the store is checked for.
Keeps(a, b) == KeepsHalt(a, b) /\ KeepsHwm(a, b) /\ KeepsDay(a, b) /\ KeepsReason(a, b)

\* Applying a decision touches only the status, the size and the halt record.
LEMMA ApplyKeeps ==
    ASSUME NEW s \in AccountState, NEW d, d.action \in Actions
    PROVE  /\ apply_decision(s, d).hwm = s.hwm
           /\ apply_decision(s, d).trading_day = s.trading_day
           /\ apply_decision(s, d).day_start_equity = s.day_start_equity
<1>1. \/ apply_decision(s, d) = s
      \/ apply_decision(s, d) = with_full_size(s)
      \/ apply_decision(s, d) = with_shrink(s, d.risk_scale, d.next_rung)
      \/ apply_decision(s, d) = begin_flatten(s, d.halt_reason)
  BY DEF apply_decision, Actions
<1> QED
  BY <1>1 DEF with_full_size, with_shrink, begin_flatten, AccountState

\* Observing a reading ratchets the high-water mark and never re-bases a day.
LEMMA ObserveKeeps ==
    ASSUME NEW s \in AccountState, NEW r \in Reading
    PROVE  /\ s.hwm # None => observe_with(s, r).hwm # None /\ observe_with(s, r).hwm >= s.hwm
           /\ s.trading_day # None =>
                /\ observe_with(s, r).trading_day # None
                /\ \/ observe_with(s, r).trading_day > s.trading_day
                   \/ /\ observe_with(s, r).trading_day = s.trading_day
                      /\ observe_with(s, r).day_start_equity = s.day_start_equity
<1>1. /\ s.hwm \in Int \cup {None} /\ s.trading_day \in Int \cup {None}
      /\ r.equity \in Int /\ r.day \in Int
  BY DEF AccountState, Optional, Reading
<1>2. /\ observe_with(s, r).hwm = RatchetHwm(s, r.equity)
      /\ observe_with(s, r).trading_day = IF NewDay(s, r.day) THEN r.day ELSE s.trading_day
      /\ observe_with(s, r).day_start_equity = IF NewDay(s, r.day) THEN Anchor(r) ELSE s.day_start_equity
  BY DEF observe_with, AccountState
<1> QED
  BY <1>1, <1>2, ValueAssumption DEF RatchetHwm, NewDay

\* A risk step is taken only by an account that may add risk, so it can only
\* start a halt; observation keeps the rest.
LEMMA RiskStepKeeps ==
    ASSUME NEW s \in AccountState, NEW r \in Reading, may_add_risk(s.status)
    PROVE  Keeps(s, step_with(s, r))
<1> DEFINE o == observe_with(s, r)
           n == step_with(s, r)
<1>1. o \in AccountState
  BY ObserveType
<1>2. n.hwm = o.hwm /\ n.trading_day = o.trading_day /\ n.day_start_equity = o.day_start_equity
  BY <1>1, ApplyKeeps, EvaluateType DEF step_with, Reading
<1>3. ~is_halt(s.status)
  BY DEF may_add_risk, is_halt
<1> QED
  BY <1>2, <1>3, ObserveKeeps DEF Keeps, KeepsHalt, KeepsHwm, KeepsDay, KeepsReason

\* A halt without flatten is a legal successor of an account that may add risk.
LEMMA HaltKeeps ==
    ASSUME NEW s \in AccountState, NEW reason, may_add_risk(s.status)
    PROVE  Keeps(s, halt(s, reason))
<1>1. ~is_halt(s.status)
  BY DEF may_add_risk, is_halt
<1>2. /\ halt(s, reason).hwm = s.hwm /\ halt(s, reason).trading_day = s.trading_day
      /\ halt(s, reason).day_start_equity = s.day_start_equity
  BY DEF halt, AccountState
<1>3. s.hwm # None => s.hwm >= s.hwm
  BY DEF AccountState, Optional
<1> QED
  BY <1>1, <1>2, <1>3 DEF Keeps, KeepsHalt, KeepsHwm, KeepsDay, KeepsReason

\* The end of a flatten attempt keeps the halt and its first reason.
LEMMA FlattenKeeps ==
    ASSUME NEW s \in AccountState, is_halt(s.status) => s.halt # None, NEW flat \in BOOLEAN
    PROVE  Keeps(s, complete_flatten(s, flat))
<1> DEFINE n == complete_flatten(s, flat)
<1>1. n.hwm = s.hwm /\ n.trading_day = s.trading_day /\ n.day_start_equity = s.day_start_equity
  BY DEF complete_flatten, AccountState
<1>2. is_halt(s.status) => is_halt(n.status)
  BY DEF complete_flatten, is_halt, AccountState
<1>3. s.hwm # None => s.hwm >= s.hwm
  BY DEF AccountState, Optional
<1>4. is_halt(s.status) =>
        /\ n.halt.reason = s.halt.reason
        /\ n.halt.failed_flatten_attempts >= s.halt.failed_flatten_attempts
  <2> SUFFICES ASSUME is_halt(s.status) PROVE /\ n.halt.reason = s.halt.reason
                                              /\ n.halt.failed_flatten_attempts >= s.halt.failed_flatten_attempts
    OBVIOUS
  <2>1. s.halt \in HaltRecord
    BY DEF AccountState, Optional
  <2>2. n.halt = s.halt \/ n.halt = [s.halt EXCEPT !.failed_flatten_attempts = @ + 1]
    BY DEF complete_flatten, AccountState
  <2> QED
    BY <2>1, <2>2 DEF HaltRecord
<1> HIDE DEF n
<1>5. Keeps(s, n)
  BY <1>1, <1>2, <1>3, <1>4 DEF Keeps, KeepsHalt, KeepsHwm, KeepsDay, KeepsReason
<1> QED
  BY <1>5 DEF n

\* A resume leaves a Halted account and records itself.
LEMMA ResumeKeeps ==
    ASSUME NEW s \in AccountState, NEW equity \in Int, NEW day \in Int, can_resume(s, equity)
    PROVE  Keeps(s, resume(s, equity, day))
<1> DEFINE e == [equity_at_resume |-> equity, halt_reason |-> s.halt.reason]
<1>1. resume(s, equity, day).resumes = Append(s.resumes, e)
  BY DEF resume, AccountState
<1>2. Len(Append(s.resumes, e)) = Len(s.resumes) + 1 /\ Append(s.resumes, e) # s.resumes
  BY DEF AccountState
<1>3. s.status = "Halted"
  BY DEF can_resume
<1> QED
  BY <1>1, <1>2, <1>3 DEF Keeps, KeepsHalt, KeepsHwm, KeepsDay, KeepsReason

-----------------------------------------------------------------------------
(* The inductive invariant: copies are sound. *)

\* What CopiesSound says of one copy.
CopyOK(c) ==
    /\ from_record_ok(st[c])
    /\ st[c].version <= version_of(row)
    /\ st[c].version = version_of(row) => st[c] = Current(row)

\* CopiesSound in the abbreviations of this module.
LEMMA CopiesSoundParts ==
    CopiesSound <=>
      /\ row # None => row.version > 0
      /\ \A c \in Callers : pc[c] # "idle" => CopyOK(c)
      /\ \A c \in Callers : pc[c] \in {"checking", "writing"} => Keeps(st[c], nxt[c])
BY DEF CopiesSound, CopyOK, Keeps

\* A fresh account passes the coherence check of from_record.
LEMMA NewAccountOK == from_record_ok(NewAccount)
BY PolicyAssumption DEF NewAccount, from_record_ok, is_halt

\* A call of save keeps the copies sound if it saves a legal successor.
LEMMA CallSaveSound ==
    ASSUME TypeOK, CopiesSound, NEW c \in Callers, pc[c] # "idle",
           NEW next, Keeps(st[c], next), CallSave(c, next)
    PROVE  CopiesSound'
<1>1. UNCHANGED <<row, st>>
  BY DEF CallSave
<1>2. \A x \in Callers : pc'[x] # "idle" => pc[x] # "idle"
  BY DEF CallSave, TypeOK
<1>3. \A x \in Callers : pc'[x] \in {"checking", "writing"} => Keeps(st[x], nxt'[x])
  BY CopiesSoundParts DEF CallSave, TypeOK
<1> QED
  BY <1>1, <1>2, <1>3 DEF CopiesSound, Keeps, Current, version_of

\* A caller that returns has no copy left.
LEMMA ReturnSound ==
    ASSUME TypeOK, CopiesSound, NEW c \in Callers, Return(c), row' = row
    PROVE  CopiesSound'
<1>1. pc'[c] = "idle"
  BY DEF Return, TypeOK
<1>2. \A x \in Callers \ {c} : pc'[x] = pc[x] /\ st'[x] = st[x] /\ nxt'[x] = nxt[x]
  BY DEF Return, TypeOK
<1> QED
  BY <1>1, <1>2 DEF CopiesSound, Current, version_of

\* A write leaves every other copy older than the row.
LEMMA WriteSound ==
    ASSUME TypeOK, CopiesSound, NEW c \in Callers,
           version_of(row) = st[c].version, row' = Stored(c),
           \A x \in Callers \ {c} : pc'[x] = pc[x] /\ st'[x] = st[x] /\ nxt'[x] = nxt[x],
           \/ pc'[c] = "idle"
           \/ pc'[c] \notin {"checking", "writing"} /\ st'[c] = Stored(c) /\ from_record_ok(Stored(c))
    PROVE  CopiesSound'
<1>1. Stored(c) \in AccountState /\ Stored(c) # None /\ Stored(c).version = st[c].version + 1
  <2>1. Stored(c) \in AccountState
    BY StoredType
  <2>2. Stored(c).version = st[c].version + 1
    BY DEF Stored, TypeOK, AccountState
  <2> QED
    BY <2>1, <2>2, NoneAssumption
<1>2. st[c].version \in Nat
  BY DEF TypeOK, AccountState
<1>3. version_of(row') = st[c].version + 1 /\ Current(row') = Stored(c)
  BY <1>1 DEF version_of, Current
<1>4. row' # None => row'.version > 0
  BY <1>1, <1>2
<1>5. ASSUME NEW x \in Callers, pc'[x] # "idle"
      PROVE  /\ from_record_ok(st'[x])
             /\ st'[x].version <= version_of(row')
             /\ st'[x].version = version_of(row') => st'[x] = Current(row')
  <2>1. CASE x = c
    BY <1>1, <1>2, <1>3, <1>5, <2>1
  <2>2. CASE x # c
    <3>1. st[x].version <= version_of(row) /\ st[x].version \in Nat /\ from_record_ok(st[x])
      BY <1>5, <2>2 DEF CopiesSound, TypeOK, AccountState
    <3> QED
      BY <1>2, <1>3, <1>5, <2>2, <3>1
  <2> QED
    BY <2>1, <2>2
<1>6. ASSUME NEW x \in Callers, pc'[x] \in {"checking", "writing"}
      PROVE  Keeps(st'[x], nxt'[x])
  BY <1>6, CopiesSoundParts
<1> QED
  BY <1>4, <1>5, <1>6 DEF CopiesSound, Keeps

\* Every action keeps the copies sound: CopiesSound is inductive relative to TypeOK.
LEMMA SoundStep == TypeOK /\ CopiesSound /\ [Next]_vars => CopiesSound'
<1> SUFFICES ASSUME TypeOK, CopiesSound, [Next]_vars PROVE CopiesSound'
  OBVIOUS
<1> USE DEF Callers, Automations
<1>1. CASE NextDay
  BY <1>1 DEF NextDay, CopiesSound, Current, version_of
<1>2. ASSUME NEW c \in Callers, Load(c) PROVE CopiesSound'
  <2>1. st'[c] = Current(row) /\ from_record_ok(Current(row)) /\ pc'[c] = "loaded"
    BY <1>2, NewAccountOK DEF Load, TypeOK, Current, readable
  <2>2. Current(row).version = version_of(row) /\ version_of(row) \in Nat
    BY DEF Current, version_of, NewAccount, TypeOK, Optional, AccountState
  <2>3. \A x \in Callers \ {c} : pc'[x] = pc[x] /\ st'[x] = st[x]
    BY <1>2 DEF Load, TypeOK
  <2>4. row' = row /\ nxt' = nxt
    BY <1>2 DEF Load
  <2> QED
    BY <2>1, <2>2, <2>3, <2>4 DEF CopiesSound, Current, version_of
<1>3. ASSUME NEW c \in Callers, Stop(c) PROVE CopiesSound'
  BY <1>3, ReturnSound DEF Stop
<1>4. ASSUME NEW c \in Callers, SaveCheck(c) PROVE CopiesSound'
  <2>1. CASE Return(c)
    BY <1>4, <2>1, ReturnSound DEF SaveCheck
  <2>2. CASE pc' = [pc EXCEPT ![c] = "writing"] /\ UNCHANGED <<st, nxt>>
    <3>1. row' = row /\ pc[c] = "checking"
      BY <1>4 DEF SaveCheck
    <3>2. \A x \in Callers : /\ pc'[x] # "idle" => pc[x] # "idle"
                             /\ pc'[x] \in {"checking", "writing"} => pc[x] \in {"checking", "writing"}
      BY <2>2, <3>1 DEF TypeOK
    <3> QED
      BY <2>2, <3>1, <3>2 DEF CopiesSound, Current, version_of
  <2> QED
    BY <1>4, <2>1, <2>2 DEF SaveCheck
<1>5. ASSUME NEW c \in Callers, SaveWrite(c) PROVE CopiesSound'
  <2>1. CASE version_of(row) # st[c].version
    BY <1>5, <2>1, ReturnSound DEF SaveWrite
  <2>2. CASE version_of(row) = st[c].version
    <3>1. row' = Stored(c)
      BY <1>5, <2>2 DEF SaveWrite
    <3>2. CASE Return(c)
      BY <2>2, <3>1, <3>2, WriteSound DEF Return, TypeOK
    <3>3. CASE /\ from_record_ok(Stored(c))
               /\ st' = [st EXCEPT ![c] = Stored(c)]
               /\ pc' = [pc EXCEPT ![c] = IF is_halt(nxt[c].status) THEN "flattening" ELSE "trading"]
               /\ nxt' = [nxt EXCEPT ![c] = NewAccount]
      BY <2>2, <3>1, <3>3, WriteSound DEF TypeOK
    <3> QED
      BY <1>5, <2>2, <3>2, <3>3 DEF SaveWrite, SaveReturned
  <2> QED
    BY <2>1, <2>2
<1>6. ASSUME NEW c \in Callers, SaveAnswerLost(c) PROVE CopiesSound'
  BY <1>6, WriteSound DEF SaveAnswerLost, Return, TypeOK
<1>7. ASSUME NEW c \in Automations, NEW r \in Readings, RiskStep(c, r) PROVE CopiesSound'
  <2>1. r \in Reading
    BY ReadingsType
  <2>2. Keeps(st[c], step_with(st[c], r))
    BY <1>7, <2>1, RiskStepKeeps DEF RiskStep, TypeOK
  <2> QED
    BY <1>7, <2>2, CallSaveSound DEF RiskStep
<1>8. ASSUME NEW c \in Runs, HaltReconciliation(c) PROVE CopiesSound'
  <2>1. Keeps(st[c], halt(st[c], "Reconciliation"))
    BY <1>8, HaltKeeps DEF HaltReconciliation, TypeOK
  <2> QED
    BY <1>8, <2>1, CallSaveSound DEF HaltReconciliation
<1>9. ASSUME NEW c \in Automations, ResumeFlatten(c) PROVE CopiesSound'
  <2>1. /\ \A x \in Callers \ {c} : pc'[x] = pc[x]
        /\ pc[c] # "idle" /\ pc'[c] \notin {"checking", "writing"}
        /\ UNCHANGED <<row, st, nxt>>
    BY <1>9 DEF ResumeFlatten, TypeOK
  <2> QED
    BY <2>1 DEF CopiesSound, Current, version_of
<1>10. ASSUME NEW c \in Automations, NEW flat \in BOOLEAN, FinishFlatten(c, flat) PROVE CopiesSound'
  <2>1. pc[c] # "idle" /\ st[c] \in AccountState /\ (is_halt(st[c].status) => st[c].halt # None)
    BY <1>10 DEF FinishFlatten, CopiesSound, from_record_ok, TypeOK
  <2>2. Keeps(st[c], complete_flatten(st[c], flat))
    BY <2>1, FlattenKeeps
  <2> QED
    BY <1>10, <2>1, <2>2, CallSaveSound DEF FinishFlatten
<1>11. ASSUME NEW c \in People, HaltByHand(c) PROVE CopiesSound'
  <2>1. Keeps(st[c], halt(st[c], "Manual"))
    BY <1>11, HaltKeeps DEF HaltByHand, TypeOK
  <2> QED
    BY <1>11, <2>1, CallSaveSound DEF HaltByHand
<1>12. ASSUME NEW c \in People, NEW equity \in Equities, Resume(c, equity) PROVE CopiesSound'
  <2>1. Keeps(st[c], resume(st[c], equity, today))
    BY <1>12, ResumeKeeps, CallerAssumption DEF Resume, TypeOK
  <2> QED
    BY <1>12, <2>1, CallSaveSound DEF Resume
<1>13. CASE UNCHANGED vars
  BY <1>13 DEF vars, CopiesSound, Current, version_of
<1> QED
  BY <1>1, <1>2, <1>3, <1>4, <1>5, <1>6, <1>7, <1>8, <1>9, <1>10, <1>11, <1>12, <1>13 DEF Next

\* Copies are sound in every reachable state.
THEOREM CopiesAreSound == Spec => []CopiesSound
<1>1. Init => CopiesSound
  BY DEF Init, CopiesSound
<1> QED
  BY <1>1, SoundStep, TypeCorrect, PTL DEF Spec

-----------------------------------------------------------------------------
(* The action properties. *)

\* Only the write of a save changes the row, and it replaces the state its
\* caller computed from by a legal successor of it.
LEMMA RowStep ==
    ASSUME TypeOK, CopiesSound, [Next]_vars, row' # row
    PROVE  /\ \E c \in Callers : Replaces(c)
           /\ Keeps(Current(row), row')
<1>1. PICK c \in Callers : SaveWrite(c) \/ SaveAnswerLost(c)
  BY DEF Next, vars, NextDay, Load, Stop, SaveCheck, RiskStep, HaltReconciliation, ResumeFlatten,
         FinishFlatten, HaltByHand, Resume, CallSave
<1>2. pc[c] = "writing" /\ version_of(row) = st[c].version /\ row' = Stored(c)
  BY <1>1 DEF SaveWrite, SaveAnswerLost
<1>3. Current(row) = st[c] /\ Keeps(st[c], nxt[c])
  BY <1>2, CopiesSoundParts DEF CopiesSound
<1>4. Replaces(c)
  BY <1>2, <1>3 DEF Replaces, Stored
<1>5. /\ row'.status = nxt[c].status /\ row'.resumes = nxt[c].resumes /\ row'.hwm = nxt[c].hwm
      /\ row'.trading_day = nxt[c].trading_day /\ row'.day_start_equity = nxt[c].day_start_equity
      /\ row'.halt = nxt[c].halt
  BY <1>2 DEF Stored, TypeOK, AccountState
<1>6. Keeps(st[c], row')
  BY <1>3, <1>5 DEF Keeps, KeepsHalt, KeepsHwm, KeepsDay, KeepsReason
<1> QED
  BY <1>3, <1>4, <1>6

\* No interleaving of read-check and write of any number of saves loses an
\* update (state_store.rs save).
THEOREM UpdatesAreKept == Spec => NoLostUpdate
<1>1. TypeOK /\ CopiesSound /\ [Next]_vars => [\E c \in Callers : Replaces(c)]_row
  BY RowStep
<1> QED
  BY <1>1, TypeCorrect, CopiesAreSound, PTL DEF Spec, NoLostUpdate

\* No caller with a stale copy takes an account out of a halt: only a recorded
\* resume of a Halted account does (state.rs resume, transition_allowed).
THEOREM HaltIsSticky == Spec => HaltSticky
<1>1. TypeOK /\ CopiesSound /\ [Next]_vars => [KeepsHalt(Current(row), row')]_row
  BY RowStep DEF Keeps
<1> QED
  BY <1>1, TypeCorrect, CopiesAreSound, PTL DEF Spec, HaltSticky

\* The high-water mark only ratchets, and is frozen in a halt (state.rs observe).
THEOREM HwmOnlyRatchets == Spec => HwmRatchets
<1>1. TypeOK /\ CopiesSound /\ [Next]_vars => [KeepsHwm(Current(row), row')]_row
  BY RowStep DEF Keeps
<1> QED
  BY <1>1, TypeCorrect, CopiesAreSound, PTL DEF Spec, HwmRatchets

\* No late or repeated reading re-bases the daily-loss reference (state.rs observe).
THEOREM DayStartIsStable == Spec => DayStartStable
<1>1. TypeOK /\ CopiesSound /\ [Next]_vars => [KeepsDay(Current(row), row')]_row
  BY RowStep DEF Keeps
<1> QED
  BY <1>1, TypeCorrect, CopiesAreSound, PTL DEF Spec, DayStartStable

\* The first halt reason survives until a resume (state.rs halt, begin_flatten).
THEOREM FirstHaltIsKept == Spec => FirstHaltKept
<1>1. TypeOK /\ CopiesSound /\ [Next]_vars => [KeepsReason(Current(row), row')]_row
  BY RowStep DEF Keeps
<1> QED
  BY <1>1, TypeCorrect, CopiesAreSound, PTL DEF Spec, FirstHaltKept

-----------------------------------------------------------------------------
(* The ladder. *)

LEMMA ScaledOrder ==
    ASSUME NEW a \in Int, NEW b \in Int, a <= b, NEW d \in Nat
    PROVE  a * d <= b * d
OBVIOUS

LEMMA PositiveProduct ==
    ASSUME NEW a \in Nat, a > 0, NEW b \in Nat, b > 0
    PROVE  a * b \in Nat /\ a * b > 0
OBVIOUS

\* A lower equity has lost more against the same reference.
LEMMA LossMonotone ==
    ASSUME NEW ref \in Int, NEW lo \in Int, NEW hi \in Int, lo <= hi, NEW f \in Int
    PROVE  /\ breached(ref, hi, f) => breached(ref, lo, f)
           /\ recovered(ref, lo, f) => recovered(ref, hi, f)
<1>1. Den \in Nat /\ Recovery \in Int
  BY PolicyAssumption
<1>2. PICK h \in Int, l \in Int : h = ref - hi /\ l = ref - lo /\ h <= l
  OBVIOUS
<1>3. h * Den <= l * Den /\ h * Den \in Int /\ l * Den \in Int
  BY <1>1, <1>2, ScaledOrder
<1>4. (h * Den) * Den <= (l * Den) * Den /\ (h * Den) * Den \in Int /\ (l * Den) * Den \in Int
  <2>1. PICK x \in Int, y \in Int : x = h * Den /\ y = l * Den /\ x <= y
    BY <1>3
  <2>2. x * Den <= y * Den /\ x * Den \in Int /\ y * Den \in Int
    BY <1>1, <2>1, ScaledOrder
  <2> QED
    BY <2>1, <2>2
<1>5. breached(ref, hi, f) => breached(ref, lo, f)
  <2>1. PICK x \in Int, y \in Int, z \in Int : x = h * Den /\ y = l * Den /\ z = f * ref /\ x <= y
    BY <1>3
  <2>2. breached(ref, hi, f) <=> x >= z
    BY <1>2, <2>1 DEF breached
  <2>3. breached(ref, lo, f) <=> y >= z
    BY <1>2, <2>1 DEF breached
  <2> QED
    BY <2>1, <2>2, <2>3
<1>6. recovered(ref, lo, f) => recovered(ref, hi, f)
  <2>1. PICK x \in Int, y \in Int, z \in Int :
            x = (h * Den) * Den /\ y = (l * Den) * Den /\ z = f * Recovery * ref /\ x <= y
    <3>1. f * Recovery * ref \in Int
      BY <1>1
    <3> QED
      BY <1>4, <3>1
  <2>2. recovered(ref, hi, f) <=> x <= z
    BY <1>2, <2>1 DEF recovered
  <2>3. recovered(ref, lo, f) <=> y <= z
    BY <1>2, <2>1 DEF recovered
  <2> QED
    BY <2>1, <2>2, <2>3
<1> QED
  BY <1>5, <1>6

\* Nothing is lost at the reference itself, or above it.
LEMMA NoLoss ==
    ASSUME NEW ref \in Nat, ref > 0, NEW f \in Nat, f > 0
    PROVE  ~breached(ref, ref, f) /\ recovered(ref, ref, f)
<1>1. f * ref \in Nat /\ f * ref > 0
  BY PositiveProduct
<1>2. Den \in Nat /\ Recovery \in Nat /\ Recovery > 0
  BY PolicyAssumption
<1>3. (ref - ref) * Den = 0 /\ (ref - ref) * Den * Den = 0
  BY <1>2
<1>4. f * Recovery * ref \in Nat
  <2>1. f * Recovery \in Nat
    BY <1>2
  <2> QED
    BY <2>1
<1>5. ~breached(ref, ref, f)
  BY <1>1, <1>3 DEF breached
<1> QED
  BY <1>3, <1>4, <1>5 DEF recovered

\* A deeper rung never has a larger scale.
LEMMA ScalesDescend ==
    ASSUME NEW i \in ShrinkRungs, NEW j \in ShrinkRungs, i <= j
    PROVE  RungScale[j] <= RungScale[i]
<1>1. PICK n \in Nat : n = Len(RungScale) /\ ShrinkRungs = 1..n
  BY PolicyAssumption DEF ShrinkRungs
<1>2. \A k \in 1..n : RungScale[k] \in Int
  <2>1. PICK S : S = 1..(Den - 1) /\ RungScale \in Seq(S)
    BY PolicyAssumption
  <2>2. \A k \in 1..n : RungScale[k] \in S
    <3> SUFFICES ASSUME NEW k \in 1..Len(RungScale) PROVE RungScale[k] \in S
      BY <1>1
    <3>1. RungScale \in Seq(S)
      BY <2>1
    <3> QED
      BY <3>1
  <2>3. S \subseteq Int
    BY <2>1, PolicyAssumption
  <2> QED
    BY <2>2, <2>3
<1>3. \A k \in 1..(n - 1) : RungScale[k + 1] <= RungScale[k]
  BY <1>1, PolicyAssumption
<1> DEFINE Bad == {k \in Nat : k \in i..n /\ RungScale[k] > RungScale[i]}
<1>4. Bad = {}
  <2> SUFFICES ASSUME Bad # {} PROVE FALSE
    OBVIOUS
  <2>1. Bad \in SUBSET Nat
    OBVIOUS
  <2>2. PICK m \in Bad : \A y \in Bad : ~(<<y, m>> \in OpToRel(<, Nat))
    BY <2>1, WFMin, NatLessThanWellFounded
  <2>3. m \in Nat /\ m \in i..n /\ RungScale[m] > RungScale[i] /\ i \in 1..n
    BY <1>1, <2>2
  <2>4. m # i
    BY <1>2, <2>3
  <2>5. m - 1 \in Nat /\ m - 1 \in i..n /\ m - 1 \in 1..(n - 1) /\ (m - 1) + 1 = m
    BY <2>3, <2>4
  <2>6. RungScale[m] <= RungScale[m - 1] /\ RungScale[m - 1] \in Int
    BY <1>2, <1>3, <2>5
  <2>7. RungScale[m - 1] > RungScale[i]
    BY <1>2, <2>3, <2>6
  <2>8. m - 1 \in Bad
    BY <2>5, <2>7
  <2>9. <<m - 1, m>> \in OpToRel(<, Nat)
    BY <2>3, <2>5 DEF OpToRel
  <2> QED
    BY <2>2, <2>8, <2>9
<1>5. j \in Nat /\ j \in i..n
  BY <1>1
<1>6. ~(RungScale[j] > RungScale[i])
  BY <1>4, <1>5
<1> QED
  BY <1>1, <1>2, <1>6

\* What the decision depends on once the account may add risk: the reference of the
\* drawdown and the start of the day, for a reading that has been observed.
LEMMA ObservedReading ==
    ASSUME NEW s \in AccountState, NEW r \in Reading, ~is_halt(s.status)
    PROVE  LET o == observe_with(s, r) IN
           /\ o.status = s.status /\ o.shrink_rung = s.shrink_rung
           /\ DrawdownRef(o, r.equity) = IF s.hwm # None /\ s.hwm >= r.equity THEN s.hwm ELSE r.equity
           /\ o.day_start_equity = IF NewDay(s, r.day) THEN Anchor(r) ELSE s.day_start_equity
<1>1. may_add_risk(s.status) /\ r.equity \in Int /\ s.hwm \in Int \cup {None} /\ None \notin Int
  BY ValueAssumption DEF is_halt, may_add_risk, AccountState, Statuses, Reading, Optional
<1>2. /\ observe_with(s, r).status = s.status /\ observe_with(s, r).shrink_rung = s.shrink_rung
      /\ observe_with(s, r).hwm = RatchetHwm(s, r.equity)
      /\ observe_with(s, r).day_start_equity = IF NewDay(s, r.day) THEN Anchor(r) ELSE s.day_start_equity
  BY DEF observe_with, AccountState
<1>3. RatchetHwm(s, r.equity) = IF s.hwm # None /\ s.hwm >= r.equity THEN s.hwm ELSE r.equity
  BY <1>1 DEF RatchetHwm
<1>4. DrawdownRef(observe_with(s, r), r.equity) = IF s.hwm # None /\ s.hwm >= r.equity THEN s.hwm ELSE r.equity
  BY <1>1, <1>2, <1>3 DEF DrawdownRef
<1> QED
  BY <1>2, <1>4

\* Nothing halts at this equity, and the rungs in force at it.
Passes(s, equity) ==
    /\ ~(equity <= 0 \/ MathFails(s, equity))
    /\ ~DailyLossHit(s, equity)
    /\ Len(RungAt) \notin RungsHit(s, equity)
InForce(s, equity) == RungsHit(s, equity) \cup RungsHeld(s, equity)

\* The decision of an account that may add risk.
LEMMA EvaluateCases ==
    ASSUME NEW s \in AccountState, NEW equity \in Int, ~is_halt(s.status)
    PROVE  /\ ~Passes(s, equity) => /\ evaluate_risk(s, equity).action = "HaltFlatten"
                                    /\ evaluate_risk(s, equity).risk_scale = 0
           /\ Passes(s, equity) /\ InForce(s, equity) = {} => evaluate_risk(s, equity).risk_scale = Den
           /\ Passes(s, equity) /\ InForce(s, equity) # {} =>
                /\ evaluate_risk(s, equity) = Shrink(Max(InForce(s, equity)))
                /\ Max(InForce(s, equity)) \in InForce(s, equity) /\ Max(InForce(s, equity)) \in ShrinkRungs
                /\ \A g \in InForce(s, equity) : g \in Int /\ g <= Max(InForce(s, equity))
<1>1. Len(RungAt) \in Nat /\ Len(RungAt) - 1 \in Nat
  BY PolicyAssumption
<1>2. RungsHeld(s, equity) \subseteq ShrinkRungs
  BY <1>1, NoneAssumption DEF RungsHeld, EntryRung, ShrinkRungs, AccountState, Optional
<1>3. RungsHit(s, equity) \subseteq Rungs
  BY DEF RungsHit
<1>4. ~Passes(s, equity) => /\ evaluate_risk(s, equity).action = "HaltFlatten"
                            /\ evaluate_risk(s, equity).risk_scale = 0
  <2>1. ~Passes(s, equity) => \E reason \in HaltReasons : evaluate_risk(s, equity) = Halted(reason)
    <3>1. CASE equity <= 0 \/ MathFails(s, equity)
      BY <3>1 DEF evaluate_risk, HaltReasons
    <3>2. CASE ~(equity <= 0 \/ MathFails(s, equity)) /\ DailyLossHit(s, equity)
      BY <3>2 DEF evaluate_risk, HaltReasons
    <3>3. CASE ~(equity <= 0 \/ MathFails(s, equity)) /\ ~DailyLossHit(s, equity) /\ Len(RungAt) \in RungsHit(s, equity)
      BY <3>3 DEF evaluate_risk, HaltReasons
    <3> QED
      BY Zenon, <3>1, <3>2, <3>3 DEF Passes
  <2> QED
    BY <2>1 DEF Halted
<1>5. Passes(s, equity) /\ InForce(s, equity) = {} => evaluate_risk(s, equity).risk_scale = Den
  <2>1. Passes(s, equity) /\ InForce(s, equity) = {} => evaluate_risk(s, equity) = Keep(Den)
    BY Zenon DEF Passes, InForce, evaluate_risk
  <2> QED
    BY <2>1 DEF Keep
<1>6. ASSUME Passes(s, equity), InForce(s, equity) # {}
      PROVE  /\ evaluate_risk(s, equity) = Shrink(Max(InForce(s, equity)))
             /\ Max(InForce(s, equity)) \in InForce(s, equity) /\ Max(InForce(s, equity)) \in ShrinkRungs
             /\ \A g \in InForce(s, equity) : g \in Int /\ g <= Max(InForce(s, equity))
  <2>1. InForce(s, equity) \subseteq ShrinkRungs
    BY <1>1, <1>2, <1>3, <1>6 DEF Rungs, ShrinkRungs, InForce, Passes
  <2>2. InForce(s, equity) \in SUBSET (0..(Len(RungAt) - 1))
    BY <1>1, <2>1 DEF ShrinkRungs
  <2>3. Max(InForce(s, equity)) \in InForce(s, equity) /\ \A y \in InForce(s, equity) : Max(InForce(s, equity)) >= y
    <3> HIDE DEF InForce
    <3> QED
      BY <1>1, <1>6, <2>2, MaxOfSet
  <2>4. evaluate_risk(s, equity) = Shrink(Max(InForce(s, equity)))
    BY Zenon, <1>6 DEF Passes, InForce, evaluate_risk
  <2>5. \A g \in InForce(s, equity) : g \in Int /\ g <= Max(InForce(s, equity))
    <3>1. ASSUME NEW g \in InForce(s, equity) PROVE g \in Int /\ g <= Max(InForce(s, equity))
      <4>1. PICK m \in Int : m = Max(InForce(s, equity)) /\ m >= g /\ g \in Int
        BY <1>1, <2>2, <2>3
      <4> QED
        BY <4>1
    <3> QED
      BY <3>1
  <2> QED
    BY <2>1, <2>3, <2>4, <2>5
<1> QED
  BY <1>4, <1>5, <1>6

\* Every scale a decision gives is between nothing and full size.
LEMMA ScaleRange ==
    ASSUME NEW s \in AccountState, NEW equity \in Int, ~is_halt(s.status)
    PROVE  evaluate_risk(s, equity).risk_scale \in 0..Den
<1>1. Den \in 0..Den /\ 0 \in 0..Den
  BY PolicyAssumption
<1>2. \A g \in ShrinkRungs : RungScale[g] \in 0..Den
  <2>1. PICK S : S = 1..(Den - 1) /\ RungScale \in Seq(S)
    BY PolicyAssumption
  <2>2. \A k \in ShrinkRungs : RungScale[k] \in S
    <3> SUFFICES ASSUME NEW k \in 1..Len(RungScale) PROVE RungScale[k] \in S
      BY PolicyAssumption DEF ShrinkRungs
    <3>1. RungScale \in Seq(S)
      BY <2>1
    <3> QED
      BY <3>1
  <2>3. S \subseteq 0..Den
    BY <2>1, PolicyAssumption
  <2> QED
    BY <2>2, <2>3
<1> QED
  BY <1>1, <1>2, EvaluateCases DEF Shrink

At(equity, day, in_window) == [equity |-> equity, day |-> day, in_window |-> in_window]

\* What passes at the lower equity passes at the higher one, with no rung more in force.
LEMMA HigherPasses ==
    ASSUME NEW s \in AccountState, ~is_halt(s.status), NEW day \in Int, NEW w \in BOOLEAN,
           NEW lo \in Int, NEW hi \in Int, lo <= hi, hi <= DecMax,
           Passes(observe_with(s, At(lo, day, w)), lo)
    PROVE  /\ Passes(observe_with(s, At(hi, day, w)), hi)
           /\ InForce(observe_with(s, At(hi, day, w)), hi) \subseteq InForce(observe_with(s, At(lo, day, w)), lo)
<1> DEFINE ol == observe_with(s, At(lo, day, w))
           oh == observe_with(s, At(hi, day, w))
<1>1. /\ At(lo, day, w) \in Reading /\ At(lo, day, w).equity = lo /\ At(lo, day, w).day = day
      /\ At(hi, day, w) \in Reading /\ At(hi, day, w).equity = hi /\ At(hi, day, w).day = day
  BY DEF At, Reading
<1>2. /\ ol.status = s.status /\ ol.shrink_rung = s.shrink_rung
      /\ DrawdownRef(ol, lo) = IF s.hwm # None /\ s.hwm >= lo THEN s.hwm ELSE lo
      /\ ol.day_start_equity = IF NewDay(s, day) THEN Anchor(At(lo, day, w)) ELSE s.day_start_equity
  BY <1>1, ObservedReading
<1>3. /\ oh.status = s.status /\ oh.shrink_rung = s.shrink_rung
      /\ DrawdownRef(oh, hi) = IF s.hwm # None /\ s.hwm >= hi THEN s.hwm ELSE hi
      /\ oh.day_start_equity = IF NewDay(s, day) THEN Anchor(At(hi, day, w)) ELSE s.day_start_equity
  BY <1>1, ObservedReading
<1>4. /\ oh.day_start_equity = ol.day_start_equity
      \/ oh.day_start_equity = hi
  BY <1>1, <1>2, <1>3 DEF Anchor, At
<1>5. s.hwm \in Int \cup {None} /\ s.day_start_equity \in Int \cup {None} /\ None \notin Int /\ DecMax \in Nat
  BY ValueAssumption DEF AccountState, Optional
<1>6. \/ DrawdownRef(oh, hi) = DrawdownRef(ol, lo) /\ DrawdownRef(ol, lo) \in Int
      \/ DrawdownRef(oh, hi) = hi
  <2>1. CASE s.hwm # None /\ s.hwm >= hi
    <3>1. s.hwm \in Int /\ s.hwm >= lo
      BY <1>5, <2>1
    <3> QED
      BY <1>2, <1>3, <2>1, <3>1
  <2>2. CASE ~(s.hwm # None /\ s.hwm >= hi)
    BY <1>3, <2>2
  <2> QED
    BY <2>1, <2>2
<1>7. oh.day_start_equity \in Int \cup {None} /\ ol.day_start_equity \in Int \cup {None}
  BY <1>1, <1>2, <1>3, <1>5 DEF Anchor, At
<1> HIDE DEF ol, oh
<1>8. /\ lo > 0 /\ ~MathFails(ol, lo) /\ ~DailyLossHit(ol, lo) /\ Len(RungAt) \notin RungsHit(ol, lo)
  BY DEF Passes, ol
<1>9. hi > 0 /\ hi \in Nat /\ lo \in Nat
  BY <1>8
<1>10. ~MathFails(oh, hi)
  <2>1. ~Overflows(hi)
    BY <1>5 DEF Overflows
  <2>2. /\ ~(ol.day_start_equity # None /\ Overflows(ol.day_start_equity))
        /\ ~Overflows(DrawdownRef(ol, lo))
    BY <1>8 DEF MathFails
  <2> QED
    BY Zenon, <1>4, <1>6, <2>1, <2>2 DEF MathFails
<1>11. DailyLossLimit \in Nat /\ DailyLossLimit > 0 /\ \A g \in Rungs : RungAt[g] \in Nat /\ RungAt[g] > 0
  <2>1. PICK S : S = 1..Den /\ RungAt \in Seq(S)
    BY PolicyAssumption
  <2>2. \A g \in Rungs : RungAt[g] \in S
    <3> SUFFICES ASSUME NEW g \in 1..Len(RungAt) PROVE RungAt[g] \in S
      BY DEF Rungs
    <3>1. RungAt \in Seq(S)
      BY <2>1
    <3> QED
      BY <3>1
  <2>3. \A x \in S : x \in Nat /\ x > 0
    BY <2>1, PolicyAssumption
  <2> QED
    BY <2>1, <2>2, <2>3, PolicyAssumption
<1>12. ~DailyLossHit(oh, hi)
  <2>1. CASE oh.day_start_equity = hi
    <3>1. ~breached(hi, hi, DailyLossLimit)
      BY <1>9, <1>11, NoLoss
    <3> QED
      BY <2>1, <3>1 DEF DailyLossHit
  <2>2. CASE oh.day_start_equity = ol.day_start_equity
    <3> SUFFICES ASSUME oh.day_start_equity # None, oh.day_start_equity > 0,
                        breached(oh.day_start_equity, hi, DailyLossLimit)
                 PROVE  FALSE
      BY DEF DailyLossHit
    <3>1. PICK d \in Int : d = ol.day_start_equity
      BY <1>7, <2>2
    <3>2. breached(d, lo, DailyLossLimit)
      BY <1>11, <2>2, <3>1, LossMonotone
    <3> QED
      BY <1>8, <2>2, <3>1, <3>2 DEF DailyLossHit
  <2> QED
    BY <1>4, <2>1, <2>2
<1>13. ASSUME NEW g \in Rungs
       PROVE  /\ breached(DrawdownRef(oh, hi), hi, RungAt[g]) => breached(DrawdownRef(ol, lo), lo, RungAt[g])
              /\ recovered(DrawdownRef(ol, lo), lo, RungAt[g]) => recovered(DrawdownRef(oh, hi), hi, RungAt[g])
  <2>0. RungAt[g] \in Nat /\ RungAt[g] > 0 /\ RungAt[g] \in Int
    BY <1>11
  <2>1. CASE DrawdownRef(oh, hi) = hi
    <3>1. ~breached(hi, hi, RungAt[g]) /\ recovered(hi, hi, RungAt[g])
      BY <1>9, <2>0, NoLoss
    <3> QED
      BY <2>1, <3>1
  <2>2. CASE DrawdownRef(oh, hi) = DrawdownRef(ol, lo) /\ DrawdownRef(ol, lo) \in Int
    <3>1. PICK ref \in Int : ref = DrawdownRef(ol, lo)
      BY <2>2
    <3>2. /\ breached(ref, hi, RungAt[g]) => breached(ref, lo, RungAt[g])
          /\ recovered(ref, lo, RungAt[g]) => recovered(ref, hi, RungAt[g])
      BY <2>0, LossMonotone
    <3> QED
      BY <2>2, <3>1, <3>2
  <2> QED
    BY <1>6, <2>1, <2>2
<1>14. RungsHit(oh, hi) \subseteq RungsHit(ol, lo)
  BY <1>13 DEF RungsHit
<1>15. RungsHeld(oh, hi) \subseteq RungsHeld(ol, lo)
  <2>1. EntryRung(oh) = EntryRung(ol)
    BY <1>2, <1>3 DEF EntryRung
  <2>2. 1..EntryRung(ol) \subseteq Rungs
    <3>1. PICK n \in Nat : n = Len(RungAt)
      BY PolicyAssumption
    <3>2. ol.shrink_rung \in ShrinkRungs \cup {None}
      BY <1>2 DEF AccountState, Optional
    <3>3. EntryRung(ol) = n - 1 \/ EntryRung(ol) \in 1..(n - 1)
      BY <3>1, <3>2 DEF EntryRung, ShrinkRungs
    <3> QED
      BY <3>1, <3>3 DEF Rungs
  <2> QED
    BY <1>2, <1>3, <1>13, <2>1, <2>2 DEF RungsHeld
<1>16. Passes(oh, hi)
  BY <1>8, <1>9, <1>10, <1>12, <1>14 DEF Passes
<1> QED
  BY <1>14, <1>15, <1>16 DEF InForce, ol, oh

\* Lower equity never yields a larger scale (overlay.rs "Monotone").
LEMMA DecisionMonotone ==
    ASSUME NEW s \in AccountState, NEW day \in Int, NEW w \in BOOLEAN,
           NEW lo \in Int, NEW hi \in Int, lo <= hi, hi <= DecMax
    PROVE  decide(s, At(lo, day, w)).risk_scale <= decide(s, At(hi, day, w)).risk_scale
<1> DEFINE ol == observe_with(s, At(lo, day, w))
           oh == observe_with(s, At(hi, day, w))
<1>1. /\ At(lo, day, w) \in Reading /\ At(lo, day, w).equity = lo
      /\ At(hi, day, w) \in Reading /\ At(hi, day, w).equity = hi
  BY DEF At, Reading
<1>2. decide(s, At(lo, day, w)) = evaluate_risk(ol, lo) /\ decide(s, At(hi, day, w)) = evaluate_risk(oh, hi)
  BY <1>1 DEF decide
<1>3. ol \in AccountState /\ oh \in AccountState /\ ol.status = s.status /\ oh.status = s.status
  <2>1. ol \in AccountState /\ oh \in AccountState
    BY <1>1, ObserveType
  <2> QED
    BY <2>1 DEF observe_with, AccountState
<1>4. CASE is_halt(s.status)
  <2>1. evaluate_risk(ol, lo) = Keep(0) /\ evaluate_risk(oh, hi) = Keep(0)
    BY <1>3, <1>4 DEF evaluate_risk
  <2> QED
    BY <1>2, <2>1 DEF Keep
<1>5. CASE ~is_halt(s.status)
  <2> HIDE DEF ol, oh
  <2>1. evaluate_risk(oh, hi).risk_scale \in 0..Den /\ evaluate_risk(ol, lo).risk_scale \in 0..Den
    BY <1>3, <1>5, ScaleRange
  <2>2. CASE ~Passes(ol, lo)
    <3>1. evaluate_risk(ol, lo).risk_scale = 0
      BY <1>3, <1>5, <2>2, EvaluateCases
    <3> QED
      BY <1>2, <2>1, <3>1
  <2>3. CASE Passes(ol, lo)
    <3>1. Passes(oh, hi) /\ InForce(oh, hi) \subseteq InForce(ol, lo)
      BY <1>5, <2>3, HigherPasses DEF ol, oh
    <3>2. CASE InForce(oh, hi) = {}
      <4>1. evaluate_risk(oh, hi).risk_scale = Den
        BY <1>3, <1>5, <3>1, <3>2, EvaluateCases
      <4> QED
        BY <1>2, <2>1, <4>1
    <3>3. CASE InForce(oh, hi) # {}
      <4>1. PICK m \in ShrinkRungs : m \in InForce(oh, hi) /\ evaluate_risk(oh, hi) = Shrink(m)
        BY <1>3, <1>5, <3>1, <3>3, EvaluateCases
      <4>2. PICK n \in ShrinkRungs : evaluate_risk(ol, lo) = Shrink(n) /\ \A g \in InForce(ol, lo) : g <= n
        BY <1>3, <1>5, <2>3, <3>1, <3>3, EvaluateCases
      <4>3. RungScale[n] <= RungScale[m]
        BY <3>1, <4>1, <4>2, ScalesDescend
      <4> QED
        BY <1>2, <4>1, <4>2, <4>3 DEF Shrink
    <3> QED
      BY <3>2, <3>3
  <2> QED
    BY <2>2, <2>3
<1> QED
  BY <1>4, <1>5

\* A shrunk account has a rung of the ladder and a positive high-water mark.
ShrunkSound(s) == s.status = "Shrunk" => s.shrink_rung \in ShrinkRungs /\ s.hwm \in Nat \ {0}

\* A step of the overlay shrinks only on a positive equity, which the high-water mark covers.
LEMMA StepShrinks ==
    ASSUME NEW s \in AccountState, NEW r \in Reading, may_add_risk(s.status)
    PROVE  ShrunkSound(step_with(s, r))
<1> DEFINE o == observe_with(s, r)
           d == evaluate_risk(o, r.equity)
<1>1. o \in AccountState /\ o.status = s.status /\ o.hwm = RatchetHwm(s, r.equity)
  <2>1. o \in AccountState
    BY ObserveType
  <2> QED
    BY <2>1 DEF observe_with, AccountState
<1>2. ~is_halt(o.status) /\ may_add_risk(o.status)
  BY <1>1 DEF is_halt, may_add_risk
<1>3. r.equity \in Int /\ s.hwm \in Int \cup {None} /\ None \notin Int
  BY ValueAssumption DEF Reading, AccountState, Optional
<1>4. r.equity > 0 => o.hwm \in Nat \ {0}
  <2>1. PICK e \in Int : e = r.equity
    BY <1>3
  <2>2. CASE s.hwm # None /\ s.hwm >= e
    <3>1. PICK h \in Int : h = s.hwm /\ h >= e
      BY <1>3, <2>2
    <3>2. o.hwm = h
      BY <1>1, <2>1, <2>2, <3>1 DEF RatchetHwm
    <3> QED
      BY <2>1, <3>1, <3>2
  <2>3. CASE ~(s.hwm # None /\ s.hwm >= e)
    <3>1. o.hwm = e
      BY <1>1, <2>1, <2>3 DEF RatchetHwm
    <3> QED
      BY <2>1, <3>1
  <2> QED
    BY <2>2, <2>3
<1>5. step_with(s, r) = apply_decision(o, d)
  BY DEF step_with
<1>6. d.action \in Actions /\ (d.action = "Shrink" => d.next_rung \in ShrinkRungs)
  BY <1>1, <1>3, EvaluateType
<1>7. d.action = "Shrink" => r.equity > 0
  <2>1. ~Passes(o, r.equity) => d.action = "HaltFlatten"
    BY <1>1, <1>2, <1>3, EvaluateCases
  <2>2. Passes(o, r.equity) => ~(r.equity <= 0)
    BY Zenon DEF Passes
  <2> QED
    BY <1>3, <2>1, <2>2
<1> HIDE DEF o, d
<1>8. CASE d.action = "None"
  <2>1. apply_decision(o, d) = with_full_size(o)
    BY <1>2, <1>8 DEF apply_decision
  <2> QED
    BY <1>1, <1>2, <1>5, <2>1 DEF with_full_size, ShrunkSound, AccountState
<1>9. CASE d.action = "Shrink"
  <2>1. apply_decision(o, d) = with_shrink(o, d.risk_scale, d.next_rung)
    BY <1>2, <1>9 DEF apply_decision
  <2>2. step_with(s, r).shrink_rung = d.next_rung /\ step_with(s, r).hwm = o.hwm
    BY <1>1, <1>2, <1>5, <2>1 DEF with_shrink, AccountState
  <2> QED
    BY <1>4, <1>6, <1>7, <1>9, <2>2 DEF ShrunkSound
<1>10. CASE d.action = "HaltFlatten"
  <2>1. apply_decision(o, d) = begin_flatten(o, d.halt_reason)
    BY <1>2, <1>10 DEF apply_decision
  <2> QED
    BY <1>1, <1>2, <1>5, <2>1 DEF begin_flatten, ShrunkSound, AccountState
<1> QED
  BY <1>6, <1>8, <1>9, <1>10 DEF Actions

\* No other operation of the state machine shrinks an account.
LEMMA OthersDoNotShrink ==
    ASSUME NEW s \in AccountState
    PROVE  /\ \A reason : may_add_risk(s.status) => ShrunkSound(halt(s, reason))
           /\ \A flat \in BOOLEAN : ShrunkSound(s) => ShrunkSound(complete_flatten(s, flat))
           /\ \A equity, day : ShrunkSound(resume(s, equity, day))
<1>1. \A reason : may_add_risk(s.status) => ShrunkSound(halt(s, reason))
  BY DEF may_add_risk, is_halt, halt, ShrunkSound, AccountState
<1>2. \A flat \in BOOLEAN : ShrunkSound(s) => ShrunkSound(complete_flatten(s, flat))
  BY DEF complete_flatten, ShrunkSound, AccountState
<1>3. \A equity, day : ShrunkSound(resume(s, equity, day))
  BY DEF resume, ShrunkSound, AccountState
<1> QED
  BY <1>1, <1>2, <1>3

\* Every shrunk state, stored or in flight, is sound.
LadderInv ==
    /\ row # None => ShrunkSound(row)
    /\ \A c \in Callers : ShrunkSound(st[c]) /\ ShrunkSound(nxt[c])

LEMMA NewAccountShrunk == ShrunkSound(NewAccount)
BY DEF NewAccount, ShrunkSound

LEMMA ReturnLadder ==
    ASSUME TypeOK, LadderInv, NEW c \in Callers, Return(c)
    PROVE  \A k \in Callers : ShrunkSound(st'[k]) /\ ShrunkSound(nxt'[k])
BY NewAccountShrunk DEF TypeOK, LadderInv, Return

LEMMA CallSaveLadder ==
    ASSUME TypeOK, LadderInv, NEW c \in Callers, NEW next, ShrunkSound(next), CallSave(c, next)
    PROVE  LadderInv'
<1>1. row' = row /\ st' = st
  BY DEF CallSave
<1>2. \A k \in Callers : nxt'[k] = IF k = c THEN next ELSE nxt[k]
  BY DEF CallSave, TypeOK
<1> QED
  BY <1>1, <1>2 DEF LadderInv

LEMMA StoredLadder ==
    ASSUME TypeOK, LadderInv, NEW c \in Callers
    PROVE  ShrunkSound(Stored(c)) /\ Stored(c) # None
<1>1. nxt[c] \in AccountState /\ ShrunkSound(nxt[c])
  BY DEF TypeOK, LadderInv
<1>2. /\ Stored(c).status = nxt[c].status /\ Stored(c).shrink_rung = nxt[c].shrink_rung
      /\ Stored(c).hwm = nxt[c].hwm
  BY <1>1 DEF Stored, AccountState
<1> QED
  BY <1>1, <1>2, StoredType, NoneAssumption DEF ShrunkSound

LEMMA SaveReturnedLadder ==
    ASSUME TypeOK, LadderInv, NEW c \in Callers, SaveReturned(c)
    PROVE  \A k \in Callers : ShrunkSound(st'[k]) /\ ShrunkSound(nxt'[k])
<1>1. CASE Return(c)
  BY <1>1, ReturnLadder
<1>2. CASE st' = [st EXCEPT ![c] = Stored(c)] /\ nxt' = [nxt EXCEPT ![c] = NewAccount]
  BY <1>2, StoredLadder, NewAccountShrunk DEF TypeOK, LadderInv
<1> QED
  BY <1>1, <1>2 DEF SaveReturned

\* Every action keeps the shrunk states sound.
LEMMA LadderStep == TypeOK /\ LadderInv /\ [Next]_vars => LadderInv'
<1> SUFFICES ASSUME TypeOK, LadderInv, [Next]_vars PROVE LadderInv'
  OBVIOUS
<1>1. CASE NextDay
  BY <1>1 DEF NextDay, LadderInv
<1>2. ASSUME NEW c \in Callers, Load(c) PROVE LadderInv'
  BY <1>2, NewAccountShrunk DEF Load, TypeOK, LadderInv
<1>3. ASSUME NEW c \in Callers, Stop(c) PROVE LadderInv'
  BY <1>3, ReturnLadder DEF Stop, LadderInv
<1>4. ASSUME NEW c \in Callers, SaveCheck(c) PROVE LadderInv'
  <2>1. row' = row /\ (Return(c) \/ UNCHANGED <<st, nxt>>)
    BY <1>4 DEF SaveCheck
  <2> QED
    BY <2>1, ReturnLadder DEF LadderInv
<1>5. ASSUME NEW c \in Callers, SaveWrite(c) PROVE LadderInv'
  <2>1. row' # None => ShrunkSound(row')
    BY <1>5, StoredLadder DEF SaveWrite, LadderInv
  <2>2. Return(c) \/ SaveReturned(c)
    BY <1>5 DEF SaveWrite
  <2> QED
    BY <2>1, <2>2, ReturnLadder, SaveReturnedLadder DEF LadderInv
<1>6. ASSUME NEW c \in Callers, SaveAnswerLost(c) PROVE LadderInv'
  BY <1>6, StoredLadder, ReturnLadder DEF SaveAnswerLost, LadderInv
<1>7. ASSUME NEW c \in Automations, NEW r \in Readings, RiskStep(c, r) PROVE LadderInv'
  <2>1. ShrunkSound(step_with(st[c], r))
    BY <1>7, ReadingsType, StepShrinks DEF RiskStep, TypeOK, Callers
  <2> QED
    BY <1>7, <2>1, CallSaveLadder DEF RiskStep, Callers
<1>8. ASSUME NEW c \in Runs, HaltReconciliation(c) PROVE LadderInv'
  <2>1. ShrunkSound(halt(st[c], "Reconciliation"))
    BY <1>8, OthersDoNotShrink DEF HaltReconciliation, TypeOK, Callers, Automations
  <2> QED
    BY <1>8, <2>1, CallSaveLadder DEF HaltReconciliation, Callers, Automations
<1>9. ASSUME NEW c \in Automations, ResumeFlatten(c) PROVE LadderInv'
  BY <1>9 DEF ResumeFlatten, LadderInv
<1>10. ASSUME NEW c \in Automations, NEW flat \in BOOLEAN, FinishFlatten(c, flat) PROVE LadderInv'
  <2>1. ShrunkSound(complete_flatten(st[c], flat))
    BY OthersDoNotShrink DEF TypeOK, LadderInv, Callers
  <2> QED
    BY <1>10, <2>1, CallSaveLadder DEF FinishFlatten, Callers
<1>11. ASSUME NEW c \in People, HaltByHand(c) PROVE LadderInv'
  <2>1. ShrunkSound(halt(st[c], "Manual"))
    BY <1>11, OthersDoNotShrink DEF HaltByHand, TypeOK, Callers
  <2> QED
    BY <1>11, <2>1, CallSaveLadder DEF HaltByHand, Callers
<1>12. ASSUME NEW c \in People, NEW equity \in Equities, Resume(c, equity) PROVE LadderInv'
  <2>1. ShrunkSound(resume(st[c], equity, today))
    BY OthersDoNotShrink DEF TypeOK, Callers
  <2> QED
    BY <1>12, <2>1, CallSaveLadder DEF Resume, Callers
<1>13. CASE UNCHANGED vars
  BY <1>13 DEF vars, LadderInv
<1> QED
  BY <1>1, <1>2, <1>3, <1>4, <1>5, <1>6, <1>7, <1>8, <1>9, <1>10, <1>11, <1>12, <1>13 DEF Next

\* Above the recovery threshold of its rung an account halts or stays at least as shrunk.
LEMMA ShrunkIsHeld ==
    ASSUME NEW s \in AccountState, s.status = "Shrunk", ShrunkSound(s), NEW e \in Nat \ {0},
           (s.hwm - e) * Den * Den > RungAt[s.shrink_rung] * Recovery * s.hwm
    PROVE  LET d == evaluate_risk(s, e) IN
           \/ d.action = "HaltFlatten"
           \/ d.action = "Shrink" /\ d.next_rung >= s.shrink_rung
<1>1. PICK h \in Nat \ {0} : h = s.hwm
  BY DEF ShrunkSound
<1>2. PICK g \in ShrinkRungs : g = s.shrink_rung
  BY DEF ShrunkSound
<1>3. Len(RungAt) \in Nat /\ g \in 1..(Len(RungAt) - 1) /\ g \in Int
  BY PolicyAssumption DEF ShrinkRungs
<1>4. RungAt[g] \in Nat
  <2>1. PICK S : S = 1..Den /\ RungAt \in Seq(S)
    BY PolicyAssumption
  <2>2. g \in 1..Len(RungAt)
    BY <1>3
  <2>3. RungAt[g] \in S
    <3>1. RungAt \in Seq(S)
      BY <2>1
    <3>2. \A k \in 1..Len(RungAt) : RungAt[k] \in S
      <4> SUFFICES ASSUME NEW k \in 1..Len(RungAt) PROVE RungAt[k] \in S
        OBVIOUS
      <4> QED
        BY <3>1
    <3> QED
      BY <2>2, <3>2
  <2> QED
    BY <2>1, <2>3, PolicyAssumption
<1>5. h >= e
  <2>1. PICK a \in Nat : a = RungAt[g]
    BY <1>4
  <2>2. Den \in Nat /\ Recovery \in Nat
    BY PolicyAssumption
  <2>3. PICK b \in Nat : b = a * Recovery * h
    <3>1. a * Recovery \in Nat
      BY <2>2
    <3> QED
      BY <3>1
  <2>4. PICK n \in Nat : n = Den * Den
    BY <2>2
  <2>5. (h - e) * n = (h - e) * Den * Den
    BY <2>2, <2>4
  <2>6. (h - e) * n > b
    BY <1>1, <1>2, <2>1, <2>3, <2>5
  <2>7. ASSUME h - e < 0 PROVE (h - e) * n <= 0
    <3>1. PICK x \in Nat : x = e - h
      BY <2>7
    <3>2. x * n >= 0
      OBVIOUS
    <3>3. (h - e) * n = -(x * n)
      BY <3>1
    <3> QED
      BY <3>2, <3>3
  <2> QED
    BY <2>3, <2>6, <2>7
<1>6. DrawdownRef(s, e) = h
  BY <1>1, <1>5, ValueAssumption DEF DrawdownRef
<1>7. ~recovered(h, e, RungAt[g])
  <2>1. PICK x : x = (h - e) * Den * Den
    OBVIOUS
  <2>2. PICK y : y = RungAt[g] * Recovery * h
    OBVIOUS
  <2>3. x \in Int /\ y \in Int
    <3>1. Den \in Int /\ Recovery \in Int
      BY PolicyAssumption
    <3>2. (h - e) * Den \in Int /\ RungAt[g] * Recovery \in Int
      BY <1>4, <3>1
    <3> QED
      BY <2>1, <2>2, <3>1, <3>2
  <2>4. x > y
    BY Zenon, <1>1, <1>2, <2>1, <2>2
  <2>5. ~(x <= y)
    BY <2>3, <2>4
  <2> QED
    BY Zenon, <2>1, <2>2, <2>5 DEF recovered
<1>8. EntryRung(s) = g
  BY <1>2, <1>3, ValueAssumption DEF EntryRung
<1>9. g \in InForce(s, e)
  BY <1>3, <1>6, <1>7, <1>8 DEF InForce, RungsHeld
<1>10. ~is_halt(s.status)
  BY DEF is_halt
<1>11. CASE ~Passes(s, e)
  BY <1>10, <1>11, EvaluateCases
<1>12. CASE Passes(s, e)
  <2>1. /\ evaluate_risk(s, e) = Shrink(Max(InForce(s, e)))
        /\ Max(InForce(s, e)) \in ShrinkRungs
        /\ g <= Max(InForce(s, e))
    BY <1>9, <1>10, <1>12, EvaluateCases
  <2>2. PICK m \in ShrinkRungs : evaluate_risk(s, e) = Shrink(m) /\ g <= m
    BY <2>1
  <2>3. m \in Int
    BY <1>3, <2>2 DEF ShrinkRungs
  <2> QED
    BY <1>2, <1>3, <2>2, <2>3 DEF Shrink
<1> QED
  BY <1>11, <1>12

\* Along every path of runs, monitors and people, under every policy that RiskPolicy::new
\* accepts: lower equity never yields a larger scale, and a Shrunk account is never
\* moved to a shallower rung while its loss is above the recovery threshold of its rung.
THEOREM LadderIsSound == Spec => []LadderSound
<1>1. Init => LadderInv
  BY NewAccountShrunk DEF Init, LadderInv
<1>2. TypeOK /\ LadderInv => LadderSound
  <2> SUFFICES ASSUME TypeOK, LadderInv, row # None PROVE LadderSound
    BY DEF LadderSound
  <2>1. row \in AccountState /\ ShrunkSound(row)
    BY DEF TypeOK, LadderInv, Optional
  <2>2. ASSUME NEW day \in 0..MaxDay, NEW w \in BOOLEAN, NEW hi \in Equities, NEW lo \in Equities,
               lo <= hi, hi <= DecMax
        PROVE  decide(row, At(lo, day, w)).risk_scale <= decide(row, At(hi, day, w)).risk_scale
    <3>1. day \in Int /\ hi \in Int /\ lo \in Int
      BY CallerAssumption
    <3> QED
      BY <2>1, <2>2, <3>1, DecisionMonotone
  <2>3. ASSUME row.status = "Shrunk", NEW e \in Equities \cap 1..DecMax,
               (row.hwm - e) * Den * Den > RungAt[row.shrink_rung] * Recovery * row.hwm
        PROVE  \/ evaluate_risk(row, e).action = "HaltFlatten"
               \/ evaluate_risk(row, e).action = "Shrink" /\ evaluate_risk(row, e).next_rung >= row.shrink_rung
    <3>1. e \in Nat \ {0}
      BY ValueAssumption
    <3> QED
      BY <2>1, <2>3, <3>1, ShrunkIsHeld
  <2> QED
    BY Zenon, <2>2, <2>3 DEF LadderSound, At
<1> QED
  BY <1>1, <1>2, LadderStep, TypeCorrect, PTL DEF Spec
=============================================================================
