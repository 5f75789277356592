---------------------------- MODULE AccountRisk ----------------------------
(***************************************************************************)
(* The per-account risk state machine of the rebalancer as pure operators: *)
(* crates/rebalancer-risk/src/state.rs (AccountState and its transitions)  *)
(* and crates/rebalancer-risk/src/overlay.rs (the drawdown ladder and the  *)
(* daily-loss limit).  Every transition takes a state record and returns a *)
(* new one, as in the code; the modules that keep a state extend this one. *)
(*                                                                         *)
(* Money is an integer number of units and every fraction of the policy is *)
(* a numerator over Den, so the code's exact decimal comparisons stay      *)
(* exact.  Timestamps, messages and last_equity are left out: no decision  *)
(* depends on them.                                                        *)
(***************************************************************************)
EXTENDS Integers, Sequences, SequencesExt, FiniteSetsExt

CONSTANTS
    None,            \* the absent value of an Option
    Den,             \* the denominator of every policy fraction
    DailyLossLimit,  \* numerator of daily_loss_limit
    RungAt,          \* RungAt[i]: numerator of the i-th rung's trigger
    RungScale,       \* RungScale[i]: numerator of the i-th shrink rung's scale
    Recovery,        \* numerator of recovery_fraction
    DayStart,        \* "FirstObservation" or "UtcMidnight" (DayStartRule)
    DecMax           \* references above this overflow the decimal arithmetic

(***************************************************************************)
(* RiskPolicy::new: fractions in (0, 1], a strictly ascending ladder whose *)
(* last rung, and only that one, halts; shrink scales in (0, 1) that never *)
(* scale back up.                                                          *)
(***************************************************************************)
ASSUME PolicyAssumption ==
    /\ Den \in Nat \ {0}
    /\ DailyLossLimit \in 1..Den
    /\ Recovery \in 1..Den
    /\ RungAt \in Seq(1..Den)
    /\ RungAt # << >>
    /\ \A i \in 1..(Len(RungAt) - 1) : RungAt[i] < RungAt[i + 1]
    /\ RungScale \in Seq(1..(Den - 1))
    /\ Len(RungScale) = Len(RungAt) - 1
    /\ \A i \in 1..(Len(RungScale) - 1) : RungScale[i + 1] <= RungScale[i]

ASSUME ValueAssumption ==
    /\ None \notin Int
    /\ DayStart \in {"FirstObservation", "UtcMidnight"}
    /\ DecMax \in Nat

-----------------------------------------------------------------------------
(* The state record. *)

Statuses == {"Active", "Shrunk", "Flattening", "Halted"}
HaltReasons == {"DailyLoss", "DrawdownLadder", "Reconciliation", "Manual", "EquityInvalid"}

may_add_risk(status) == status \in {"Active", "Shrunk"}
is_halt(status) == status \in {"Flattening", "Halted"}

Rungs == 1..Len(RungAt)
ShrinkRungs == 1..(Len(RungAt) - 1)
Optional(S) == S \cup {None}

HaltRecord == [reason : HaltReasons, failed_flatten_attempts : Nat]
ResumeRecord == [equity_at_resume : Int, halt_reason : HaltReasons]

AccountState ==
    [version          : Nat,
     status           : Statuses,
     risk_scale       : 1..Den,
     shrink_rung      : Optional(ShrinkRungs),
     hwm              : Optional(Int),
     day_start_equity : Optional(Int),
     trading_day      : Optional(Int),
     halt             : Optional(HaltRecord),
     resumes          : Seq(ResumeRecord)]

\* An absent row or record is none of the values it stands in for.
ASSUME NoneAssumption == None \notin AccountState /\ None \notin HaltRecord

\* AccountState::new: active at full size, never saved (version 0).
NewAccount ==
    [version |-> 0, status |-> "Active", risk_scale |-> Den,
     shrink_rung |-> None, hwm |-> None, day_start_equity |-> None,
     trading_day |-> None, halt |-> None, resumes |-> << >>]

\* AccountState::from_record: does the persistence boundary accept the record?
from_record_ok(s) ==
    /\ is_halt(s.status) <=> s.halt # None
    /\ s.risk_scale > 0 /\ s.risk_scale <= Den
    /\ (s.status = "Shrunk") <=> (s.shrink_rung # None)

\* AccountState::transition_allowed: is `new` a legal successor of `old`?
transition_allowed(old, new) ==
    IF is_halt(old.status) /\ may_add_risk(new.status)
    THEN /\ Len(new.resumes) = Len(old.resumes) + 1
         /\ IsPrefix(old.resumes, new.resumes)
    ELSE /\ ~(old.status = "Halted" /\ new.status = "Flattening")
         /\ IsPrefix(old.resumes, new.resumes)

-----------------------------------------------------------------------------
(* Observation.  A reading is [equity, day, in_window]: in_window says     *)
(* whether it was taken inside the 00:00 UTC anchor window.                *)

Reading == [equity : Int, day : Int, in_window : BOOLEAN]

\* The high-water mark ratchets only while the account may add risk.
RatchetHwm(s, equity) ==
    IF ~may_add_risk(s.status) THEN s.hwm
    ELSE IF s.hwm # None /\ s.hwm >= equity THEN s.hwm ELSE equity

\* A trading day is new when it is later than the recorded one.
NewDay(s, day) == s.trading_day = None \/ day > s.trading_day

\* The equity a new day starts from: an unanchored UtcMidnight day has none.
Anchor(r) ==
    IF DayStart = "UtcMidnight" /\ ~r.in_window THEN None ELSE r.equity

\* Wrong variant: any change of day re-bases, a clock moving backwards too.
ObserveAnyDay(s, r) ==
    [s EXCEPT !.hwm = RatchetHwm(s, r.equity),
              !.trading_day = r.day,
              !.day_start_equity =
                  IF s.trading_day # None /\ r.day = s.trading_day
                  THEN @ ELSE Anchor(r)]

\* Wrong variant: the high-water mark follows the equity.
ObserveNoRatchet(s, r) ==
    [s EXCEPT !.hwm = r.equity,
              !.trading_day = IF NewDay(s, r.day) THEN r.day ELSE @,
              !.day_start_equity = IF NewDay(s, r.day) THEN Anchor(r) ELSE @]

\* AccountState::observe_with (observe and observe_anchored).
observe_with(s, r) ==
    [s EXCEPT !.hwm = RatchetHwm(s, r.equity),
              !.trading_day = IF NewDay(s, r.day) THEN r.day ELSE @,
              !.day_start_equity = IF NewDay(s, r.day) THEN Anchor(r) ELSE @]

-----------------------------------------------------------------------------
(* Halting, shrinking, resuming. *)

NewHaltRecord(reason) == [reason |-> reason, failed_flatten_attempts |-> 0]

\* AccountState::halt: halt without flattening; a no-op on a halted account.
halt(s, reason) ==
    IF is_halt(s.status) THEN s
    ELSE [s EXCEPT !.status = "Halted", !.halt = NewHaltRecord(reason)]

\* Wrong variant: the scale in force during the halt is stored too.
BeginFlattenZeroScale(s, reason) ==
    IF is_halt(s.status) THEN s
    ELSE [s EXCEPT !.status = "Flattening", !.halt = NewHaltRecord(reason), !.risk_scale = 0]

\* AccountState::begin_flatten: halt and start liquidating.
begin_flatten(s, reason) ==
    IF is_halt(s.status) THEN s
    ELSE [s EXCEPT !.status = "Flattening", !.halt = NewHaltRecord(reason)]

\* AccountState::complete_flatten: the end of one flatten attempt.
complete_flatten(s, verified_flat) ==
    IF s.status # "Flattening" THEN s
    ELSE IF verified_flat THEN [s EXCEPT !.status = "Halted"]
    ELSE IF s.halt = None THEN s
    ELSE [s EXCEPT !.halt.failed_flatten_attempts = @ + 1]

with_shrink(s, scale, rung) ==
    IF ~may_add_risk(s.status) THEN s
    ELSE [s EXCEPT !.status = "Shrunk", !.risk_scale = scale, !.shrink_rung = rung]

with_full_size(s) ==
    IF ~may_add_risk(s.status) THEN s
    ELSE [s EXCEPT !.status = "Active", !.risk_scale = Den, !.shrink_rung = None]

\* Wrong variant: an account that is still liquidating may be resumed.
CanResumeAnyHalt(s, equity) == is_halt(s.status) /\ s.halt # None /\ equity > 0

\* AccountState::resume refuses unless the account is Halted, has a halt
\* record, and the broker reports a positive equity.
can_resume(s, equity) == s.status = "Halted" /\ s.halt # None /\ equity > 0

\* AccountState::resume: the only exit from a halt.
resume(s, equity, day) ==
    [s EXCEPT !.status = "Active", !.risk_scale = Den, !.shrink_rung = None,
              !.hwm = equity, !.day_start_equity = equity, !.trading_day = day,
              !.halt = None,
              !.resumes = Append(@, [equity_at_resume |-> equity,
                                     halt_reason |-> s.halt.reason])]

-----------------------------------------------------------------------------
(* The overlay. *)

\* overlay::breached: the loss has reached the fraction (inclusive).
breached(ref, equity, fraction) == (ref - equity) * Den >= fraction * ref

\* overlay::recovered: the loss is back within Recovery of the rung.
recovered(ref, equity, at) == (ref - equity) * Den * Den <= at * Recovery * ref

\* dec_math::mul fails on overflow; a reference this large cannot be evaluated.
Overflows(ref) == ref > DecMax

Actions == {"None", "Shrink", "HaltFlatten"}

Halted(reason) ==
    [action |-> "HaltFlatten", risk_scale |-> 0, next_rung |-> None, halt_reason |-> reason]
Keep(scale) ==
    [action |-> "None", risk_scale |-> scale, next_rung |-> None, halt_reason |-> None]
Shrink(rung) ==
    [action |-> "Shrink", risk_scale |-> RungScale[rung], next_rung |-> rung,
     halt_reason |-> None]

\* The reference of the drawdown: max(hwm, equity).
DrawdownRef(s, equity) == IF s.hwm # None /\ s.hwm >= equity THEN s.hwm ELSE equity

RungsHit(s, equity) ==
    {i \in Rungs : breached(DrawdownRef(s, equity), equity, RungAt[i])}

DailyLossHit(s, equity) ==
    /\ s.day_start_equity # None
    /\ s.day_start_equity > 0
    /\ breached(s.day_start_equity, equity, DailyLossLimit)

MathFails(s, equity) ==
    \/ s.day_start_equity # None /\ Overflows(s.day_start_equity)
    \/ Overflows(DrawdownRef(s, equity))

\* The rungs a Shrunk account has not recovered from, at or below its own
\* (a rung index left over from a longer ladder is clamped to the last one,
\* a missing one is read as the most severe).
EntryRung(s) ==
    IF s.shrink_rung = None THEN Len(RungAt) - 1
    ELSE IF s.shrink_rung > Len(RungAt) - 1 THEN Len(RungAt) - 1 ELSE s.shrink_rung

RungsHeld(s, equity) ==
    IF s.status # "Shrunk" THEN {}
    ELSE {c \in 1..EntryRung(s) :
            ~recovered(DrawdownRef(s, equity), equity, RungAt[c])}

\* Wrong variant: the deepest rung hit decides alone, no hysteresis.
EvaluateNoHysteresis(s, equity) ==
    IF is_halt(s.status) THEN Keep(0)
    ELSE IF equity <= 0 \/ MathFails(s, equity) THEN Halted("EquityInvalid")
    ELSE IF DailyLossHit(s, equity) THEN Halted("DailyLoss")
    ELSE IF Len(RungAt) \in RungsHit(s, equity) THEN Halted("DrawdownLadder")
    ELSE IF RungsHit(s, equity) = {} THEN Keep(Den)
    ELSE Shrink(Max(RungsHit(s, equity)))

\* overlay::evaluate_risk.  The loop that steps a held rung down while it has
\* recovered stops at the deepest rung that has not: the maximum of RungsHeld.
evaluate_risk(s, equity) ==
    LET inForce == RungsHit(s, equity) \cup RungsHeld(s, equity) IN
    IF is_halt(s.status) THEN Keep(0)
    ELSE IF equity <= 0 \/ MathFails(s, equity) THEN Halted("EquityInvalid")
    ELSE IF DailyLossHit(s, equity) THEN Halted("DailyLoss")
    ELSE IF Len(RungAt) \in RungsHit(s, equity) THEN Halted("DrawdownLadder")
    ELSE IF inForce = {} THEN Keep(Den)
    ELSE Shrink(Max(inForce))

\* overlay::apply_decision: a no-op on a halted account.
apply_decision(s, d) ==
    IF is_halt(s.status) THEN s
    ELSE CASE d.action = "None"        -> with_full_size(s)
           [] d.action = "Shrink"      -> with_shrink(s, d.risk_scale, d.next_rung)
           [] d.action = "HaltFlatten" -> begin_flatten(s, d.halt_reason)

\* overlay::step_with: observe, evaluate, apply.
step_with(s, r) ==
    LET observed == observe_with(s, r)
    IN  apply_decision(observed, evaluate_risk(observed, r.equity))

\* The decision step_with takes on a reading.
decide(s, r) == evaluate_risk(observe_with(s, r), r.equity)
=============================================================================
