---------------------------- MODULE RunPipeline ----------------------------
(***************************************************************************)
(* The scheduled Live run of one account and everything it shares with     *)
(* other attempts: the per-account lock (rebalancer-store account_lock.rs, *)
(* taken by rebalancer-run driver.rs), the run store with its run key,     *)
(* lease and order journal (rebalancer-run stores.rs, rebalancer-store     *)
(* run_store.rs), the stored account status, and the broker.  A process    *)
(* runs rebalancer-run pipeline.rs run_once one external call at a time    *)
(* and may die between any two calls.                                      *)
(*                                                                         *)
(* The book is the smallest one with both halves of a rebalance: the       *)
(* account starts with one unit of an old instrument and no cash; the      *)
(* decision in force asks to sell it and to buy one unit of a new one with *)
(* the proceeds.  A view of the account is then [sold, bought], its cash   *)
(* sold - bought.  An order executes in full or not at all.  The risk      *)
(* overlay (RiskStore) passes in every run of this module.                 *)
(***************************************************************************)
EXTENDS Integers, Sequences, FiniteSets, FiniteSetsExt

CONSTANTS
    None,
    Procs,      \* the processes: replicas, or a process and its restarts
    MaxSlot,    \* bound: the number of daily run slots
    Worlds      \* the settings a behaviour may have (see World)

\* crash: a process dies.  down: a call to the broker, the data or a store fails.
\* refuse: the venue policy, the kill flag or the mandate stops the run.
\* reject: the broker refuses an order.  unknown: the answer to a placement is
\* lost.  unfilled: an order ends with nothing executed.
FaultKinds == {"crash", "down", "refuse", "reject", "unknown", "unfilled"}

\* days: how many slots become due.  cadence: when the sleeve is pending.  faults,
\* maxFaults: which faults may happen, and how many.  overrun: may a lease of the
\* account lock end while its holder lives?  abandon: may a day end with its slot's
\* run still in progress?
World == [days : 1..MaxSlot, cadence : {"Daily", "OnDecision"}, faults : SUBSET FaultKinds,
          maxFaults : Nat, overrun : BOOLEAN, abandon : BOOLEAN]

ASSUME PipelineAssumption ==
    /\ None \notin Procs /\ None \notin Int
    /\ MaxSlot \in Nat \ {0}
    /\ Worlds \subseteq World

VARIABLES
    world,    \* the setting of this behaviour; it never changes
    slot,     \* the slot of today
    lock,     \* the process whose lease of the account lock is in force, or None
    leased,   \* leased[k]: is the run lease of key k in force?
    runs,     \* runs[k]: the run store's row of key k
    acct,     \* the stored account state: [halted, version]
    orders,   \* the broker's orders, in the order they arrived
    transit,  \* the tags of requests sent but not (yet) at the broker
    run,      \* run[p]: the local variables of the process
    faults    \* how many faults have happened

vars == <<world, slot, lock, leased, runs, acct, orders, transit, run, faults>>
store == <<leased, runs>>
broker == <<orders, transit>>

Slots == 1..MaxSlot
Legs == {"Sell", "Buy"}
Tags == Slots \X Legs     \* an order tag names the slot, not the attempt
Views == [sold : Nat, bought : Nat]
Optional(S) == S \cup {None}

Kinds == {"Completed", "Refused", "FailedClosed", "Halted"}
Outcomes == {"NotSent", "Filled", "NothingExecuted", "Rejected", "UnknownNotFound",
             "AdoptedExisting", "Unsettled"}
Steps == {"idle", "begin", "gate", "read", "cleanup", "reread", "recon_pre", "risk", "plan",
          "look_up", "intent", "place", "journal", "look_again", "settle", "replan",
          "last_look", "recon_post", "finish", "unlock"}

RunRow == [status : {"absent", "in_progress", "done"}, attempt : Nat,
           journal : [Legs -> {"no", "intent", "id"}],
           kind : Optional(Kinds), acted : BOOLEAN, snapshot : Optional(Views)]
Placed == [outcome : Outcomes, id : Optional(Nat), anomaly : BOOLEAN, late : SUBSET Nat]
Local == [pc : Steps, key : Slots, version : Nat, pre : Optional(Views), post : Optional(Views),
          base : Optional(Views), applied : SUBSET Nat, planned : BOOLEAN, plan : SUBSET Legs,
          leg : Legs, placed : [Legs -> Optional(Placed)], kind : Kinds, carried : BOOLEAN]

\* "Nothing" is none of the things there may be (an Option of the code).
ASSUME NoneAssumption == None \notin Views /\ None \notin Placed /\ None \notin Kinds

TypeOK ==
    /\ world \in Worlds
    /\ slot \in Slots
    /\ lock \in Optional(Procs)
    /\ leased \in [Slots -> BOOLEAN]
    /\ runs \in [Slots -> RunRow]
    /\ acct \in [halted : BOOLEAN, version : Nat]
    /\ orders \in Seq([tag : Tags, status : {"open", "filled", "cancelled"}])
    /\ transit \subseteq Tags
    /\ run \in [Procs -> Local]
    /\ faults \in 0..world.maxFaults

NotStarted == [status |-> "absent", attempt |-> 0, journal |-> [l \in Legs |-> "no"],
               kind |-> None, acted |-> FALSE, snapshot |-> None]
Idle == [pc |-> "idle", key |-> 1, version |-> 0, pre |-> None, post |-> None, base |-> None,
         applied |-> {}, planned |-> FALSE, plan |-> {}, leg |-> "Sell",
         placed |-> [l \in Legs |-> None], kind |-> "Completed", carried |-> FALSE]

Init ==
    /\ world \in Worlds
    /\ slot = 1
    /\ lock = None
    /\ leased = [k \in Slots |-> FALSE]
    /\ runs = [k \in Slots |-> NotStarted]
    /\ acct = [halted |-> FALSE, version |-> 0]
    /\ orders = << >>
    /\ transit = {}
    /\ run = [p \in Procs |-> Idle]
    /\ faults = 0

-----------------------------------------------------------------------------
(* The broker, as the pipeline uses it. *)

OrderIds == DOMAIN orders
find_by_tag(t) == {i \in OrderIds : orders[i].tag = t}
Executed(ids, leg) == Cardinality({i \in ids : orders[i].tag[2] = leg /\ orders[i].status = "filled"})

\* Broker::snapshot.
snapshot == [sold |-> Executed(OrderIds, "Sell"), bought |-> Executed(OrderIds, "Buy")]
OpenOrders == {i \in OrderIds : orders[i].status = "open"}

\* ReconBaseline::after_orders: the baseline plus the fills of these orders.
after_orders(b, ids) == [sold |-> b.sold + Executed(ids, "Sell"), bought |-> b.bought + Executed(ids, "Buy")]

\* recon::check_order: two executed orders carry one tag.
DoubleFill(ids) == \E i, j \in ids : i # j /\ orders[i].tag = orders[j].tag
                                     /\ orders[i].status = "filled" /\ orders[j].status = "filled"

\* recon::reconcile against a baseline (None on the first run) and our orders.
Reconciles(view, b, ids) ==
    /\ view.bought <= view.sold
    /\ b # None => view = b
    /\ ~DoubleFill(ids)

\* A fault of kind f happens in this step, or none does.
Fault(f) == f \in world.faults /\ faults < world.maxFaults /\ faults' = faults + 1
NoFault == UNCHANGED faults

-----------------------------------------------------------------------------
(* How a step of a process ends. *)

Become(p, local) == run' = [run EXCEPT ![p] = local]
Goto(p, pc) == run' = [run EXCEPT ![p].pc = pc]
Stop(p, kind) == run' = [run EXCEPT ![p].pc = "finish", ![p].kind = kind]
FailClosed(p) == Fault("down") /\ Stop(p, "FailedClosed")

\* save_state: compare-and-swap on the version this run loaded or saved last.
Saves(p) == acct.version = run[p].version

\* halt_reconciliation: halt without flatten; a version conflict fails closed.
HaltReconciliation(p, local) ==
    IF Saves(p)
    THEN /\ acct' = [halted |-> TRUE, version |-> acct.version + 1]
         /\ Become(p, [local EXCEPT !.pc = "finish", !.kind = "Halted"])
    ELSE /\ Become(p, [local EXCEPT !.pc = "finish", !.kind = "FailedClosed"])
         /\ UNCHANGED acct

-----------------------------------------------------------------------------
(* The driver and the account lock. *)

\* run_all_due / try_lock: a process takes up the account's due slot.
TryLock(p) ==
    /\ run[p].pc = "idle"
    /\ lock = None
    /\ lock' = p
    /\ Become(p, [Idle EXCEPT !.pc = "begin", !.key = slot])
    /\ UNCHANGED <<world, slot, store, acct, broker, faults>>

\* PgLockGuard::drop: release the lease this process took, if it still has it.
Unlock(p) ==
    /\ run[p].pc = "unlock"
    /\ lock' = IF lock = p THEN None ELSE lock
    /\ Become(p, Idle)
    /\ UNCHANGED <<world, slot, store, acct, broker, faults>>

\* locked_until passes: after the holder died, or under an overrunning one.
LockExpires ==
    /\ lock # None
    /\ run[lock].pc = "idle" \/ world.overrun
    /\ lock' = None
    /\ UNCHANGED <<world, slot, store, acct, broker, run, faults>>

\* lease_until of a run key passes (15 minutes; the lock lease is an hour), also
\* under an attempt that is still running.
RunLeaseExpires(k) ==
    /\ leased[k]
    /\ leased' = [leased EXCEPT ![k] = FALSE]
    /\ UNCHANGED <<world, slot, lock, runs, acct, broker, run, faults>>

\* The process dies; its leases run on.
Crash(p) ==
    /\ run[p].pc # "idle"
    /\ Fault("crash")
    /\ Become(p, Idle)
    /\ UNCHANGED <<world, slot, lock, store, acct, broker>>

\* The next day's slot becomes due.  Only the current day's slot is ever run, so
\* a crashed run that was not taken over by now never will be (abandon); no
\* request is on its way for a day.
NextSlot ==
    /\ slot < world.days
    /\ world.overrun \/ \A p \in Procs : run[p].pc = "idle"
    /\ world.abandon \/ runs[slot].status # "in_progress"
    /\ transit = {}
    /\ slot' = slot + 1
    /\ UNCHANGED <<world, lock, store, acct, broker, run, faults>>

-----------------------------------------------------------------------------
(* run_once up to the plan. *)

\* Assumption on the network: a lost request of key k has reached the broker or
\* is gone before another attempt of k starts (a lease later).
Settled(k) == \A l \in Legs : <<k, l>> \notin transit

\* Wrong variant: a key in progress is never taken over.
BeginNeverResumes(p) ==
    LET k == run[p].key IN
    /\ run[p].pc = "begin"
    /\ IF runs[k].status # "absent"
       THEN Goto(p, "unlock") /\ UNCHANGED store
       ELSE /\ runs' = [runs EXCEPT ![k].status = "in_progress", ![k].attempt = @ + 1]
            /\ leased' = [leased EXCEPT ![k] = TRUE]
            /\ Goto(p, "gate")
    /\ UNCHANGED <<world, slot, lock, acct, broker, faults>>

\* RunStore::begin: start, resume an attempt whose lease ended, or give way.
Begin(p) ==
    LET k == run[p].key IN
    /\ run[p].pc = "begin"
    /\ IF runs[k].status = "done" \/ leased[k]
       THEN Goto(p, "unlock") /\ UNCHANGED store
       ELSE /\ Settled(k)
            /\ runs' = [runs EXCEPT ![k].status = "in_progress", ![k].attempt = @ + 1]
            /\ leased' = [leased EXCEPT ![k] = TRUE]
            /\ Goto(p, "gate")
    /\ UNCHANGED <<world, slot, lock, acct, broker, faults>>

BeginFails(p) ==
    /\ run[p].pc = "begin"
    /\ Fault("down")
    /\ Goto(p, "unlock")
    /\ UNCHANGED <<world, slot, lock, store, acct, broker>>

\* D_acted: some finished run acted on the decision.
acted_decision == \E k \in Slots : runs[k].acted

Pending == world.cadence = "Daily" \/ ~acted_decision

\* step_kill_flag, step_mandate, step_decisions.  With nothing pending only an
\* account known to be in good standing ends here.
Gate(p) ==
    LET proceed == Become(p, [run[p] EXCEPT !.pc = "read", !.planned = Pending]) IN
    /\ run[p].pc = "gate"
    /\ \/ Fault("refuse") /\ Stop(p, "Refused")
       \/ FailClosed(p)
       \/ Fault("down") /\ ~Pending /\ proceed
       \/ NoFault /\ IF Pending \/ acct.halted THEN proceed ELSE Stop(p, "Completed")
    /\ UNCHANGED <<world, slot, lock, store, acct, broker>>

\* step_read_account and step_halted_check.
ReadAccount(p) ==
    /\ run[p].pc = "read"
    /\ \/ FailClosed(p)
       \/ /\ NoFault
          /\ Become(p, [run[p] EXCEPT !.pre = snapshot, !.version = acct.version,
                                      !.pc = IF acct.halted THEN "finish"
                                             ELSE IF OpenOrders # {} THEN "cleanup" ELSE "recon_pre",
                                      !.kind = IF acct.halted THEN "Refused" ELSE "Completed"])
    /\ UNCHANGED <<world, slot, lock, store, acct, broker>>

\* step_cleanup: cancel our own open orders; then the account is read again.
Cleanup(p) ==
    /\ run[p].pc = "cleanup"
    /\ \/ FailClosed(p) /\ UNCHANGED orders
       \/ /\ NoFault
          /\ orders' = [i \in OrderIds |-> IF i \in OpenOrders THEN [orders[i] EXCEPT !.status = "cancelled"]
                                           ELSE orders[i]]
          /\ Goto(p, "reread")
    /\ UNCHANGED <<world, slot, lock, store, acct, transit>>

Reread(p) ==
    /\ run[p].pc = "reread"
    /\ \/ FailClosed(p)
       \/ NoFault /\ Become(p, [run[p] EXCEPT !.pc = "recon_pre", !.pre = snapshot])
    /\ UNCHANGED <<world, slot, lock, store, acct, broker>>

\* RunStore::last_snapshot: of the run that finished last and has one (slots
\* finish in their order: a run ends before the next day's slot is due).
last_snapshot ==
    LET withView == {k \in Slots : runs[k].status = "done" /\ runs[k].snapshot # None}
    IN  IF withView = {} THEN None ELSE runs[Max(withView)].snapshot

\* RunStore::in_flight, each entry looked up by its tag.
in_flight_orders ==
    {i \in OrderIds : LET k == orders[i].tag[1] IN
        runs[k].status = "in_progress" /\ runs[k].journal[orders[i].tag[2]] # "no"}

\* Wrong variant: the fills of a crashed attempt are left out.
BaselineForgetful == last_snapshot

\* The pre-trade baseline: the last snapshot plus the fills of crashed attempts.
pre_baseline == IF last_snapshot = None THEN None ELSE after_orders(last_snapshot, in_flight_orders)

\* step_recon_pre.
ReconPre(p) ==
    LET local == [run[p] EXCEPT !.applied = in_flight_orders,
                                !.base = IF pre_baseline = None THEN run[p].pre ELSE pre_baseline]
    IN  /\ run[p].pc = "recon_pre"
        /\ \/ FailClosed(p) /\ UNCHANGED acct
           \/ /\ NoFault
              /\ IF Reconciles(run[p].pre, pre_baseline, in_flight_orders)
                 THEN Become(p, [local EXCEPT !.pc = "risk"]) /\ UNCHANGED acct
                 ELSE HaltReconciliation(p, local)
        /\ UNCHANGED <<world, slot, lock, store, broker>>

\* step_risk with an overlay that passes: the observation is saved.
Risk(p) ==
    /\ run[p].pc = "risk"
    /\ \/ FailClosed(p) /\ UNCHANGED acct
       \/ /\ NoFault
          /\ IF Saves(p)
             THEN /\ acct' = [acct EXCEPT !.version = @ + 1]
                  /\ Become(p, [run[p] EXCEPT !.pc = "plan", !.version = @ + 1])
             ELSE Stop(p, "FailedClosed") /\ UNCHANGED acct
    /\ UNCHANGED <<world, slot, lock, store, broker>>

\* step_targets and step_plan: the legs the view still lacks; a buy may count on
\* the proceeds of the planned sell.
Plan(p) ==
    LET view == run[p].pre
        legs == IF ~run[p].planned THEN {}
                ELSE {l \in Legs : IF l = "Sell" THEN view.sold = 0 ELSE view.bought = 0}
        first == IF "Sell" \in legs THEN "look_up" ELSE IF "Buy" \in legs THEN "replan" ELSE "last_look"
    IN  /\ run[p].pc = "plan"
        /\ \/ FailClosed(p)
           \/ NoFault /\ Become(p, [run[p] EXCEPT !.plan = legs, !.leg = "Sell", !.pc = first])
        /\ UNCHANGED <<world, slot, lock, store, acct, broker>>

-----------------------------------------------------------------------------
(* step_execute and execute_order: one leg at a time, sells first. *)

tag(p) == <<run[p].key, run[p].leg>>
LegPlaced(outcome, id) == [outcome |-> outcome, id |-> id, anomaly |-> FALSE, late |-> {}]

\* The leg is over: re-read the account before a planned buy, or reconcile.
EndLeg(p, placed) ==
    Become(p, [run[p] EXCEPT !.placed[run[p].leg] = placed,
                             !.pc = IF run[p].leg = "Sell" /\ "Buy" \in run[p].plan
                                    THEN "replan" ELSE "last_look"])

NotSent(p) == EndLeg(p, LegPlaced("NotSent", None))

\* An order of ours exists: from here on this leg describes that order.
Follow(p, outcome, id, pc) ==
    Become(p, [run[p] EXCEPT !.placed[run[p].leg] = LegPlaced(outcome, id), !.pc = pc])

\* Never send an order whose tag exists at the broker: adopt it instead.
LookUp(p) ==
    /\ run[p].pc = "look_up"
    /\ \/ Fault("down") /\ NotSent(p)
       \/ NoFault /\ IF find_by_tag(tag(p)) = {} THEN Goto(p, "intent")
                     ELSE Follow(p, "AdoptedExisting", Min(find_by_tag(tag(p))), "journal")
    /\ UNCHANGED <<world, slot, lock, store, acct, broker>>

\* PgRunStore::journal_order: an upsert keyed by the run, whatever its status.
Journals(p, entry) ==
    runs' = [runs EXCEPT ![run[p].key].journal[run[p].leg] = entry]

\* Wrong variant: the intent is not recorded before the order is sent.
IntentSkipped(p) ==
    /\ run[p].pc = "intent"
    /\ NoFault
    /\ Goto(p, "place")
    /\ UNCHANGED <<world, slot, lock, store, acct, broker>>

\* The intent is journaled BEFORE the order is sent, or the order is not sent.
JournalIntent(p) ==
    /\ run[p].pc = "intent"
    /\ \/ Fault("down") /\ NotSent(p) /\ UNCHANGED runs
       \/ NoFault /\ Journals(p, "intent") /\ Goto(p, "place")
    /\ UNCHANGED <<world, slot, lock, leased, acct, broker>>

NewOrder(t) == [tag |-> t, status |-> "open"]

\* Broker::place and its answers: accepted, refused, not sent, or lost (the
\* order exists, is still on its way, or never arrives).
Place(p) ==
    /\ run[p].pc = "place"
    /\ \/ /\ NoFault
          /\ orders' = Append(orders, NewOrder(tag(p)))
          /\ Follow(p, "NotSent", Len(orders) + 1, "journal")
          /\ UNCHANGED transit
       \/ /\ Fault("reject")
          /\ EndLeg(p, LegPlaced("Rejected", None))
          /\ UNCHANGED broker
       \/ Fault("down") /\ NotSent(p) /\ UNCHANGED broker
       \/ /\ Fault("unknown")
          /\ Goto(p, "look_again")
          /\ \/ orders' = Append(orders, NewOrder(tag(p))) /\ UNCHANGED transit
             \/ transit' = transit \cup {tag(p)} /\ UNCHANGED orders
    /\ UNCHANGED <<world, slot, lock, store, acct>>

\* Wrong variant: an order the look-up does not find is sent again.
LookAgainResends(p) ==
    /\ run[p].pc = "look_again"
    /\ NoFault
    /\ IF find_by_tag(tag(p)) = {} THEN Goto(p, "place")
       ELSE Follow(p, "AdoptedExisting", Min(find_by_tag(tag(p))), "journal")
    /\ UNCHANGED <<world, slot, lock, store, acct, broker>>

\* After a lost answer the order is looked up by tag, never sent again.
LookAgain(p) ==
    /\ run[p].pc = "look_again"
    /\ \/ Fault("down") /\ EndLeg(p, LegPlaced("UnknownNotFound", None))
       \/ NoFault /\ IF find_by_tag(tag(p)) = {}
                     THEN EndLeg(p, LegPlaced("UnknownNotFound", None))
                     ELSE Follow(p, "AdoptedExisting", Min(find_by_tag(tag(p))), "journal")
    /\ UNCHANGED <<world, slot, lock, store, acct, broker>>

\* The broker id is journaled; a failure is kept as an anomaly.
JournalId(p) ==
    /\ run[p].pc = "journal"
    /\ \/ /\ Fault("down")
          /\ Become(p, [run[p] EXCEPT !.placed[run[p].leg].anomaly = TRUE, !.pc = "settle"])
          /\ UNCHANGED runs
       \/ NoFault /\ Journals(p, "id") /\ Goto(p, "settle")
    /\ UNCHANGED <<world, slot, lock, leased, acct, broker>>

\* Wrong variant: the broker's status is stored as the outcome.
FinalizedRaw(placed, status) ==
    [placed EXCEPT !.outcome = IF @ = "AdoptedExisting" THEN @ ELSE status]

\* finalize: the outcome a terminal status gives; an adopted order stays adopted.
Finalized(placed, status) ==
    [placed EXCEPT !.outcome = IF @ = "AdoptedExisting" THEN @
                               ELSE IF status = "filled" THEN "Filled" ELSE "NothingExecuted"]

\* settle_into: poll to a terminal status, cancel what will not end.  An order
\* that cannot be read keeps its outcome and an anomaly; one that cannot be
\* cancelled is unsettled.
Settle(p) ==
    LET placed == run[p].placed[run[p].leg]
        id     == placed.id
    IN  /\ run[p].pc = "settle"
        /\ \/ /\ Fault("down")
              /\ \E outcome \in {placed.outcome, "Unsettled"} :
                    EndLeg(p, [placed EXCEPT !.outcome = outcome, !.anomaly = TRUE])
              /\ UNCHANGED orders
           \/ /\ NoFault
              /\ orders' = IF orders[id].status = "open"
                           THEN [orders EXCEPT ![id].status = "cancelled"] ELSE orders
              /\ EndLeg(p, Finalized(placed, orders'[id].status))
        /\ UNCHANGED <<world, slot, lock, store, acct, transit>>

\* Buys are sized on what the account really holds after the sells settled.  A
\* buy without cash is dropped by the planner as dust.
Replan(p) ==
    LET buys == snapshot.bought = 0 /\ snapshot.sold > snapshot.bought IN
    /\ run[p].pc = "replan"
    /\ \/ FailClosed(p)
       \/ NoFault /\ Become(p, [run[p] EXCEPT !.leg = "Buy", !.pc = IF buys THEN "look_up" ELSE "last_look"])
    /\ UNCHANGED <<world, slot, lock, store, acct, broker>>

-----------------------------------------------------------------------------
(* step_recon_post, step_assess, finish. *)

PlacedLegs(p) == {l \in Legs : run[p].placed[l] # None}

\* The executed orders with tag t: what a look-up by tag reports as filled.
FilledByTag(t) == {i \in find_by_tag(t) : orders[i].status = "filled"}

\* A last look-up of the legs whose outcome is unknown; a look-up that fails
\* changes nothing.
LastLookUp(p) ==
    /\ run[p].pc = "last_look"
    /\ \/ Fault("down") /\ Goto(p, "recon_post")
       \/ NoFault /\ run' = [run EXCEPT ![p].pc = "recon_post", ![p].placed =
                [l \in Legs |-> IF l \in PlacedLegs(p) /\ @[l].outcome = "UnknownNotFound"
                               THEN [@[l] EXCEPT !.late = FilledByTag(<<run[p].key, l>>)] ELSE @[l]]]
    /\ UNCHANGED <<world, slot, lock, store, acct, broker>>

\* The orders a leg reports: its own, or what the last look-up found executed.
Reports(p, l) ==
    LET placed == run[p].placed[l] IN
    IF placed.outcome = "UnknownNotFound" THEN placed.late
    ELSE IF placed.outcome \in {"NotSent", "Rejected"} THEN {} ELSE {placed.id}

\* PlacedOrder::carried.
carried(p, l) ==
    \/ run[p].placed[l].outcome = "Filled"
    \/ /\ run[p].placed[l].outcome \in {"AdoptedExisting", "UnknownNotFound"}
       /\ Executed(Reports(p, l), l) > 0

\* step_assess: nothing the plan asked for is missing.
AllCarried(p) == \A l \in PlacedLegs(p) : carried(p, l)

Unsettled(p) == \E l \in PlacedLegs(p) : run[p].placed[l].outcome = "Unsettled"
Anomalous(p) == \E l \in PlacedLegs(p) : run[p].placed[l].anomaly

\* The fills this run added to its baseline (not the ones a crashed attempt's
\* orders already put there).
NewReports(p) ==
    UNION {IF Reports(p, l) \cap run[p].applied = {} THEN Reports(p, l) ELSE {} : l \in PlacedLegs(p)}

\* step_recon_post: an order that is not settled, or an account that cannot be
\* read, halts; then the view must be the baseline plus our fills, and no call
\* may have left an anomaly.
ReconPost(p) ==
    LET local    == [run[p] EXCEPT !.post = snapshot]
        expected == after_orders(run[p].base, NewReports(p))
        ours     == UNION {Reports(p, l) : l \in PlacedLegs(p)}
    IN  /\ run[p].pc = "recon_post"
        /\ \/ Fault("down") /\ HaltReconciliation(p, run[p])
           \/ /\ NoFault
              /\ IF Unsettled(p) THEN HaltReconciliation(p, run[p])
                 ELSE IF Anomalous(p) \/ ~Reconciles(snapshot, expected, ours)
                 THEN HaltReconciliation(p, local)
                 ELSE Become(p, [local EXCEPT !.pc = "finish", !.carried = AllCarried(p)]) /\ UNCHANGED acct
        /\ UNCHANGED <<world, slot, lock, store, broker>>

Record(p, row) ==
    [row EXCEPT !.status = "done", !.kind = run[p].kind,
                !.acted = run[p].planned /\ run[p].kind = "Completed" /\ run[p].carried,
                !.snapshot = IF run[p].post # None THEN run[p].post ELSE run[p].pre]

\* Wrong variant: the record is written whatever the row says.
FinishOverwrites(p) ==
    /\ run[p].pc = "finish"
    /\ NoFault
    /\ runs' = [runs EXCEPT ![run[p].key] = Record(p, @)]
    /\ leased' = [leased EXCEPT ![run[p].key] = FALSE]
    /\ Goto(p, "unlock")
    /\ UNCHANGED <<world, slot, lock, acct, broker>>

\* finish: one transaction, only for a row in progress; a failure leaves it so.
Finish(p) ==
    LET k == run[p].key IN
    /\ run[p].pc = "finish"
    /\ Goto(p, "unlock")
    /\ \/ Fault("down") /\ UNCHANGED store
       \/ /\ NoFault
          /\ IF runs[k].status = "in_progress"
             THEN /\ runs' = [runs EXCEPT ![k] = Record(p, @)]
                  /\ leased' = [leased EXCEPT ![k] = FALSE]
             ELSE UNCHANGED store
    /\ UNCHANGED <<world, slot, lock, acct, broker>>

-----------------------------------------------------------------------------
(* The broker's own steps. *)

\* A lost request reaches the broker after all, or is gone.
Land(t) ==
    /\ t \in transit
    /\ transit' = transit \ {t}
    /\ orders' = Append(orders, NewOrder(t)) \/ UNCHANGED orders
    /\ UNCHANGED <<world, slot, lock, store, acct, run, faults>>

\* A market order executes, or ends with nothing executed.
Execute(i) ==
    /\ orders[i].status = "open"
    /\ \/ NoFault /\ orders' = [orders EXCEPT ![i].status = "filled"]
       \/ Fault("unfilled") /\ orders' = [orders EXCEPT ![i].status = "cancelled"]
    /\ UNCHANGED <<world, slot, lock, store, acct, transit, run>>

-----------------------------------------------------------------------------
Step(p) ==
    \/ TryLock(p) \/ Begin(p) \/ BeginFails(p) \/ Gate(p) \/ ReadAccount(p) \/ Cleanup(p) \/ Reread(p)
    \/ ReconPre(p) \/ Risk(p) \/ Plan(p) \/ LookUp(p) \/ JournalIntent(p) \/ Place(p)
    \/ JournalId(p) \/ LookAgain(p) \/ Settle(p) \/ Replan(p) \/ LastLookUp(p) \/ ReconPost(p) \/ Finish(p) \/ Unlock(p)

Next ==
    \/ \E p \in Procs : Step(p) \/ Crash(p)
    \/ LockExpires
    \/ \E k \in Slots : RunLeaseExpires(k)
    \/ NextSlot
    \/ \E t \in transit : Land(t)
    \/ \E i \in OrderIds : Execute(i)

Spec == Init /\ [][Next]_vars

-----------------------------------------------------------------------------
(* Properties. *)

\* The account as Rebalance promises it, in the worlds that honour the account lock:
\* how many orders carry a tag, the units executed per leg, the slots with their record,
\* and the runs recorded as having acted on the decision.
SentCount == [t \in Tags |-> IF world.overrun THEN 0 ELSE Cardinality(find_by_tag(t))]
TradedUnits == [l \in Legs |-> IF world.overrun THEN 0 ELSE Executed(OrderIds, l)]
ClosedSlots == {k \in Slots : runs[k].status = "done"}
ActedSlots == {k \in Slots : ~world.overrun /\ "unknown" \notin world.faults /\ runs[k].acted}

Promise == INSTANCE Rebalance WITH
    sent <- SentCount, traded <- TradedUnits, closed <- ClosedSlots, acted <- ActedSlots

\* The pipeline implements the abstract rebalance: over every attempt, process, crash,
\* lost answer and expired run lease, a tag is sent at most once, no leg executes
\* twice, a buy executes only after its sell, and a slot closes for good and counts
\* as acted only with the account at its target (execute_order, journal, begin,
\* finish, the account lock).
ImplementsRebalance == Promise!Spec

\* A tag never names two orders: no crash, lost answer, expired run lease or
\* second process makes an order be sent twice (execute_order, journal, lock).
NoDoublePlacement == \A i, j \in OrderIds : orders[i].tag = orders[j].tag => i = j

\* Whatever reached the broker, or still may, was journaled first, so the next
\* attempt can find it (stores.rs journal_order "BEFORE it is sent").
JournalCoversOrders ==
    \A t \in transit \cup {orders[i].tag : i \in OrderIds} : runs[t[1]].journal[t[2]] # "no"

\* D_acted advances only when the account is at its target, also after a lost answer
\* (step_assess, finish).
ActedAtTarget == acted_decision => snapshot = [sold |-> 1, bought |-> 1]

\* The record of a finished run never changes and no attempt number goes back,
\* even with two attempts of one key alive (finish has no attempt fence).  The
\* journal is not part of the record: a late attempt may still add to it.
RecordFinal ==
    [][\A k \in Slots :
        /\ runs[k].status = "done" => runs'[k] = [runs[k] EXCEPT !.journal = runs'[k].journal]
        /\ runs'[k].attempt >= runs[k].attempt]_runs

\* With no fault but crashes the account is never halted: reconciliation
\* explains every fill of every crashed attempt (pipeline.rs step 6).
CrashNeverHalts == world.faults \subseteq {"crash"} => ~acct.halted

\* It is so when the lock is honoured and a crashed run is taken over the same day.
CrashAloneNeverHalts == ~world.overrun /\ ~world.abandon => CrashNeverHalts

\* A run that failed closed traded nothing (pipeline.rs fail_closed).
FailClosedTradedNothing ==
    \A k \in Slots : runs[k].kind = "FailedClosed" =>
        \A i \in OrderIds : orders[i].tag[1] = k => orders[i].status # "filled"

\* The last slot gets its record once faults stop, whatever happened before
\* (expired leases are taken over; driver.rs, stores.rs begin).
DueSlotFinishes == slot = world.days ~> runs[world.days].status = "done"
=============================================================================
