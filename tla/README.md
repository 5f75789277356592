# A TLA+ model of SignalEngine

SignalEngine runs trading accounts. The part that moves money unattended is the *rebalancer* (`crates/rebalancer-*`):
once a day it compares an account with its target, sells, buys, reconciles, and halts the account when anything is in
doubt. Beside it live the *execution handler* (`crates/executionhandler`), which sends orders to exchanges for the signal
path, and the *strategy host* (`crates/hostbuilder`, `strategyloader`, `strategyhandler`), which starts strategies, feeds
them and books their fills. The correctness of all three is a matter of protocols more than of numbers: several
processes, threads and a person share state, a process may die between two calls, and an order whose answer was lost may
or may not exist. Those protocols are what is modelled here.

## Inventory

| Part | State it keeps | Operations | Interacts with | What makes it correct |
|---|---|---|---|---|
| Account risk state (`rebalancer-risk`) | status, scale, rung, high-water mark, day start, halt and resume records | observe, evaluate, shrink, halt, begin/complete flatten, resume | run, monitor, person | halts end only by a recorded resume; references move the safe way; less equity never means more risk |
| State store (`state_store.rs`) | one versioned row per account | load, save (compare-and-swap) | all callers at once | no update is lost; what is stored can be loaded |
| Run pipeline (`pipeline.rs`) | the local state of one attempt | the twelve steps of `run_once` | broker, data, run store, state store | no order twice, no trade past the target, acted only at target |
| Run store and journal (`stores.rs`, `run_store.rs`) | run rows, leases, journals, snapshots | begin, journal_order, in_flight, finish | attempts | one record per key, intents before orders |
| Reconciliation (`recon.rs`) | none | reconcile, after_orders | pipeline | every difference explained or halts; nothing explained halts |
| Driver and lock (`driver.rs`, `account_lock.rs`) | a lease per account | find_due_runs, try_lock, release | processes | one live run per account while leases hold; the due slot gets done |
| Planner and guard (`rebalancer-core`) | the running account of a plan | plan, apply, check | pipeline | reserve and caps hold for the real account |
| Monitor (`monitor.rs`) | failure streaks | one pass per tick, halt, flatten | state store, lock, alerts | every halt is told; one alert per streak |
| Flatten (`flatten.rs`) | tags of the halt | cancel, cover, sell, verify | broker, run, monitor | ends flat, never turns the position round |
| Alert delivery (`rebalancer-alerts`) | watermark, delivery rows | ingest, send, mark | notifier, sender | no alert passed over, one mail per key |
| Order WAL (`order_wal.rs`) | in-memory view, buffer, two files | log, flush, checkpoint, recover | order path | what reached the disk is known again |
| Circuit breaker, rate limiters, backpressure | atomics, a semaphore | admit, record, refill, release | threads of the order path | limits hold up to what callers have in flight; the circuit closes again |
| Dead letter queues and retry worker | entries, overflow file | enqueue, evict, retry, persist, recover | order path, operator | nothing lost by eviction, retries bounded |
| Graceful shutdown | phase, counters, checkpoint | request, cancel, close, save | order path | every listed order accounted for |
| Multi-leg orders (`multi_leg.rs`) | one group of legs | create, link, fill, cancel | caller and exchange | one exit per group |
| Order gate (`lib.rs`, `risk_controls.rs`) | kill switch, breaker, limits, booked positions, pair links | check, send, book | concurrent callers | overshoot bounded; no hedge used twice |
| Deployments (`deployment_subscriber.rs`, `live_rejection.rs`, host) | deployed map, streams, leases, database rows | deploy, reject, deactivate, replay | Engine, host, market data | a refusal undoes the announcement |
| Pairs trading (`pair_strategy.rs`, `cross_venue_coordinator.rs`) | pending bars, side, halted set | tick, dispatch, two legs | host, two venues | an unhedged pair is halted |
| Fill ledger (`fill_ledger.rs`) | totals per order | cumulative and per-trade reports, seed | venue, recorder | every execution written once |
| Order book (`orderbook`) | slot pool, price levels | add, edit, move, remove, match | market data, strategies | slots neither leak nor serve two orders; best prices first |
| Decision ledger, heartbeat, mandate, account source, service, adapters, connectors, router, market data, configuration | rows, connections, caches | parsing, wiring, HTTP, numeric scoring | everything | see *Not modelled* |

`PROJECT.json` lists the hard behaviours as hazards, each at its line, with the properties that would notice.

## Modules

| Module | Models | Used by |
|---|---|---|
| `AccountRisk`, `RiskStore` | `state.rs`, `overlay.rs`; `state_store.rs` and its callers | `MCRiskStore` |
| `RiskStoreProofs` | theorems about `RiskStore` and the ladder of `AccountRisk` | TLAPS |
| `Rebalance` | the abstract rebalance: what a scheduled run promises | `RunPipeline` |
| `RunPipeline` | `pipeline.rs` (Live), stores, `recon.rs`, `driver.rs`, `account_lock.rs`, the broker as used | `MCRunPipeline`, `MCLiveness` |
| `Flatten`, `Monitor`, `AlertDelivery`, `Planner` | the rebalancer's other protocols | `MCServices` (`Flatten` also `MCLiveness`) |
| `Deployment`, `FillLedger`, `OrderBook`, `PairTrade` | strategy host and order book | `MCServices` (`PairTrade` also `MCPairTrade`) |
| `CircuitBreaker` | `circuit_breaker_v2.rs` | `MCLiveness` |
| `SetLemmas` | no code: minima, maxima, counts and sums over finite sets | the proof modules |
| `RunPipelineProofs`, `RebalanceProofs` | theorems about `RunPipeline`; that it implements `Rebalance` and that crashes alone never halt | TLAPS |
| `MonitorProofs` | theorems about `Monitor`, `Flatten`, `AlertDelivery` | TLAPS |
| `PlannerProofs` | theorems about `Planner` | TLAPS |
| `HostProofs` | theorems about `PairTrade`, `Deployment`, `FillLedger`, `OrderBook` | TLAPS |
| `ExecutionProofs` | theorems about `Backpressure`, `GracefulShutdown`, `MultiLeg`, `BoundedDlq`, `RateLimiter`, `ExecutionRisk`, `PairExposure`, `OrderWal`, `DlqRetryWorker` | TLAPS |
| `OrderWal`, `RateLimiter`, `Backpressure`, `BoundedDlq`, `DlqRetryWorker`, `GracefulShutdown`, `MultiLeg`, `ExecutionRisk`, `PairExposure` | the execution handler | `MCExecution` |

Each component module prefixes its variables (`fl…`, `mo…`, `ad…`), so that one instance can hold several. `MCServices`,
`MCExecution` and `MCLiveness` put components that do not interact side by side: the variable `part`, chosen in the
initial state, names the one that moves, so the state space is the sum and not the product of the components'. Components
that do interact are composed in one module: `RiskStore` (risk state, store and all callers), `RunPipeline` (attempts,
lock, stores, broker), `PairTrade` (strategy, bridge, coordinator, signal loop), `Deployment` (subscriber, replay, host,
rejection), `Monitor` (monitor, run, person).

**AccountRisk.** Money is an integer, every policy fraction a numerator over `Den`, so the code's exact decimal
comparisons stay exact. `DecMax` stands for the size at which the decimal products overflow and `evaluate_risk` fails
closed. The assumptions on the constants are those `RiskPolicy::new` enforces. The loop that lets a held rung recover is
written as the maximum of the rungs that have not recovered, which is where the loop stops.

**RiskStore.** `row` is the table row; each caller has a program counter between store calls, the copy it loaded, the
state it is saving, and the row its save read. `SaveCheck`, `SaveWrite` and `SaveAnswerLost` are the parts of `save` that
other callers can come between; `Stop` is every way a caller ends without saving, dying included. The per-account lock is
left out on purpose: a person never takes it and a run may outlive it, so the compare-and-swap has to be enough.

**RunPipeline.** A process executes one external call per step, in the order of the methods of `Run`. The book is the
smallest with both halves of a rebalance: one unit to sell, one to buy from the proceeds; an order executes in full or
not at all, before or after the run looks. The constant `Worlds` is a set of settings, and a behaviour keeps the one it
starts in (`world`): how many days, which cadence, which faults and how many, whether leases may end under a live holder
(`overrun`), whether a day may end with its run crashed (`abandon`). One run of TLC thus covers several fault models, and
a property says in which worlds it holds. Assumed of the world: a request whose answer was lost has arrived or is gone
when another attempt of the key begins (at least a 15-minute lease later) and before the next day.

**Rebalance** is the abstract specification: a tag is sent at most once, a leg executes at most once, the buy after the
sell, a slot closes once and has acted only with both legs executed. `ImplementsRebalance` is the refinement: the mapping
counts the broker's orders and fills and the finished run rows. It shows nothing of sending in worlds with `overrun`,
nor of acting where answers are lost, where the promise is broken by the code (findings `NoDoublePlacement` and
`ActedAtTarget`); the mapping masks those parts there.

**Flatten** follows one position, long or short, through rounds of cancel, read, cover or sell, settle and verify, over
attempts that crash. **Monitor** has the pass with its gates and the streak of its failures; the flatten and the risk
step are their results. **AlertDelivery** lets inserts commit after they took their timestamp; its history field `cut` marks an alert that shares
its `created_at` with the last of a full batch and is passed over with it. **Planner** has any number
of instruments (two in the run) and both plans of a live run, with sells that may fall short between them; fees round up.
**OrderBook** states a sweep by what lies ahead of an order: what it takes of the order is the rest after everything better
priced or earlier queued, up to the order's size. **OrderWal**,
**RateLimiter** and **CircuitBreaker** take one step per atomic access, queue operation or file write. **ExecutionRisk**
has the gate's checks, the exchange call and the booking as separate steps of concurrent callers. **PairTrade** accepts
any answer of the Python worker. The head comment of each module says what its data stands for and what it leaves out.

## Runs

| Run | Instance | Shows |
|---|---|---|
| `risk_ladder` | one run, one person, two days, three saves, equities on every threshold, zero and overflow | the ladder is sound; day start and halt record are stable |
| `risk_race` | run, monitor and person, three saves | no lost update, halts sticky, high-water mark ratchets, copies sound |
| `run_safety` | two processes in four worlds: three faults of any kind over two days; two faults but no lost answers; three crashes over three days; a lock that ends under a slow run | the pipeline implements `Rebalance`; intents journaled first; crashes alone never halt; records final |
| `liveness` | pipeline with two faults, flatten with two faults, breaker with two threads | the due slot gets its record, a halted account ends flat, the circuit closes |
| `services` | flatten, monitor, alerts, planner, deployments, fills, book, pair, each with its faults | the safety properties of each |
| `execution` | WAL, limiters, backpressure, queues, shutdown, multi-leg, gate, exposure, each with two or three tasks or ids | the safety properties of each |
| `risk_readable`, `run_abandoned`, `run_fail_closed`, `run_overrun`, `flatten_flips`, `pair_belief` | the smallest instance that shows it | **violated**, see below |

Several properties have a premise that names the case in which the code does less, so that they say exactly what holds:
`WalForgetsOnlyInRace` (a checkpoint taken while a task had numbered an entry and not applied it),
`RateKeptUnlessRefillsOverlap` (two refills from one timestamp), `WindowOvershootBounded` and `GateOvershootBounded` (by
what the others have in flight), `NoAlertPassedOver` (late commits, equal timestamps at the batch limit), `OneMailPerKey`
(a mail whose mark was lost), `OneExit` (crossed messages), `ExposureCoversNet` (a leg linked twice),
`EvictionKeepsEntries` and `DlqRetriesBounded` (one life of the process), `FlattenOnlyReduces` (a quantity read while an
earlier order was under way), `UnhedgedIsHalted` (one life of the host: the halted set is in memory; full fills only),
`RejectionUndoesAll` (the refusal comes after the announcement), `CapsHoldWhenExecuted` (all orders executed: a second plan counts
its own sells as done and sends only its buys). Each history
variable behind such a premise is set by the step that makes the case, never by hand.

*Bounds.* Three saves are enough for a shrink, a halt and a resume, and for one caller to write between the read and
the write of another. The equities put a reading on, above and below every threshold. Two slots let a second day meet
what the first left; three are needed for an abandoned journal to be applied twice. Three faults combine, for example, a
lost answer, a failed look-up and a crash. A flatten of three with a lot of two leaves dust, and two tag indices are used
up by two faults. Three alerts with a batch of two are cut off once. Two orders, a buffer of two and a checkpoint every
two entries make a checkpoint fall between any two steps of two tasks. Three ids in queues of two overflow. Two threads
race for every atomic. Three slots of the book hold two orders of one level and one of another, and a sweep of three ends
within the second order. Two venues with ids, two without and one for both are the kinds the routing distinguishes.
Processes, tasks and ids are interchangeable where symmetry is used; the liveness run uses none. Instances stop at their
bounds, hence `CHECK_DEADLOCK FALSE`, except `RunPipeline`, which never deadlocks.

*Fairness* (only in `liveness`): a process that is alive takes its next step and the driver ticks (the service loops for
ever); leases are compared with a clock and so end; a request in flight arrives or is lost; an interrupted flatten is
taken up by the next pass, and the market executes a live market order; threads keep calling through the breaker and the
recovery timeout passes. Nothing is assumed about crashes, faults or, in the pipeline, about the market: it polls a bounded
number of times and cancels. The fault budget makes faults stop, which is the premise of the properties; the breaker
closes only if the service recovers, which may or may not happen in a behaviour.

### What the violated runs mean

1. `risk_readable`: *Shrunk, then halted.* `halt` and `begin_flatten` keep `shrink_rung`; `from_record` requires it to be
   absent. The save commits and returns an error, the flatten does not start, and no later load succeeds.
2. `run_abandoned`: *the abandoned slot.* `in_flight` returns journals of every run in progress, also of days that will
   never run again. Their fills are added to each later snapshot, which has had them since the first later run.
3. `run_fail_closed`: *failing closed in the middle.* The re-read between sells and buys ends the run through
   `fail_closed`; the pre-trade snapshot becomes the next baseline.
4. `run_overrun`: *overrunning leases.* The run key is the guarantee only until its own lease ends; nothing carries the
   attempt number afterwards.
5. `flatten_flips`: *the second sell.* An empty look-up does not show that the first request will not arrive.
6. `pair_belief`: *the exit of nothing.* The pair strategy notes its side before an order is sent and never learns that the
   first leg was refused; its exit opens the reverse pair.

Further disagreements have a configuration each and are findings without a run of their own
(`tlc -config <cfg> <module>`; TLC stops at the violation):

| Configuration | Module | Property | What it shows |
|---|---|---|---|
| `MCPipelineLostSell.cfg` | `MCRunPipeline` | `ActedAtTarget` | a late sell: the decision acted with its buy missing |
| `DeploymentStream.cfg` | `Deployment` | `RejectedHasNoStream` | a refusal before the subscription is noted leaves the stream |
| `MCPairTradeRoute.cfg` | `MCPairTrade` | `RoutedAsDeclared` | venues without an id of their own all route to the first |
| `MCPairTradeBars.cfg` | `MCPairTrade` | `SpreadFromOneBar` | a bar is filed under the bucket of the tick that closed it |
| `OrderWalForgets.cfg` | `OrderWal` | `WalNeverForgets` | a checkpoint covers an entry it does not hold |
| `BackpressurePermits.cfg` | `Backpressure` | `PermitsConserved` | a finished request gives its permit back twice |
| `ExecutionBooked.cfg` | `ExecutionRisk` | `BookedIsHeld` | only the first fill of an order is booked |
| `DlqDismissed.cfg` | `DlqRetryWorker` | `DismissedNotRetried` | an entry dismissed while the worker holds a copy is retried |
| `MultiLegTerminal.cfg` | `MultiLeg` | `TerminalStaysTerminal` | a fill that crosses the cancellation moves a group out of its terminal state |

## Proofs

TLAPS proves the theorems below for every value of the constants that satisfies the named assumptions of the modules; TLC
evaluates the assumptions in the runs. The lemmas and the parts of the inductive invariants are commented where they
stand. The shape is always the same: an invariant `I` that the initial states satisfy and every action keeps (one step per
action), from which the property follows; an action property follows from `I` and one step.

| Theorem | States | Inductive invariant, and why the property alone is not enough |
|---|---|---|
| `RiskStoreProofs!TypeCorrect` | `TypeOK` | itself |
| `RiskStoreProofs!CopiesAreSound` | `CopiesSound` | with `TypeOK`: a copy is never newer than the row, one with the row's version *is* the row, what is being saved is a legal successor of the copy |
| `UpdatesAreKept`, `HaltIsSticky`, `HwmOnlyRatchets`, `DayStartIsStable`, `FirstHaltIsKept` | the action properties of the row | `CopiesSound`: what a save writes was computed earlier, from a copy, so the step alone says nothing |
| `LadderIsSound` | `LadderSound` | none: it holds of every state that `TypeOK` admits, by comparing the products of the thresholds |
| `RunPipelineProofs!TypeCorrect` | `TypeOK` | with what a program counter implies of the local state of an attempt |
| `RecordIsFinal` | `RecordFinal` | `TypeOK` |
| `JournalIsAhead` | `JournalCoversOrders` | also for the orders in transit and the order about to be sent: an order arrives long after its intent was written |
| `RebalanceProofs!LockPreventsDoublePlacement` | `NoDoublePlacement` without `overrun` | `FlowInv`: whoever works holds the lock and runs today's slot, a tag is in transit or at the broker at most once, a leg can execute at most once, an attempt about to send has looked |
| `PipelineImplementsRebalance` | `ImplementsRebalance` | `FlowInv`, and `ClaimInv` for what a run row may claim; every action maps to a step of `Rebalance` or to a stutter |
| `ActedOnlyAtTarget` | `ActedAtTarget` where no answer is lost and leases hold | `ActedIsDone` on top of `FlowInv` |
| `CrashesNeverHalt` | `CrashAloneNeverHalts` | `CalmInv` on top of `FlowInv` and `JournalCoversOrders`: the last snapshot is the fills of the runs on record; the baseline of an attempt is the account without the orders it will report, and it reports every order that is neither on record nor in the baseline; a run that ends has seen the account as it is, with nothing open. That the account is not halted says nothing of whether the next reconciliation will succeed |
| `MonitorProofs!EveryHaltIsTold`, `OneAlertPerStreak` | `HaltIsTold`, `StreakAlertedOnce` | the state a pass works with is the stored one or an older version of it, and only between the save of a halt and its alert is nobody told; the code in memory is that of the last reading that was not busy |
| `FlattenReduces` | `FlattenOnlyReduces` | `FlInv`: at most one order or request can still execute and it fits the position; what the attempt believes at each step; both unless a quantity was read while an order could execute |
| `OneMailEach`, `NothingPassedOver` | `OneMailPerKey`, `NoAlertPassedOver` | an accepted mail is in exactly one of three places: a lost mark, a sent row, the mark under way; the batch being ingested holds everything on time below its newest alert and has its rows or is about to insert them |
| `HostProofs!UnhedgedPairIsHalted` | `UnhedgedIsHalted` | the positions add up to nothing or to the first leg of the pair under way |
| `RejectionLeavesNothing` | `RejectionUndoesAll` | `Tracked`: the host sees an announcement once, the announcing task owns the entry it will note its stream in, the refusal has nobody beside it |
| `FillsAreCountedOnce` | `FillsCountedOnce` | the written totals are quantity and value of some *set* of trades that happened: the sums alone do not say whether the next per-trade report was included |
| `BookSlots` | `SlotsAccounted` | `SlotsInv`: the property position by position instead of by cardinalities (two positions with one slot are one position, a used slot is queued or free and not both), and the shapes of pool, levels and free list |
| `BookMatches` | `MatchIsBest` | `SlotsInv`, from which it follows in every state: a sweep has a price before which it takes whole levels and after which it takes nothing, so moving any quantity to another level does not make it cheaper |
| `ObTypes` | `ObTypeOK` | `SlotsInv` |
| `PlannerProofs!PlannerKeepsReserve` | `BuysKeepReserve` | `PlInv`: the buys still to be sent, with their fees, fit the real cash above the reserve once one is bought or about to be, and a sell still to be sent fits the position. The property says nothing of the orders that wait while others execute |
| `PlannerKeepsCaps` | `CapsHoldWhenExecuted` | `PlInv`: unless an order fell short, the account after the waiting buys is within the gross cap, and after the sells a second plan has nothing left to sell, so its guard simulates the real account |
| `PlTypes` | `PlTypeOK` | `PlInv` |
| `ExecutionProofs!NoPermitIsLost` | `NoPermitLost` | itself, with the types |
| `ShutdownAccounts` | `ShutdownAccountsForListed` | counters and what is left add up to what was listed; of what was handled only failures may still be open |
| `GroupHasOneExit` | `OneExit` | `MlInOrder`: what each group state says of its legs as long as no message crossed another; a bracket's exits wait for its entry |
| `EvictionKeepsAll` | `EvictionKeepsEntries` | every failed order is in exactly one of the queue and the overflow file, once |
| `RateIsKept` | `RateKeptUnlessRefillsOverlap` | `RefillInv`: one thread refills at a time, and what it is about to add was not credited yet |
| `GateOvershoots` | `GateOvershootBounded` | the position at the exchange is the booked one with the fills not booked yet, and the booked one with everything that passed the check is within the bound, in each direction |
| `WindowOvershoots` | `WindowOvershootBounded` | for *every* `j`: what was admitted, plus the threads that passed or foresee a sum below rate + `j`, is at most rate + threads - 1 + `j`. The case `j = 0`, which is the property, is not inductive: clearing a segment lowers what a thread in the middle of its sum will see |
| `ExposureCovers` | `ExposureCoversNet` | unless a leg was linked twice, links lead back: the pairs partition the hedged legs, and the sum of magnitudes over a partition covers the magnitude of the sum |
| `WalRemembers` | `WalForgetsOnlyInRace` | `WalInv`: an entry held by a task, queued, buffered or in the file whose number the checkpoint (or the view collected for the next one) claims belongs to an order that has ended or is in it. The property speaks of the file only, but entries numbered before a checkpoint are flushed after it |
| `RetriesAreBounded` | `DlqRetriesBounded` for `max_retries` of at least one | an entry has counted the sends of its order, and the one about to be made; a pending one is below the limit, and so is every order still to be sent from the copied batch, in which it occurs once. With a limit of zero the worker still sends once: `mark_retry_failed` looks at the limit after a retry only |

`SetLemmas` holds what these proofs need of minima, maxima, counts and sums over finite sets (`SumFunctionOnSet` of the
community modules). The induction theorems of the library take an operator as a parameter and cannot be used here; the sums
are done with `NoBadPart` instead, which takes the *set* of the parts for which a fact fails and shows that it has no
smallest member.

*Assumptions.* `PolicyAssumption` is what `RiskPolicy::new` enforces; `ValueAssumption`, `NoneAssumption` and
`CallerAssumption` say that `None` is no value and that equities are integers. `PipelineAssumption`, `MonitorAssumption`,
`FlattenAssumption`, `AlertAssumption`, `PairAssumption`, `DeploymentAssumption`, `LedgerAssumption`,
`BackpressureAssumption`, `ShutdownAssumption`, `LegAssumption`, `DlqAssumption`, `LimiterAssumption`, `GateAssumption`,
`ExposureAssumption`, `OrderWalAssumption`, `RetryWorkerAssumption`, `PlanParameters` and `BookParameters` give the types of the constants: finite sets of threads or legs, positive sizes, distinct names. None
bounds how often anything happens: the caps in the guards are arbitrary naturals.

What a fold over a sequence computes for every input needs induction over data, so the modules avoid it where a property
depends on the result: `OrderWal` and `DlqRetryWorker` state their filters by positions (the last position of an order in
the file, the pending positions in ascending order), `Planner` tries its orders with a recursive function over the
instruments, and `OrderBook` sums quantities over sets of positions.

*Model-checked only.*

- `SlotFinishes`, `FlattenEnds`, `CircuitCloses`: liveness under fairness and
  `ENABLED` are outside the prover.
- `ServiceTypeOK`, `ExecTypeOK`: conjunctions of the type invariants of components that do not interact; the proofs state the
  part of each type they use.
- The violated properties: a counterexample is a behaviour, which is what TLC produces.

## Not modelled

The map covers a small share of the repository's lines: most of its 120,000 lines are static libraries of strategies
(`strategy_library.rs`, `legacy_pilot_library.rs`), HTTP connectors, account and configuration parsing, numeric strategies
and their fixtures, where there is no protocol for a model checker to explore. By part:

- *pipeline*: Assisted and Paper modes, partial fills, reconciliation tolerances and stale views, the equity log;
- *decision ledger, heartbeat*: append-only rows and a due-time comparison; candidates for small modules;
- *data, decisions, cell rules, mandate, account source*: evaluation and validation of numbers and rows, no shared state;
- *broker adapters, exchange connectors*: wire formats; their behaviour enters as lost, late and refused requests;
- *smart order router, market data, signal services, configuration, Python bridge*: numeric scoring, throughput and wiring;
- *statistics, logging, metrics* everywhere.

`PROJECT.json` gives the reason for each part.

## Plan

Partial fills and a second instrument in `RunPipeline`, where the recorded quantities begin to matter; then the decision
ledger and the heartbeat as small modules of their own.
