----------------------------- MODULE PairTrade -----------------------------
(***************************************************************************)
(* One pairs-trading deployment, end to end: the strategy that joins the   *)
(* bars of its two legs and decides (strategyhandler pair_strategy.rs),    *)
(* the bridge thread that hands a batch of two signals to the dual-venue   *)
(* coordinator or, one by one, to the signal channel (hostbuilder lib.rs), *)
(* the coordinator that sends leg 1, then leg 2                            *)
(* (cross_venue_coordinator.rs), and the loop that drains the channel.     *)
(* Prices and the Python worker are left out: the worker answers anything. *)
(* The deployment is live, so that a connector is named after its venue.   *)
(* A leg's quantity is PtQty units of its own, the hedge ratio's share     *)
(* included, so a hedged pair has opposite positions.                      *)
(***************************************************************************)
EXTENDS Integers, Sequences, SequencesExt

CONSTANTS
    PtQty,          \* units of one leg's order
    PtVenueLists,   \* the venues a deployment may declare: one, or one per leg
    PtMaxBucket,    \* bar buckets that pass
    PtChannel,      \* capacity of the signal channel
    PtMaxPosition,  \* bound: no further signal once a leg holds this much
    PtMaxRestarts   \* bound: restarts of the host

ASSUME PairAssumption == PtQty \in Nat

PtLegs == {"A", "B"}
Other(l) == IF l = "A" THEN "B" ELSE "A"

\* An outcome of process_signal_order: the units executed and whether the answer
\* reports a fill.  An exchange may execute an order its poll reports as open.
PtResults == [units : {PtQty}, told : BOOLEAN] \cup [units : {1}, told : {TRUE}] \cup [units : {0}, told : {FALSE}]

\* The declared venues, the number of declared symbols, and whether the legs are one
\* symbol at two venues or two symbols.
PtConfigs == {c \in [venues : PtVenueLists, symbols : {1, 2}, same_symbol : BOOLEAN] :
                c.same_symbol => Len(c.venues) = 2}

VARIABLES
    ptConfig,    \* PaperDeploymentMeta, fixed
    ptNow,       \* the bucket of the current time
    ptAcc,       \* leg -> bucket of its open bar, 0 before the first tick
    ptPending,   \* leg -> its closed bar: bucket, and the bucket its close is from; or none
    ptReading,   \* leg -> the bucket of the close in the last spread
    ptSide,      \* last_side: 1 long the spread, -1 short, 0 none
    ptBatch,     \* the direction of each leg of the pair at the coordinator, or none
    ptFirst,     \* whether leg 1 of that pair is through
    ptQueue,     \* the signal channel: <<leg, direction>>
    ptPosition,  \* leg -> units held
    ptRoute,     \* leg -> the venue its last order went to, or none
    ptHalted,    \* in HALTED_DEPLOYMENTS
    ptInexact,   \* some order executed in part or against its answer
    ptRestarts

ptStrategy == <<ptNow, ptAcc, ptPending, ptReading, ptSide>>
ptBridge == <<ptBatch, ptFirst, ptQueue>>
ptTrades == <<ptPosition, ptRoute, ptInexact>>
ptVars == <<ptConfig, ptStrategy, ptBridge, ptTrades, ptHalted, ptRestarts>>

NoBar == [bucket |-> 0, bar |-> 0]
NoBatch == [l \in PtLegs |-> 0]
NoVenue == "none"
PtBuckets == 0..PtMaxBucket

PtTypeOK ==
    /\ ptConfig \in PtConfigs /\ ptNow \in PtBuckets \ {0}
    /\ ptAcc \in [PtLegs -> PtBuckets] /\ ptReading \in [PtLegs -> PtBuckets]
    /\ ptPending \in [PtLegs -> [bucket : PtBuckets, bar : PtBuckets]]
    /\ ptSide \in {-1, 0, 1} /\ ptBatch \in [PtLegs -> {-1, 0, 1}] /\ ptFirst \in BOOLEAN
    /\ ptQueue \in Seq(PtLegs \X {-1, 1}) /\ Len(ptQueue) <= PtChannel
    /\ ptPosition \in [PtLegs -> Int] /\ \A l \in PtLegs : ptRoute[l] \in ToSet(ptConfig.venues) \cup {NoVenue}
    /\ ptHalted \in BOOLEAN /\ ptInexact \in BOOLEAN
    /\ ptRestarts \in 0..PtMaxRestarts

PtFresh ==
    [acc |-> [l \in PtLegs |-> 0], pending |-> [l \in PtLegs |-> NoBar], reading |-> [l \in PtLegs |-> 0]]

PtInit ==
    /\ ptConfig \in PtConfigs /\ ptNow = 1
    /\ ptAcc = PtFresh.acc /\ ptPending = PtFresh.pending /\ ptReading = PtFresh.reading
    /\ ptSide = 0 /\ ptBatch = NoBatch /\ ptFirst = FALSE /\ ptQueue = << >>
    /\ ptPosition = [l \in PtLegs |-> 0] /\ ptRoute = [l \in PtLegs |-> NoVenue] /\ ptHalted = FALSE
    /\ ptInexact = FALSE /\ ptRestarts = 0

-----------------------------------------------------------------------------
(* The strategy: one tick of one leg. *)

\* accumulate_tick closes the leg's bar when the tick is in another bucket; the
\* closed bar is filed under the bucket of the tick, its close is from the old one.
Filed(l) ==
    IF ptAcc[l] \in {0, ptNow} THEN ptPending
    ELSE [ptPending EXCEPT ![l] = [bucket |-> ptNow, bar |-> ptAcc[l]]]

Closes(l) == ptAcc[l] \notin {0, ptNow}
BothPending(p) == \A l \in PtLegs : p[l] # NoBar

\* try_pair_bars: pair equal buckets, else drop the older bar.
Paired(p) == p["A"].bucket = p["B"].bucket
DropStale(p) == [l \in PtLegs |-> IF p[l].bucket < p[Other(l)].bucket THEN NoBar ELSE p[l]]

\* What the decision makes of last_side, and the batch: entry from flat, exit to flat.
Decided(raw) ==
    IF raw \in {-1, 1} /\ ptSide = 0 THEN [side |-> raw, batch |-> [A |-> raw, B |-> -raw]]
    ELSE IF raw = 2 THEN [side |-> 0, batch |-> [A |-> -ptSide, B |-> ptSide]]
    ELSE [side |-> ptSide, batch |-> NoBatch]

-----------------------------------------------------------------------------
(* The bridge: where a batch goes. *)

\* ExchangeId::from_venue_name has an id for three venues; every other name is Binance.
from_venue_name(v) == IF v \in {"coinbase", "kraken"} THEN v ELSE "binance"

\* The venue a leg is declared at.
VenueOf(l) == IF l = "A" THEN Head(ptConfig.venues) ELSE Last(ptConfig.venues)

\* One symbol at two exchanges, as far as their ids tell them apart.
is_correlated_pair ==
    ptConfig.same_symbol /\ from_venue_name(VenueOf("A")) # from_venue_name(VenueOf("B"))
is_pairs_trade_batch == ~ptConfig.same_symbol

\* The batch goes to the coordinator: with two venues declared only, and a pairs trade
\* needs both its symbols declared.
IsPair ==
    /\ Len(ptConfig.venues) = 2
    /\ is_correlated_pair \/ (is_pairs_trade_batch /\ ptConfig.symbols = 2)

\* The first declared venue with the id of the leg's venue.
resolve_venue_for_exchange_id(l) ==
    SelectSeq(ptConfig.venues, LAMBDA v : from_venue_name(v) = from_venue_name(VenueOf(l)))[1]

\* try_send: each signal on its own, a full channel drops it.
Sent(batch) ==
    LET All == <<<<"A", batch["A"]>>, <<"B", batch["B"]>>>>
    IN  SubSeq(ptQueue \o All, 1, IF Len(ptQueue) + 2 > PtChannel THEN PtChannel ELSE Len(ptQueue) + 2)

Dispatch(batch) ==
    /\ ptBatch' = (IF IsPair THEN batch ELSE NoBatch)
    /\ ptQueue' = (IF ~IsPair /\ batch # NoBatch THEN Sent(batch) ELSE ptQueue)
    /\ UNCHANGED ptFirst

\* One tick through the bridge thread, which is busy while it waits for a pair, and
\* passes over a halted deployment before its strategy sees the tick.
Tick(l) ==
    LET filed == Filed(l) IN
    /\ ptBatch = NoBatch /\ ~ptHalted
    /\ \A k \in PtLegs : ptPosition[k] \in -PtMaxPosition..PtMaxPosition
    /\ ptAcc' = [ptAcc EXCEPT ![l] = ptNow]
    /\ IF Closes(l) /\ BothPending(filed) /\ Paired(filed)
       THEN /\ ptPending' = PtFresh.pending
            /\ ptReading' = [k \in PtLegs |-> filed[k].bar]
            /\ \E raw \in {-1, 0, 1, 2} :
                  /\ ptSide' = Decided(raw).side
                  /\ Dispatch(Decided(raw).batch)
       ELSE /\ ptPending' = (IF Closes(l) /\ BothPending(filed) THEN DropStale(filed) ELSE filed)
            /\ UNCHANGED <<ptReading, ptSide, ptBridge>>
    /\ UNCHANGED <<ptConfig, ptNow, ptTrades, ptHalted, ptRestarts>>

-----------------------------------------------------------------------------
(* The orders. *)

\* An order at a venue, with the outcome r.
OrderExecuted(l, dir, venue, r) ==
    /\ ptRoute' = [ptRoute EXCEPT ![l] = venue]
    /\ ptPosition' = [ptPosition EXCEPT ![l] = @ + dir * r.units]
    /\ ptInexact' = (ptInexact \/ r.units = 1 \/ (r.units = PtQty /\ ~r.told))

\* execute_dual_venue_pair, leg 1: not filled as far as it is told, the pair ends here.
Leg1(r) ==
    /\ ptBatch # NoBatch /\ ~ptFirst
    /\ OrderExecuted("A", ptBatch["A"], resolve_venue_for_exchange_id("A"), r)
    /\ IF r.told THEN ptFirst' = TRUE /\ UNCHANGED ptBatch
                 ELSE ptBatch' = NoBatch /\ UNCHANGED ptFirst
    /\ UNCHANGED <<ptConfig, ptStrategy, ptQueue, ptHalted, ptRestarts>>

\* Wrong variant: a failed leg 2 ends the pair like a failed leg 1.
HaltedNever(r) == ptHalted

HaltedAfter(r) == ptHalted \/ ~r.told

\* Leg 2: a failure halts the deployment, and leg 1 stays as it is.
Leg2(r) ==
    /\ ptBatch # NoBatch /\ ptFirst
    /\ OrderExecuted("B", ptBatch["B"], resolve_venue_for_exchange_id("B"), r)
    /\ ptHalted' = HaltedAfter(r)
    /\ ptBatch' = NoBatch /\ ptFirst' = FALSE
    /\ UNCHANGED <<ptConfig, ptStrategy, ptQueue, ptRestarts>>

\* The signal loop takes a signal and sends its order to the deployment's first
\* connector; a failure is only logged.
SignalLoop(r) ==
    /\ ptQueue # << >>
    /\ OrderExecuted(Head(ptQueue)[1], Head(ptQueue)[2], Head(ptConfig.venues), r)
    /\ ptQueue' = Tail(ptQueue)
    /\ UNCHANGED <<ptConfig, ptStrategy, ptBatch, ptFirst, ptHalted, ptRestarts>>

NextBucket ==
    /\ ptNow < PtMaxBucket
    /\ ptNow' = ptNow + 1
    /\ UNCHANGED <<ptConfig, ptAcc, ptPending, ptReading, ptSide, ptBridge, ptTrades, ptHalted, ptRestarts>>

\* The host restarts and the deployment is announced again: strategy, channel and
\* halt are in memory only, the positions are not.
PtRestart ==
    /\ ptRestarts < PtMaxRestarts
    /\ ptRestarts' = ptRestarts + 1
    /\ ptAcc' = PtFresh.acc /\ ptPending' = PtFresh.pending /\ ptReading' = PtFresh.reading
    /\ ptSide' = 0 /\ ptBatch' = NoBatch /\ ptFirst' = FALSE /\ ptQueue' = << >>
    /\ ptHalted' = FALSE
    /\ UNCHANGED <<ptConfig, ptNow, ptTrades>>

PtNext ==
    \/ \E l \in PtLegs : Tick(l)
    \/ \E r \in PtResults : Leg1(r) \/ Leg2(r) \/ SignalLoop(r)
    \/ NextBucket \/ PtRestart

PtSpec == PtInit /\ [][PtNext]_ptVars

-----------------------------------------------------------------------------
\* A coordinated pair whose legs are out of balance between two pairs is halted, over
\* any sequence of entries, exits, refusals and failures, in one life of the host with
\* orders that fill as they are told (execute_dual_venue_pair, the bridge's filter).
UnhedgedIsHalted ==
    IsPair /\ ptBatch = NoBatch /\ ptRestarts = 0 /\ ~ptInexact =>
        (ptPosition["A"] # -ptPosition["B"] => ptHalted)

\* A strategy with no last_side holds nothing: none is "flat" (pair_strategy.rs,
\* PairPythonBridgeStrategy), with every order filled in full or not at all, no pair
\* under way, no halt and no restart.
NoSideIsFlat ==
    IsPair /\ ptBatch = NoBatch /\ ptRestarts = 0 /\ ~ptInexact /\ ~ptHalted =>
        (ptSide = 0 => \A l \in PtLegs : ptPosition[l] = 0)

\* An order of a leg goes to the venue the leg is declared at: the name of a venue and
\* the id of a signal "can never disagree" (cross_venue_coordinator.rs,
\* resolve_venue_for_exchange_id).
RoutedAsDeclared == \A l \in PtLegs : ptRoute[l] \in {NoVenue, VenueOf(l)}

\* A spread is never made of closes of two different bars (pair_strategy.rs,
\* try_pair_bars: "comparing prices from two different points in time").
SpreadFromOneBar == ptReading["A"] = ptReading["B"]
=============================================================================
