----------------------------- MODULE RateLimiter -----------------------------
(***************************************************************************)
(* executionhandler rate_limiter.rs: the two lock-free limiters, each      *)
(* shared by several threads.  One step is one access of an atomic; a      *)
(* compare-exchange loop that only recomputes and retries is one step.     *)
(* The token bucket counts in units of 1/TokenScale token and gains one    *)
(* unit per tick of the clock, so no remainder is lost to truncation.      *)
(***************************************************************************)
EXTENDS Naturals, FiniteSets, FiniteSetsExt, Functions

CONSTANTS
    RlThreads,    \* the threads that ask
    TokenScale,   \* units of a token (SCALE, 1000 in the code)
    BurstSize,    \* capacity of the bucket in tokens
    MaxCost,      \* largest n of try_acquire_n
    WindowRate,   \* requests the sliding window admits
    Segments,     \* segments of the window
    RlMaxTime     \* bound: ticks of the clock in one behaviour

ASSUME LimiterAssumption ==
    /\ TokenScale \in Nat /\ BurstSize \in Nat /\ MaxCost \in Nat
    /\ IsFiniteSet(RlThreads) /\ RlThreads # {}
    /\ WindowRate \in Nat /\ Segments \in Nat \ {0}

VARIABLES
    rlTime,    \* the clock, in ticks; one segment lasts one tick
    tb,        \* the bucket's atomics: tokens and last_refill
    tbThread,  \* tbThread[t]: pc, the operation, its cost, the now and last it read
    tbGiven,   \* history: units handed out, units put in by reset, did refills overlap?
    sw,        \* the window's atomics: the segments, current_segment, last_rotation
    swThread   \* swThread[t]: pc, the now, last, index and running total it read

tbVars == <<tb, tbThread, tbGiven>>
swVars == <<sw, swThread>>
rlVars == <<rlTime, tbVars, swVars>>

max_tokens == BurstSize * TokenScale
TbIdle == [pc |-> "idle", op |-> "try", cost |-> 0, now |-> 0, last |-> 0]
SwIdle == [pc |-> "idle", now |-> 0, last |-> 0, idx |-> 0, todo |-> {}, total |-> 0]

RlTypeOK ==
    /\ rlTime \in 0..RlMaxTime
    /\ tb \in [tokens : 0..max_tokens, last : 0..RlMaxTime]
    /\ \A t \in RlThreads : tbThread[t].pc \in {"idle", "load", "update", "add", "consume", "stamp"}
    /\ sw.idx \in 0..(Segments - 1) /\ sw.last \in 0..RlMaxTime
    /\ \A t \in RlThreads : swThread[t].pc \in {"idle", "load", "index", "clear", "store", "stamp",
                                                "sum", "pick", "count"}

RlInit ==
    /\ rlTime = 0
    /\ tb = [tokens |-> max_tokens, last |-> 0]
    /\ tbThread = [t \in RlThreads |-> TbIdle]
    /\ tbGiven = [taken |-> 0, reset |-> 0, overlapped |-> FALSE]
    /\ sw = [count |-> [i \in 0..(Segments - 1) |-> 0], idx |-> 0, last |-> 0]
    /\ swThread = [t \in RlThreads |-> SwIdle]

RlTick == rlTime < RlMaxTime /\ rlTime' = rlTime + 1 /\ UNCHANGED <<tbVars, swVars>>

-----------------------------------------------------------------------------
(* AtomicTokenBucket *)

Refilling == {"load", "update", "add", "stamp"}
TbOverlap(t) == \E u \in RlThreads \ {t} : tbThread[u].pc \in Refilling

TbGoto(t, pc) == tbThread' = [tbThread EXCEPT ![t].pc = pc]

\* try_acquire_n, acquire_n and the readers available_tokens and utilization (cost 0)
\* all begin with refill, which reads the clock first.
TbBegin(t, op, cost) ==
    /\ tbThread[t].pc = "idle"
    /\ tbThread' = [tbThread EXCEPT ![t] = [TbIdle EXCEPT !.pc = "load", !.op = op,
                                            !.cost = cost * TokenScale, !.now = rlTime]]
    /\ tbGiven' = [tbGiven EXCEPT !.overlapped = @ \/ TbOverlap(t)]
    /\ UNCHANGED tb

\* refill: load last_refill; nothing to add unless the clock is past it.
refill(t) ==
    /\ tbThread[t].pc = "load"
    /\ tbThread' = [tbThread EXCEPT ![t].last = tb.last,
                                    ![t].pc = IF tbThread[t].now <= tb.last THEN "consume" ELSE "update"]
    /\ UNCHANGED <<tb, tbGiven>>

\* A plausible slip: the refill forgets to move last_refill.
UpdateLastRefillLost(t) ==
    /\ tbThread[t].pc = "update"
    /\ TbGoto(t, "add")
    /\ UNCHANGED <<tb, tbGiven>>

\* The compare-exchange on last_refill; whether it succeeded is ignored.
UpdateLastRefill(t) ==
    /\ tbThread[t].pc = "update"
    /\ tb' = [tb EXCEPT !.last = IF @ = tbThread[t].last THEN tbThread[t].now ELSE @]
    /\ TbGoto(t, "add")
    /\ UNCHANGED tbGiven

AddTokens(t) ==
    /\ tbThread[t].pc = "add"
    /\ tb' = [tb EXCEPT !.tokens = Min({@ + (tbThread[t].now - tbThread[t].last), max_tokens})]
    /\ TbGoto(t, "consume")
    /\ UNCHANGED tbGiven

\* Too few tokens: try_acquire_n returns false, acquire_n sleeps and refills again.
Consume(t) ==
    LET self == tbThread[t]
        enough == tb.tokens >= self.cost
    IN  /\ self.pc = "consume"
        /\ tb' = [tb EXCEPT !.tokens = IF enough THEN @ - self.cost ELSE @]
        /\ tbGiven' = [tbGiven EXCEPT !.taken = IF enough THEN @ + self.cost ELSE @,
                                      !.overlapped = @ \/ (~enough /\ self.op = "acquire" /\ TbOverlap(t))]
        /\ tbThread' = [tbThread EXCEPT ![t] =
              IF enough \/ self.op = "try" THEN TbIdle
              ELSE [self EXCEPT !.pc = "load", !.now = rlTime, !.last = 0]]

\* reset: fill the bucket, then stamp last_refill with the clock.
TbReset(t) ==
    /\ tbThread[t].pc = "idle"
    /\ tb' = [tb EXCEPT !.tokens = max_tokens]
    /\ tbGiven' = [tbGiven EXCEPT !.reset = @ + max_tokens, !.overlapped = @ \/ TbOverlap(t)]
    /\ tbThread' = [tbThread EXCEPT ![t] = [TbIdle EXCEPT !.pc = "stamp"]]

TbStamp(t) ==
    /\ tbThread[t].pc = "stamp"
    /\ tb' = [tb EXCEPT !.last = rlTime]
    /\ tbThread' = [tbThread EXCEPT ![t] = TbIdle]
    /\ UNCHANGED tbGiven

TbNext ==
    \E t \in RlThreads :
        /\ \/ \E op \in {"try", "acquire"}, cost \in 0..MaxCost : TbBegin(t, op, cost)
           \/ refill(t) \/ UpdateLastRefill(t) \/ AddTokens(t) \/ Consume(t)
           \/ (tbGiven.reset = 0 /\ TbReset(t)) \/ TbStamp(t)
        /\ UNCHANGED <<rlTime, swVars>>

-----------------------------------------------------------------------------
(* SlidingWindowLimiter *)

SwGoto(t, pc) == swThread' = [swThread EXCEPT ![t].pc = pc]

\* try_acquire: rotate_if_needed reads the clock, then last_rotation.
SwBegin(t) ==
    /\ swThread[t].pc = "idle"
    /\ swThread' = [swThread EXCEPT ![t] = [SwIdle EXCEPT !.pc = "load", !.now = rlTime]]
    /\ UNCHANGED sw

ToSum(self) == [self EXCEPT !.pc = "sum", !.todo = 0..(Segments - 1), !.total = 0]

\* now - last_rotation is unsigned: a rotation stamped after this clock reading wraps
\* it to a huge number of segments.
rotate_if_needed(t) ==
    /\ swThread[t].pc = "load"
    /\ swThread' = [swThread EXCEPT ![t] =
          IF @.now = sw.last THEN ToSum(@) ELSE [@ EXCEPT !.last = sw.last, !.pc = "index"]]
    /\ UNCHANGED sw

\* The segments to clear, and where current_segment lands: any segment after a wrap.
LoadIndex(t) ==
    LET self == swThread[t]
        wrapped == self.now < self.last
        advance == IF wrapped THEN Segments ELSE self.now - self.last
    IN  /\ self.pc = "index"
        /\ \E land \in 0..(Segments - 1) :
              /\ wrapped \/ land = (sw.idx + advance) % Segments
              /\ swThread' = [swThread EXCEPT ![t] = [self EXCEPT !.pc = "clear", !.idx = land,
                    !.todo = {(sw.idx + i) % Segments : i \in 1..Min({advance, Segments})}]]
        /\ UNCHANGED sw

ClearSegment(t) ==
    /\ swThread[t].pc = "clear"
    /\ \E i \in swThread[t].todo :
          /\ sw' = [sw EXCEPT !.count[i] = 0]
          /\ swThread' = [swThread EXCEPT ![t].todo = @ \ {i},
                                          ![t].pc = IF swThread[t].todo = {i} THEN "store" ELSE @]

StoreIndex(t) ==
    /\ swThread[t].pc = "store"
    /\ sw' = [sw EXCEPT !.idx = swThread[t].idx]
    /\ SwGoto(t, "stamp")

StampRotation(t) ==
    /\ swThread[t].pc = "stamp"
    /\ sw' = [sw EXCEPT !.last = swThread[t].now]
    /\ swThread' = [swThread EXCEPT ![t] = ToSum(@)]

\* A plausible slip: > for >= in the comparison with the rate.
SumSegmentOffByOne(t) ==
    /\ swThread[t].pc = "sum"
    /\ LET self == swThread[t]
           i == Min(self.todo)
           total == self.total + sw.count[i]
       IN  swThread' = [swThread EXCEPT ![t] =
              IF self.todo # {i} THEN [self EXCEPT !.todo = self.todo \ {i}, !.total = total]
              ELSE IF total > WindowRate THEN SwIdle ELSE [SwIdle EXCEPT !.pc = "pick"]]
    /\ UNCHANGED sw

\* The segments are summed one load at a time; a full window refuses the request.
SumSegment(t) ==
    /\ swThread[t].pc = "sum"
    /\ LET self == swThread[t]
           i == Min(self.todo)
           total == self.total + sw.count[i]
       IN  swThread' = [swThread EXCEPT ![t] =
              IF self.todo # {i} THEN [self EXCEPT !.todo = self.todo \ {i}, !.total = total]
              ELSE IF total >= WindowRate THEN SwIdle ELSE [SwIdle EXCEPT !.pc = "pick"]]
    /\ UNCHANGED sw

PickSegment(t) ==
    /\ swThread[t].pc = "pick"
    /\ swThread' = [swThread EXCEPT ![t].pc = "count", ![t].idx = sw.idx]
    /\ UNCHANGED sw

CountRequest(t) ==
    /\ swThread[t].pc = "count"
    /\ sw' = [sw EXCEPT !.count[swThread[t].idx] = @ + 1]
    /\ swThread' = [swThread EXCEPT ![t] = SwIdle]

SwNext ==
    \E t \in RlThreads :
        /\ \/ SwBegin(t) \/ rotate_if_needed(t) \/ LoadIndex(t) \/ ClearSegment(t) \/ StoreIndex(t)
           \/ StampRotation(t) \/ SumSegment(t) \/ PickSegment(t) \/ CountRequest(t)
        /\ UNCHANGED <<rlTime, tbVars>>

RlNext == RlTick \/ TbNext \/ SwNext

RlSpec == RlInit /\ [][RlNext]_rlVars

-----------------------------------------------------------------------------
\* As long as no two refills overlapped, the bucket has given out no more than its burst
\* plus one unit per tick, however the calls of the threads interleave otherwise.  (When
\* two overlap, both are credited the same time: the failed compare-exchange is ignored.)
RateKeptUnlessRefillsOverlap ==
    ~tbGiven.overlapped =>
        tbGiven.taken + tb.tokens <= max_tokens + tbGiven.reset + rlTime

\* The window overshoots its rate by at most one request per other thread, whatever
\* rotations, wrapped subtractions and stale sums of the other threads come in between.
WindowOvershootBounded ==
    SumFunctionOnSet(sw.count, 0..(Segments - 1))
        <= WindowRate + Cardinality(RlThreads) - 1
=============================================================================
