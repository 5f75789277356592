-------------------------- MODULE GracefulShutdown --------------------------
(***************************************************************************)
(* executionhandler graceful_shutdown.rs: execute_shutdown cancels the     *)
(* open orders in parallel batches, closes the positions one after         *)
(* another, writes a checkpoint and ends; each phase has a deadline.       *)
(* Meanwhile callers that read should_block_orders before the request are  *)
(* still on their way to the exchange, and open orders fill.               *)
(* The callbacks and the exchange are external.  Everything here is one    *)
(* shutdown: request_shutdown ignores a second request.                    *)
(***************************************************************************)
EXTENDS Naturals, FiniteSets, FiniteSetsExt

CONSTANTS
    SdOrders,     \* orders that may be placed; a filled one is a position
    MaxParallel   \* max_parallel_cancels

ASSUME ShutdownAssumption == IsFiniteSet(SdOrders) /\ MaxParallel \in Nat \ {0}

VARIABLES
    sdOrder,   \* sdOrder[o]: where the order is
    sdPhase,   \* the phase of the shutdown
    sdTodo,    \* orders or positions listed by the phase and not yet handled
    sdListed,  \* what the cancel phase and the close phase listed
    sdResult   \* the counters of ShutdownResult, success and the checkpoint

sdVars == <<sdOrder, sdPhase, sdTodo, sdListed, sdResult>>

SdOrderStates == {"none", "admitted", "open", "cancelled", "position", "closed"}
SdPhases == {"running", "initiated", "cancelling", "closing", "saving", "finalizing", "complete"}
SdIn(state) == {o \in SdOrders : sdOrder[o] = state}

SdTypeOK ==
    /\ sdOrder \in [SdOrders -> SdOrderStates]
    /\ sdPhase \in SdPhases /\ sdTodo \subseteq SdOrders
    /\ sdListed \in [orders : SUBSET SdOrders, positions : SUBSET SdOrders]
    /\ sdResult \in [cancelled : Nat, failed : Nat, closed : Nat, notClosed : Nat, success : BOOLEAN,
                     savedOrders : SUBSET SdOrders, savedPositions : SUBSET SdOrders]

SdInit ==
    /\ sdOrder = [o \in SdOrders |-> "none"]
    /\ sdPhase = "running"
    /\ sdTodo = {}
    /\ sdListed = [orders |-> {}, positions |-> {}]
    /\ sdResult = [cancelled |-> 0, failed |-> 0, closed |-> 0, notClosed |-> 0, success |-> TRUE,
                   savedOrders |-> {}, savedPositions |-> {}]

-----------------------------------------------------------------------------
(* The rest of the process and the exchange *)

\* should_block_orders: only a caller that asked before the request goes on.
should_block_orders(o) ==
    /\ sdPhase = "running" /\ sdOrder[o] = "none"
    /\ sdOrder' = [sdOrder EXCEPT ![o] = "admitted"]
    /\ UNCHANGED <<sdPhase, sdTodo, sdListed, sdResult>>

SdPlace(o) ==
    /\ sdOrder[o] = "admitted"
    /\ sdOrder' = [sdOrder EXCEPT ![o] = "open"]
    /\ UNCHANGED <<sdPhase, sdTodo, sdListed, sdResult>>

SdFill(o) ==
    /\ sdOrder[o] = "open"
    /\ sdOrder' = [sdOrder EXCEPT ![o] = "position"]
    /\ UNCHANGED <<sdPhase, sdTodo, sdListed, sdResult>>

request_shutdown ==
    /\ sdPhase = "running"
    /\ sdPhase' = "initiated"
    /\ UNCHANGED <<sdOrder, sdTodo, sdListed, sdResult>>

-----------------------------------------------------------------------------
(* execute_shutdown: the phases the configuration asks for, in order *)

SdEnter(phase, todo) == sdPhase' = phase /\ sdTodo' = todo

\* cancel_all_orders lists the open orders once.
BeginCancelling ==
    /\ sdPhase = "initiated"
    /\ SdEnter("cancelling", SdIn("open"))
    /\ sdListed' = [sdListed EXCEPT !.orders = SdIn("open")]
    /\ UNCHANGED <<sdOrder, sdResult>>

\* One chunk, joined: a cancel succeeds on an open order, and fails on one that filled or
\* whose answer was lost (cancelled all the same, or still open).
CancelChunk ==
    /\ sdPhase = "cancelling" /\ sdTodo # {}
    /\ \E chunk \in SUBSET sdTodo :
          /\ Cardinality(chunk) = Min({MaxParallel, Cardinality(sdTodo)})
          /\ \E gone \in SUBSET {o \in chunk : sdOrder[o] = "open"} :
                /\ sdOrder' = [o \in SdOrders |-> IF o \in gone THEN "cancelled" ELSE sdOrder[o]]
                /\ \E ok \in SUBSET gone :
                      sdResult' = [sdResult EXCEPT !.cancelled = @ + Cardinality(ok),
                                                   !.failed = @ + Cardinality(chunk) - Cardinality(ok)]
          /\ sdTodo' = sdTodo \ chunk
    /\ UNCHANGED <<sdPhase, sdListed>>

\* A plausible slip: the chunks that were not reached are not counted.
CancelDeadlineUncounted ==
    /\ sdPhase = "cancelling" /\ sdTodo # {}
    /\ sdTodo' = {}
    /\ UNCHANGED <<sdOrder, sdPhase, sdListed, sdResult>>

\* The deadline passed between two chunks: the rest counts as failed.
CancelDeadline ==
    /\ sdPhase = "cancelling" /\ sdTodo # {}
    /\ sdResult' = [sdResult EXCEPT
          !.failed = @ + Cardinality(sdListed.orders) - sdResult.cancelled - sdResult.failed]
    /\ sdTodo' = {}
    /\ UNCHANGED <<sdOrder, sdPhase, sdListed>>

\* The grace period was over before the phase began: nothing is listed.
GraceExpired(next) ==
    /\ sdPhase' = next
    /\ sdTodo' = {}
    /\ sdResult' = [sdResult EXCEPT !.success = FALSE]
    /\ UNCHANGED <<sdOrder, sdListed>>

\* close_all_positions lists the positions once.
BeginClosing ==
    /\ sdPhase \in {"initiated", "cancelling"} /\ sdTodo = {}
    /\ \/ /\ SdEnter("closing", SdIn("position"))
          /\ sdListed' = [sdListed EXCEPT !.positions = SdIn("position")]
          /\ UNCHANGED <<sdOrder, sdResult>>
       \/ GraceExpired("closing")

ClosePosition(o, ok) ==
    /\ sdPhase = "closing" /\ o \in sdTodo
    /\ sdOrder' = [sdOrder EXCEPT ![o] = IF ok THEN "closed" ELSE @]
    /\ sdResult' = [sdResult EXCEPT !.closed = IF ok THEN @ + 1 ELSE @,
                                    !.notClosed = IF ok THEN @ ELSE @ + 1,
                                    !.success = @ /\ ok]
    /\ sdTodo' = sdTodo \ {o}
    /\ UNCHANGED <<sdPhase, sdListed>>

CloseDeadline ==
    /\ sdPhase = "closing" /\ sdTodo # {}
    /\ sdResult' = [sdResult EXCEPT !.success = FALSE,
          !.notClosed = @ + Cardinality(sdListed.positions) - sdResult.closed - sdResult.notClosed]
    /\ sdTodo' = {}
    /\ UNCHANGED <<sdOrder, sdPhase, sdListed>>

\* save_checkpoint asks for the positions, then for the orders, and writes both.
SavePositions ==
    /\ sdPhase \in {"initiated", "cancelling", "closing"} /\ sdTodo = {}
    /\ SdEnter("saving", {})
    /\ sdResult' = [sdResult EXCEPT !.savedPositions = SdIn("position")]
    /\ UNCHANGED <<sdOrder, sdListed>>

SaveOrders ==
    /\ sdPhase = "saving"
    /\ SdEnter("finalizing", {})
    /\ sdResult' = [sdResult EXCEPT !.savedOrders = SdIn("open")]
    /\ UNCHANGED <<sdOrder, sdListed>>

\* Finalizing flushes and stops the order log; then the shutdown is complete.  Without
\* save_checkpoint it follows the last phase directly.
SdFinalize ==
    /\ sdPhase \in {"initiated", "cancelling", "closing", "finalizing"} /\ sdTodo = {}
    /\ SdEnter("complete", {})
    /\ UNCHANGED <<sdOrder, sdListed, sdResult>>

SdNext ==
    \/ \E o \in SdOrders : should_block_orders(o) \/ SdPlace(o) \/ SdFill(o)
    \/ request_shutdown
    \/ BeginCancelling \/ (sdPhase = "initiated" /\ GraceExpired("cancelling")) \/ CancelChunk \/ CancelDeadline
    \/ BeginClosing \/ (\E o \in SdOrders, ok \in BOOLEAN : ClosePosition(o, ok)) \/ CloseDeadline
    \/ SavePositions \/ SaveOrders \/ SdFinalize

SdSpec == SdInit /\ [][SdNext]_sdVars

-----------------------------------------------------------------------------
\* When the shutdown is complete, every order it listed for cancelling is done with or
\* counted as failed, through partial batches, lost answers and a deadline in between;
\* and if it reports success no position it listed for closing is left.
ShutdownAccountsForListed ==
    sdPhase = "complete" =>
        /\ Cardinality(sdListed.orders \cap SdIn("open")) <= sdResult.failed
        /\ sdResult.cancelled + sdResult.failed = Cardinality(sdListed.orders)
        /\ sdResult.success => sdListed.positions \cap SdIn("position") = {}
=============================================================================
