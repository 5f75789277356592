------------------------------ MODULE OrderWal ------------------------------
(***************************************************************************)
(* executionhandler order_wal.rs: the write-ahead log of in-flight orders. *)
(* Tasks apply an entry to the in-memory view and queue it for one writer  *)
(* task, which appends it to current.wal and now and then writes           *)
(* checkpoint.json.  A crash keeps the two files and nothing else.  An     *)
(* entry is its order, sequence number and state; sync_mode is Periodic    *)
(* (a flush right after every append is one of its behaviours), and what   *)
(* was written survives the crash of the process.                          *)
(***************************************************************************)
EXTENDS Naturals, Sequences, SequencesExt, FiniteSetsExt

CONSTANTS
    WalNone,
    WalOrders,              \* the order ids
    WalTasks,               \* the tasks that log
    WalStates,              \* the states logged, Pending among them
    WalBufferSize,          \* entries the writer holds before it must flush
    WalCheckpointInterval,  \* sequence numbers between two checkpoints
    WalMaxSeq,              \* bound: sequence numbers handed out
    WalMaxFaults            \* bound: crashes and failed flushes

VARIABLES
    walOrders,   \* the in-memory view: the latest entry of each order
    walSeq,      \* the last sequence number handed out
    walLast,     \* last_checkpoint
    walTask,     \* walTask[t]: the entry it has numbered, and whether it was applied
    walQueue,    \* the channel to the writer
    walWriter,   \* the writer: its buffer, and the view it collected for a checkpoint
    walFile,     \* current.wal
    walCkpt,     \* checkpoint.json, or WalNone
    walUp,       \* is the process up and recovered?
    walFaults,   \* crashes and failed flushes so far
    walEnded,    \* history: the orders for which a terminal state was logged
    walRaced     \* history: a checkpoint took a sequence number it had not seen applied

walDisk == <<walFile, walCkpt>>
walVars == <<walOrders, walSeq, walLast, walTask, walQueue, walWriter, walFile, walCkpt, walUp, walFaults,
             walEnded, walRaced>>

is_terminal(state) == state \in {"Filled", "Cancelled", "Rejected", "Expired", "Failed"}

WalEntries == [order : WalOrders, seq : 1..WalMaxSeq, state : WalStates]
Views(S) == [WalOrders -> S \cup {WalNone}]
NoView == [o \in WalOrders |-> WalNone]
Command(cmd, entry) == [cmd |-> cmd, entry |-> entry]
RestingTask == [entry |-> WalNone, applied |-> FALSE]
RestingWriter == [running |-> TRUE, buffer |-> << >>, collected |-> WalNone, seen |-> 0]

\* "Nothing" is no entry, no view and no checkpoint.
ASSUME OrderWalAssumption ==
    /\ WalMaxSeq \in Nat /\ WalBufferSize \in Nat
    /\ WalNone \notin WalEntries /\ WalNone \notin Views(WalEntries)
    /\ WalNone \notin [seq : 0..WalMaxSeq, active : Views(WalEntries)]

WalTypeOK ==
    /\ walOrders \in Views(WalEntries)
    /\ walSeq \in 0..WalMaxSeq /\ walLast \in 0..WalMaxSeq
    /\ \A t \in WalTasks : walTask[t].entry \in WalEntries \cup {WalNone}
    /\ Len(walQueue) <= 2 * WalBufferSize
    /\ Len(walWriter.buffer) <= WalBufferSize
    /\ \A i \in DOMAIN walFile : walFile[i] \in WalEntries

WalInit ==
    /\ walOrders = NoView /\ walSeq = 0 /\ walLast = 0
    /\ walTask = [t \in WalTasks |-> RestingTask]
    /\ walQueue = << >> /\ walWriter = RestingWriter
    /\ walFile = << >> /\ walCkpt = WalNone
    /\ walUp = TRUE /\ walFaults = 0
    /\ walEnded = {} /\ walRaced = FALSE

-----------------------------------------------------------------------------
(* The tasks: number an entry, apply it, send it. *)

\* log_pending and transition_state up to next_sequence: the order's latest entry
\* is read (it must exist, but for a new order) and numbered.  No transition is
\* refused.
NumberEntry(t, o, state) ==
    /\ walUp /\ walTask[t] = RestingTask /\ walSeq < WalMaxSeq
    /\ (state = "Pending") = (walOrders[o] = WalNone)
    /\ state = "Pending" => \A u \in WalTasks : walTask[u] # RestingTask => walTask[u].entry.order # o
    /\ walSeq' = walSeq + 1
    /\ walTask' = [walTask EXCEPT ![t].entry = [order |-> o, seq |-> walSeq + 1, state |-> state]]
    /\ walEnded' = IF is_terminal(state) THEN walEnded \cup {o} ELSE walEnded
    /\ UNCHANGED <<walOrders, walLast, walQueue, walWriter, walDisk, walUp, walFaults, walRaced>>

\* apply_entry (the sequence never falls behind an entry numbered here).
apply_entry(t) ==
    LET e == walTask[t].entry IN
    /\ walUp /\ e # WalNone /\ ~walTask[t].applied
    /\ walOrders' = [walOrders EXCEPT ![e.order] = e]
    /\ walTask' = [walTask EXCEPT ![t].applied = TRUE]
    /\ UNCHANGED <<walSeq, walLast, walQueue, walWriter, walDisk, walUp, walFaults, walEnded, walRaced>>

\* The send, and maybe_checkpoint.  A channel whose writer stopped refuses.
SendEntry(t) ==
    LET due  == walSeq - walLast >= WalCheckpointInterval
        cmds == <<Command("Append", walTask[t].entry)>> \o (IF due THEN <<Command("Checkpoint", WalNone)>> ELSE << >>)
    IN  /\ walUp /\ walTask[t].applied
        /\ walWriter.running => Len(walQueue) + Len(cmds) <= 2 * WalBufferSize
        /\ walQueue' = IF walWriter.running THEN walQueue \o cmds ELSE walQueue
        /\ walTask' = [walTask EXCEPT ![t] = RestingTask]
        /\ UNCHANGED <<walOrders, walSeq, walLast, walWriter, walDisk, walUp, walFaults, walEnded, walRaced>>

\* shutdown.
RequestShutdown ==
    /\ walUp /\ walWriter.running /\ Command("Shutdown", WalNone) \notin Range(walQueue)
    /\ Len(walQueue) < 2 * WalBufferSize
    /\ walQueue' = Append(walQueue, Command("Shutdown", WalNone))
    /\ UNCHANGED <<walOrders, walSeq, walLast, walTask, walWriter, walDisk, walUp, walFaults, walEnded, walRaced>>

-----------------------------------------------------------------------------
(* run_writer *)

WriterFree == walUp /\ walWriter.running /\ walWriter.collected = WalNone

\* flush_buffer drains the buffer: what a failing write did not write is lost.
flush_buffer(buffer) ==
    \/ walFile' = walFile \o buffer /\ UNCHANGED walFaults
    \/ /\ walFaults < WalMaxFaults /\ buffer # << >>
       /\ walFaults' = walFaults + 1
       /\ \E n \in 0..(Len(buffer) - 1) : walFile' = walFile \o SubSeq(buffer, 1, n)

TakeAppend ==
    LET buffer == Append(walWriter.buffer, Head(walQueue).entry) IN
    /\ WriterFree /\ walQueue # << >> /\ Head(walQueue).cmd = "Append"
    /\ walQueue' = Tail(walQueue)
    /\ IF Len(buffer) >= WalBufferSize
       THEN flush_buffer(buffer) /\ walWriter' = [walWriter EXCEPT !.buffer = << >>]
       ELSE walWriter' = [walWriter EXCEPT !.buffer = buffer] /\ UNCHANGED <<walFile, walFaults>>
    /\ UNCHANGED <<walOrders, walSeq, walLast, walTask, walCkpt, walUp, walEnded, walRaced>>

\* The timer, and WriteCommand::Flush.
PeriodicFlush ==
    /\ WriterFree /\ walWriter.buffer # << >>
    /\ flush_buffer(walWriter.buffer)
    /\ walWriter' = [walWriter EXCEPT !.buffer = << >>]
    /\ UNCHANGED <<walOrders, walSeq, walLast, walTask, walQueue, walCkpt, walUp, walEnded, walRaced>>

TakeShutdown ==
    /\ WriterFree /\ walQueue # << >> /\ Head(walQueue).cmd = "Shutdown"
    /\ flush_buffer(walWriter.buffer)
    /\ walQueue' = << >>
    /\ walWriter' = [walWriter EXCEPT !.buffer = << >>, !.running = FALSE]
    /\ UNCHANGED <<walOrders, walSeq, walLast, walTask, walCkpt, walUp, walEnded, walRaced>>

\* Wrong variant: only the orders that reached the exchange are kept.
ActiveSubmitted == [o \in WalOrders |-> IF walOrders[o] = WalNone \/ walOrders[o].state # "Submitted"
                                        THEN WalNone ELSE walOrders[o]]

\* write_checkpoint collects the orders that are not terminal ...
ActiveOrders == [o \in WalOrders |-> IF walOrders[o] = WalNone \/ is_terminal(walOrders[o].state)
                                     THEN WalNone ELSE walOrders[o]]

Unapplied == \E t \in WalTasks : walTask[t].entry # WalNone /\ ~walTask[t].applied

\* ... after a flush.  seen is the newest number whose entry the view surely holds.
TakeCheckpoint ==
    /\ WriterFree /\ walQueue # << >> /\ Head(walQueue).cmd = "Checkpoint"
    /\ walQueue' = Tail(walQueue)
    /\ flush_buffer(walWriter.buffer)
    /\ walWriter' = [walWriter EXCEPT !.buffer = << >>, !.collected = ActiveOrders,
                                      !.seen = IF Unapplied THEN 0 ELSE walSeq]
    /\ UNCHANGED <<walOrders, walSeq, walLast, walTask, walCkpt, walUp, walEnded, walRaced>>

\* ... and then loads the sequence number; the file is replaced by a rename.
WriteCheckpoint ==
    /\ walUp /\ walWriter.running /\ walWriter.collected # WalNone
    /\ walCkpt' = [seq |-> walSeq, active |-> walWriter.collected]
    /\ walLast' = walSeq
    /\ walRaced' = (walRaced \/ walWriter.seen < walSeq)
    /\ walWriter' = [walWriter EXCEPT !.collected = WalNone]
    /\ UNCHANGED <<walOrders, walSeq, walTask, walQueue, walFile, walUp, walFaults, walEnded>>

-----------------------------------------------------------------------------
(* Crash and recover *)

WalCrash ==
    /\ walUp /\ walFaults < WalMaxFaults
    /\ walUp' = FALSE /\ walFaults' = walFaults + 1
    /\ walOrders' = NoView /\ walSeq' = 0 /\ walLast' = 0
    /\ walTask' = [t \in WalTasks |-> RestingTask]
    /\ walQueue' = << >> /\ walWriter' = RestingWriter
    /\ UNCHANGED <<walDisk, walEnded, walRaced>>

CkptSeq == IF walCkpt = WalNone THEN 0 ELSE walCkpt.seq

\* Where the entries are, in the file, that the checkpoint does not claim to hold.
Replayed == {i \in DOMAIN walFile : walFile[i].seq > CkptSeq}
ReplayedOf(o) == {i \in Replayed : walFile[i].order = o}

\* Applied in file order, so the last entry of each order stays.
ReplayedOver(view) == [o \in WalOrders |-> IF ReplayedOf(o) = {} THEN view[o] ELSE walFile[Max(ReplayedOf(o))]]

\* Wrong variant: the checkpoint's orders are not loaded.
RecoverFileOnly ==
    /\ ~walUp /\ walUp' = TRUE
    /\ walOrders' = ReplayedOver(NoView)
    /\ walSeq' = Max({CkptSeq} \cup {walFile[i].seq : i \in Replayed})
    /\ walLast' = CkptSeq
    /\ UNCHANGED <<walTask, walQueue, walWriter, walDisk, walFaults, walEnded, walRaced>>

\* recover: the checkpoint's orders, then the newer entries in file order.
recover ==
    /\ ~walUp /\ walUp' = TRUE
    /\ walOrders' = ReplayedOver(IF walCkpt = WalNone THEN NoView ELSE walCkpt.active)
    /\ walSeq' = Max({CkptSeq} \cup {walFile[i].seq : i \in Replayed})
    /\ walLast' = CkptSeq
    /\ UNCHANGED <<walTask, walQueue, walWriter, walDisk, walFaults, walEnded, walRaced>>

WalNext ==
    \/ \E t \in WalTasks : \/ \E o \in WalOrders, s \in WalStates : NumberEntry(t, o, s)
                           \/ apply_entry(t) \/ SendEntry(t)
    \/ RequestShutdown \/ TakeAppend \/ PeriodicFlush \/ TakeShutdown \/ TakeCheckpoint \/ WriteCheckpoint
    \/ WalCrash \/ recover

WalSpec == WalInit /\ [][WalNext]_walVars

-----------------------------------------------------------------------------
OnDisk == {walFile[i].order : i \in DOMAIN walFile}

\* After a recovery every order that reached the disk and has not ended is known
\* again (module comment "Crash recovery", recover).
WalNeverForgets == walUp => \A o \in OnDisk \ walEnded : walOrders[o] # WalNone

\* The same, unless a checkpoint was taken while a task had numbered an entry it
\* had not applied: write_checkpoint reads the orders and the number separately.
WalForgetsOnlyInRace == ~walRaced => WalNeverForgets
=============================================================================
