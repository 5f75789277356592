--------------------------- MODULE DlqRetryWorker ---------------------------
(***************************************************************************)
(* executionhandler dead_letter_queue.rs: the plain dead letter queue and  *)
(* its retry worker.  The worker copies the pending entries once per cycle *)
(* and works through the copy, one lock at a time, while an operator       *)
(* dismisses entries, new failures evict old ones and the queue is saved.  *)
(* The back-off is nondeterministic: an entry of the copy may be skipped.  *)
(***************************************************************************)
EXTENDS Naturals, Sequences, SequencesExt, FiniteSets

CONSTANTS
    RwIds,         \* identifiers of failed orders
    RwCapacity,    \* max_memory_entries
    RwMaxRetries,  \* max_retries
    RwMaxCrashes   \* bound: restarts in one behaviour

VARIABLES
    rwQueue,   \* the entries, oldest first
    rwFile,    \* the entries last persisted
    rwWorker,  \* running, the rest of the copied batch, where it is with its head
    rwUsed,    \* identifiers enqueued so far
    rwSends,   \* history: rwSends[id] calls of retry_fn
    rwCrashes

rwVars == <<rwQueue, rwFile, rwWorker, rwUsed, rwSends, rwCrashes>>

\* add_failed_order evicts until there is room: no room at all would never end.
ASSUME RetryWorkerAssumption == RwCapacity \in Nat \ {0} /\ RwMaxRetries \in Nat

RwStatuses == {"Pending", "Retrying", "Resolved", "RequiresManualReview", "Dismissed", "PermanentFailure"}

RwTypeOK ==
    /\ \A s \in {rwQueue, rwFile} : \A i \in 1..Len(s) :
          s[i].id \in RwIds /\ s[i].status \in RwStatuses /\ s[i].retries \in Nat
    /\ Len(rwQueue) <= RwCapacity
    /\ rwWorker.running \in BOOLEAN /\ rwWorker.pc \in {"next", "send", "done"}
    /\ rwUsed \subseteq RwIds /\ rwSends \in [RwIds -> Nat] /\ rwCrashes \in 0..RwMaxCrashes

RwStopped == [running |-> FALSE, batch |-> << >>, pc |-> "next"]

RwInit ==
    /\ rwQueue = << >> /\ rwFile = << >>
    /\ rwWorker = RwStopped
    /\ rwUsed = {}
    /\ rwSends = [id \in RwIds |-> 0]
    /\ rwCrashes = 0

-----------------------------------------------------------------------------
\* Wrong variant: room is made only for the entry after the next.
RoomMadeLate == IF Len(rwQueue) > RwCapacity THEN Tail(rwQueue) ELSE rwQueue

RoomMade == IF Len(rwQueue) >= RwCapacity THEN Tail(rwQueue) ELSE rwQueue

\* add_failed_order: the oldest entry makes room for the new one.
RwEnqueue(id, retryable) ==
    LET entry == [id |-> id, retries |-> 0, status |-> IF retryable THEN "Pending" ELSE "PermanentFailure"]
    IN  /\ id \notin rwUsed
        /\ rwUsed' = rwUsed \cup {id}
        /\ rwQueue' = Append(RoomMade, entry)
        /\ UNCHANGED <<rwFile, rwWorker, rwSends, rwCrashes>>

\* The entry with this id is updated; one no longer queued is left alone.
RwUpdated(id, Change(_)) ==
    [i \in 1..Len(rwQueue) |-> IF rwQueue[i].id = id THEN Change(rwQueue[i]) ELSE rwQueue[i]]

dismiss(id) ==
    /\ rwQueue' = RwUpdated(id, LAMBDA e : [e EXCEPT !.status = "Dismissed"])
    /\ rwQueue' # rwQueue
    /\ UNCHANGED <<rwFile, rwWorker, rwUsed, rwSends, rwCrashes>>

\* cleanup: terminal entries past the age limit go.
cleanup(id) ==
    /\ \E i \in 1..Len(rwQueue) :
          /\ rwQueue[i].id = id /\ rwQueue[i].status \in {"Resolved", "Dismissed", "PermanentFailure"}
          /\ rwQueue' = RemoveAt(rwQueue, i)
    /\ UNCHANGED <<rwFile, rwWorker, rwUsed, rwSends, rwCrashes>>

persist == rwFile' = rwQueue /\ UNCHANGED <<rwQueue, rwWorker, rwUsed, rwSends, rwCrashes>>

\* The process ends; the new one loads the file and starts its worker again.
RwRestart ==
    /\ rwCrashes < RwMaxCrashes
    /\ rwCrashes' = rwCrashes + 1
    /\ rwQueue' = rwFile
    /\ rwWorker' = RwStopped
    /\ UNCHANGED <<rwFile, rwUsed, rwSends>>

-----------------------------------------------------------------------------
(* DlqRetryWorker::start *)

RwStart ==
    /\ ~rwWorker.running
    /\ rwWorker' = [RwStopped EXCEPT !.running = TRUE]
    /\ UNCHANGED <<rwQueue, rwFile, rwUsed, rwSends, rwCrashes>>

\* stop() is seen before the next entry of the batch.
RwStop ==
    /\ rwWorker.running /\ rwWorker.pc = "next"
    /\ rwWorker' = RwStopped
    /\ UNCHANGED <<rwQueue, rwFile, rwUsed, rwSends, rwCrashes>>

\* The pending entries, in the order of the queue.
PendingAt == {i \in 1..Len(rwQueue) : rwQueue[i].status = "Pending"}
Ascending(I) == {f \in [1..Cardinality(I) -> I] : \A k, l \in DOMAIN f : k < l => f[k] < f[l]}

get_pending ==
    /\ rwWorker.running /\ rwWorker.pc = "next" /\ rwWorker.batch = << >>
    /\ \E f \in Ascending(PendingAt) :
          rwWorker' = [rwWorker EXCEPT !.batch = [k \in DOMAIN f |-> rwQueue[f[k]]]]
    /\ UNCHANGED <<rwQueue, rwFile, rwUsed, rwSends, rwCrashes>>

\* retry_delay_ms has not passed since the copied entry's last retry.
RwSkip ==
    /\ rwWorker.pc = "next" /\ rwWorker.batch # << >> /\ Head(rwWorker.batch).retries > 0
    /\ rwWorker' = [rwWorker EXCEPT !.batch = Tail(@)]
    /\ UNCHANGED <<rwQueue, rwFile, rwUsed, rwSends, rwCrashes>>

\* mark_retrying, whatever the entry's status has become since it was copied.
RwMarkRetrying ==
    /\ rwWorker.pc = "next" /\ rwWorker.batch # << >>
    /\ rwQueue' = RwUpdated(Head(rwWorker.batch).id,
                            LAMBDA e : [e EXCEPT !.status = "Retrying", !.retries = @ + 1])
    /\ rwWorker' = [rwWorker EXCEPT !.pc = "send"]
    /\ UNCHANGED <<rwFile, rwUsed, rwSends, rwCrashes>>

RwSend ==
    /\ rwWorker.pc = "send"
    /\ rwSends' = [rwSends EXCEPT ![Head(rwWorker.batch).id] = @ + 1]
    /\ rwWorker' = [rwWorker EXCEPT !.pc = "done"]
    /\ UNCHANGED <<rwQueue, rwFile, rwUsed, rwCrashes>>

\* A plausible slip: one retry too many (> for >=).
AfterFailureOffByOne(e) ==
    [e EXCEPT !.status = IF e.retries > RwMaxRetries THEN "RequiresManualReview" ELSE "Pending"]

\* mark_retry_failed
AfterFailure(e) ==
    [e EXCEPT !.status = IF e.retries >= RwMaxRetries THEN "RequiresManualReview" ELSE "Pending"]

\* retry_fn answered: mark_resolved or mark_retry_failed, and on to the next entry.
RwAnswered(ok) ==
    /\ rwWorker.pc = "done"
    /\ rwQueue' = IF ok THEN RwUpdated(Head(rwWorker.batch).id, LAMBDA e : [e EXCEPT !.status = "Resolved"])
                        ELSE RwUpdated(Head(rwWorker.batch).id, AfterFailure)
    /\ rwWorker' = [rwWorker EXCEPT !.pc = "next", !.batch = Tail(@)]
    /\ UNCHANGED <<rwFile, rwUsed, rwSends, rwCrashes>>

RwNext ==
    \/ \E id \in RwIds : (\E r \in BOOLEAN : RwEnqueue(id, r)) \/ dismiss(id) \/ cleanup(id)
    \/ persist \/ RwRestart \/ RwStart \/ RwStop \/ get_pending \/ RwSkip
    \/ RwMarkRetrying \/ RwSend \/ (\E ok \in BOOLEAN : RwAnswered(ok))

RwSpec == RwInit /\ [][RwNext]_rwVars

-----------------------------------------------------------------------------
\* A failed order is sent again at most max_retries times in one life of the process,
\* though the worker works from a copy while entries are dismissed, evicted and cleaned.
DlqRetriesBounded ==
    rwCrashes = 0 => \A id \in RwIds : rwSends[id] <= RwMaxRetries

\* An entry an operator dismissed is never retried afterwards ("manual resolution").
DismissedNotRetried ==
    [][\A i \in 1..Len(rwQueue) : rwQueue[i].status = "Dismissed" =>
          \A j \in 1..Len(rwQueue') : rwQueue'[j].id = rwQueue[i].id => rwQueue'[j].status # "Retrying"]_rwVars
=============================================================================
