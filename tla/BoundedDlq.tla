----------------------------- MODULE BoundedDlq -----------------------------
(***************************************************************************)
(* executionhandler bounded_dlq.rs: the dead letter queue with a hard      *)
(* bound and five overflow policies.  Every operation holds the write lock *)
(* except Block, which gives it up, polls until it sees room and takes it  *)
(* again without another look.  Only overflow is ever written to disk.     *)
(***************************************************************************)
EXTENDS Naturals, Sequences, SequencesExt, FiniteSets

CONSTANTS
    DlqIds,        \* identifiers of failed orders
    DlqMax,        \* max_entries
    DlqMaxRetries, \* max_retries
    DlqMaxCrashes  \* bound: restarts in one behaviour

ASSUME DlqAssumption == DlqMax \in Nat \ {0} /\ DlqMaxRetries \in Nat

DlqPolicies == {"DropOldest", "DropNewest", "DropLowestPriority", "Block", "PersistAndEvict"}
DlqStatuses == {"Pending", "Retrying", "Resolved", "RequiresManualReview", "PermanentFailure"}

VARIABLES
    dlq,        \* policy, entries and overflow in memory, the overflow file
    dlqBlocked, \* entries whose enqueue is blocked, and whether it has seen room
    dlqUsed,    \* identifiers enqueued so far
    dlqCrashes  \* restarts so far

dlqVars == <<dlq, dlqBlocked, dlqUsed, dlqCrashes>>

DlqEntry == [id : DlqIds, status : DlqStatuses, retries : 0..(DlqMaxRetries + 1)]
EntryOf(id, s) == \E i \in 1..Len(s) : s[i].id = id

DlqTypeOK ==
    /\ dlq.policy \in DlqPolicies \cup {"unset"}
    /\ \A s \in {dlq.entries, dlq.overflow, dlq.file} : \A i \in 1..Len(s) : s[i] \in DlqEntry
    /\ dlqUsed \subseteq DlqIds /\ dlqCrashes \in 0..DlqMaxCrashes

DlqInit ==
    /\ dlq = [policy |-> "unset", entries |-> << >>, overflow |-> << >>, file |-> << >>]
    /\ dlqBlocked = {}
    /\ dlqUsed = {}
    /\ dlqCrashes = 0

DlqConfigure(policy) ==
    /\ dlq.policy = "unset"
    /\ dlq' = [dlq EXCEPT !.policy = policy]
    /\ UNCHANGED <<dlqBlocked, dlqUsed, dlqCrashes>>

-----------------------------------------------------------------------------
entry_priority(e) ==
    [RequiresManualReview |-> 100, Pending |-> 80, Retrying |-> 70, PermanentFailure |-> 50,
     Resolved |-> 10][e.status] + (IF e.retries = 0 THEN 10 ELSE 0)

\* min_by_key: the first of the entries with the lowest priority.
Lowest(s) == CHOOSE i \in 1..Len(s) : \A j \in 1..Len(s) :
                 \/ entry_priority(s[i]) < entry_priority(s[j])
                 \/ entry_priority(s[i]) = entry_priority(s[j]) /\ i <= j

Full == Len(dlq.entries) >= DlqMax

\* A plausible slip: the evicted entry is not put on the overflow list.
AfterEvictionLost(e) == [dlq EXCEPT !.entries = Append(Tail(@), e)]

AfterEviction(e) ==
    [dlq EXCEPT !.entries = Append(Tail(@), e), !.overflow = Append(@, Head(dlq.entries))]

\* enqueue under each overflow policy; a blocked caller is parked.
enqueue(e) ==
    \/ /\ ~Full
       /\ dlq' = [dlq EXCEPT !.entries = Append(@, e)] /\ UNCHANGED dlqBlocked
    \/ /\ Full /\ dlq.policy = "DropOldest"
       /\ dlq' = [dlq EXCEPT !.entries = Append(Tail(@), e)] /\ UNCHANGED dlqBlocked
    \/ Full /\ dlq.policy = "DropNewest" /\ UNCHANGED <<dlq, dlqBlocked>>
    \/ /\ Full /\ dlq.policy = "DropLowestPriority"
       /\ dlq' = [dlq EXCEPT !.entries = Append(RemoveAt(@, Lowest(@)), e)] /\ UNCHANGED dlqBlocked
    \/ /\ Full /\ dlq.policy = "Block"
       /\ dlqBlocked' = dlqBlocked \cup {[entry |-> e, room |-> FALSE]} /\ UNCHANGED dlq
    \/ /\ Full /\ dlq.policy = "PersistAndEvict"
       /\ dlq' = AfterEviction(e) /\ UNCHANGED dlqBlocked

add_failed_order(id, retryable) ==
    /\ dlq.policy # "unset" /\ id \notin dlqUsed
    /\ dlqUsed' = dlqUsed \cup {id}
    /\ enqueue([id |-> id, retries |-> 0, status |-> IF retryable THEN "Pending" ELSE "PermanentFailure"])
    /\ UNCHANGED dlqCrashes

\* The polling loop of Block: a read lock, then, later, the write lock and the push.
BlockedSeesRoom(b) ==
    /\ ~b.room /\ ~Full
    /\ dlqBlocked' = (dlqBlocked \ {b}) \cup {[b EXCEPT !.room = TRUE]}
    /\ UNCHANGED <<dlq, dlqUsed, dlqCrashes>>

BlockedPush(b) ==
    /\ b.room
    /\ dlq' = [dlq EXCEPT !.entries = Append(@, b.entry)]
    /\ dlqBlocked' = dlqBlocked \ {b}
    /\ UNCHANGED <<dlqUsed, dlqCrashes>>

\* mark_resolved, mark_retrying and mark_retry_failed look the entry up in memory only.
Mark(i, status, retries) ==
    /\ dlq' = [dlq EXCEPT !.entries[i].status = status, !.entries[i].retries = retries]
    /\ UNCHANGED <<dlqBlocked, dlqUsed, dlqCrashes>>

mark_resolved(i) == Mark(i, "Resolved", dlq.entries[i].retries)

mark_retrying(i) ==
    /\ dlq.entries[i].retries <= DlqMaxRetries
    /\ Mark(i, "Retrying", dlq.entries[i].retries + 1)

mark_retry_failed(i) ==
    Mark(i, IF dlq.entries[i].retries >= DlqMaxRetries THEN "RequiresManualReview" ELSE "Pending",
         dlq.entries[i].retries)

\* An empty overflow list leaves the file as it was.
persist_overflow ==
    /\ dlq.overflow # << >>
    /\ dlq' = [dlq EXCEPT !.file = dlq.overflow]
    /\ UNCHANGED <<dlqBlocked, dlqUsed, dlqCrashes>>

recover_from_overflow ==
    /\ dlq.overflow # << >> /\ ~Full
    /\ dlq' = [dlq EXCEPT !.entries = Append(@, Last(dlq.overflow)), !.overflow = Front(@)]
    /\ UNCHANGED <<dlqBlocked, dlqUsed, dlqCrashes>>

\* The process ends and starts again with load_overflow: memory is gone.
DlqRestart ==
    /\ dlq.policy # "unset" /\ dlqCrashes < DlqMaxCrashes
    /\ dlq' = [dlq EXCEPT !.entries = << >>, !.overflow = dlq.file]
    /\ dlqBlocked' = {}
    /\ dlqCrashes' = dlqCrashes + 1
    /\ UNCHANGED dlqUsed

DlqNext ==
    \/ \E p \in DlqPolicies : DlqConfigure(p)
    \/ \E id \in DlqIds, r \in BOOLEAN : add_failed_order(id, r)
    \/ \E b \in dlqBlocked : BlockedSeesRoom(b) \/ BlockedPush(b)
    \/ \E i \in 1..Len(dlq.entries) : mark_resolved(i) \/ mark_retrying(i) \/ mark_retry_failed(i)
    \/ persist_overflow \/ recover_from_overflow \/ DlqRestart

DlqSpec == DlqInit /\ [][DlqNext]_dlqVars

-----------------------------------------------------------------------------
\* Evicting to disk loses nothing while the process lives: every failed order is in memory
\* or in the overflow list, in exactly one of them, through evictions and recoveries.
EvictionKeepsEntries ==
    dlq.policy = "PersistAndEvict" /\ dlqCrashes = 0 =>
        \A id \in dlqUsed : EntryOf(id, dlq.entries) # EntryOf(id, dlq.overflow)
=============================================================================
