--------------------------- MODULE AlertDelivery ---------------------------
(***************************************************************************)
(* rebalancer-alerts: the delivery worker (worker.rs) over its ledger      *)
(* (ledger.rs, rebalancer-store delivery_ledger.rs) and the alert table    *)
(* the notifier fills (rebalancer-store notifier.rs).  A tick reads the    *)
(* alerts newer than the watermark, inserts one row per channel and        *)
(* dedupe key, then sends every row that is neither sent nor failed.       *)
(*                                                                         *)
(* An alert's created_at is the start of its insert; the row is visible    *)
(* when the insert commits.  A restart reads the backlog again: the        *)
(* worker is assumed to be down for less than it (24 hours), so a restart  *)
(* sets the watermark to 0.                                                *)
(***************************************************************************)
EXTENDS Naturals, Sequences, SequencesExt, FiniteSets, FiniteSetsExt

CONSTANTS
    AdKeys,        \* dedupe keys
    AdChannels,    \* the verified, enabled channels an alert goes to
    AdBatch,       \* ALERTS_PER_TICK
    AdMaxAlerts,   \* bound: alerts raised in one behaviour
    AdMaxFaults    \* bound: failed calls and deaths of the worker

ASSUME AlertAssumption == AdBatch \in Nat

VARIABLES
    adClock,
    adAlerts,   \* the alerts, by id: key, created_at, committed; history: late, cut
    adMark,     \* the watermark, in memory
    adRows,     \* adRows[<<channel, key>>]: the delivery row
    ad,         \* the tick: where it is, the rows to insert, the rows to send
    adMails,    \* history: adMails[<<channel, key>>] e-mails the sender accepted
    adUnmarked, \* history: accepted e-mails whose mark was lost
    adFaults

adVars == <<adClock, adAlerts, adMark, adRows, ad, adMails, adUnmarked, adFaults>>

AdPairs == AdChannels \X AdKeys
AdIds == DOMAIN adAlerts
AdAlert == [key : AdKeys, at : Nat, committed : BOOLEAN, late : BOOLEAN, cut : BOOLEAN]

AdTypeOK ==
    /\ adClock \in 1..(AdMaxAlerts + 1) /\ adMark \in 0..AdMaxAlerts + 1
    /\ adAlerts \in Seq(AdAlert)
    /\ adRows \in [AdPairs -> {"absent", "pending", "sent", "error"}]
    /\ ad.pc \in {"idle", "ingest", "list", "send", "mark"} /\ ad.batch \subseteq AdIds
    /\ ad.inserts \subseteq AdPairs /\ ad.sends \subseteq AdPairs /\ ad.ok \in BOOLEAN
    /\ adMails \in [AdPairs -> Nat] /\ adUnmarked \in [AdPairs -> Nat]
    /\ adFaults \in 0..AdMaxFaults

AdIdle == [pc |-> "idle", batch |-> {}, inserts |-> {}, sends |-> {}, ok |-> FALSE]

AdInit ==
    /\ adClock = 1 /\ adMark = 0
    /\ adAlerts = << >>
    /\ adRows = [p \in AdPairs |-> "absent"]
    /\ ad = AdIdle
    /\ adMails = [p \in AdPairs |-> 0] /\ adUnmarked = [p \in AdPairs |-> 0]
    /\ adFaults = 0

-----------------------------------------------------------------------------
AdFault == adFaults < AdMaxFaults /\ adFaults' = adFaults + 1
AdNoFault == UNCHANGED adFaults

\* The clock moves between alerts, or does not: two may have one created_at.
AdTick ==
    /\ adClock <= Len(adAlerts)
    /\ adClock' = adClock + 1
    /\ UNCHANGED <<adAlerts, adMark, adRows, ad, adMails, adUnmarked, adFaults>>

\* PgNotifier::notify begins its insert.
Notify(key) ==
    /\ Len(adAlerts) < AdMaxAlerts
    /\ adAlerts' = Append(adAlerts, [key |-> key, at |-> adClock, committed |-> FALSE,
                                     late |-> FALSE, cut |-> FALSE])
    /\ UNCHANGED <<adClock, adMark, adRows, ad, adMails, adUnmarked, adFaults>>

\* The newest created_at the watermark has, or is about to move to.
AdPassing == Max({adMark} \cup {adAlerts[i].at : i \in ad.batch})

\* The insert commits; it is late when the watermark has passed its created_at.
NotifyCommits(i) ==
    /\ ~adAlerts[i].committed
    /\ adAlerts' = [adAlerts EXCEPT ![i].committed = TRUE,
                                    ![i].late = AdPassing >= adAlerts[i].at]
    /\ UNCHANGED <<adClock, adMark, adRows, ad, adMails, adUnmarked, adFaults>>

-----------------------------------------------------------------------------
AdNewer(since) == {i \in AdIds : adAlerts[i].committed /\ adAlerts[i].at > since}
AdBefore(j, i) == adAlerts[j].at < adAlerts[i].at \/ (adAlerts[j].at = adAlerts[i].at /\ j < i)

\* Wrong variant: the newest alerts of an oversized backlog are taken first.
AlertsNewest(since) ==
    {i \in AdNewer(since) : Cardinality({j \in AdNewer(since) : AdBefore(i, j)}) < AdBatch}

\* alerts_since: strictly newer than the watermark, oldest first, at most a batch.
alerts_since(since) ==
    {i \in AdNewer(since) : Cardinality({j \in AdNewer(since) : AdBefore(j, i)}) < AdBatch}

\* A tick begins: the batch is read, or the read fails and only the sends are left.
Ingest ==
    LET batch == alerts_since(adMark) IN
    /\ ad.pc = "idle"
    /\ \/ AdFault /\ ad' = [ad EXCEPT !.pc = "list"]
       \/ /\ AdNoFault
          /\ ad' = IF batch = {} THEN [ad EXCEPT !.pc = "list"]
                   ELSE [ad EXCEPT !.pc = "ingest", !.batch = batch,
                                   !.inserts = AdChannels \X {adAlerts[i].key : i \in batch}]
    /\ UNCHANGED <<adClock, adAlerts, adMark, adRows, adMails, adUnmarked>>

\* Wrong variant: an insert replaces the row of an earlier alert with the same key.
Upserted(p) == [adRows EXCEPT ![p] = "pending"]

\* insert_if_absent: the unique key (channel_id, dedupe_key) is the de-duplication.
Inserted(p) == [adRows EXCEPT ![p] = IF @ = "absent" THEN "pending" ELSE @]

\* One insert of the batch; a failure leaves the watermark where it was.
InsertRow(p) ==
    /\ ad.pc = "ingest" /\ p \in ad.inserts
    /\ \/ /\ AdFault
          /\ ad' = [AdIdle EXCEPT !.pc = "list"]
          /\ UNCHANGED adRows
       \/ /\ AdNoFault
          /\ adRows' = Inserted(p)
          /\ ad' = [ad EXCEPT !.inserts = @ \ {p}]
    /\ UNCHANGED <<adClock, adAlerts, adMark, adMails, adUnmarked>>

\* The newest created_at of the batch.
AdNewest == Max({adAlerts[i].at : i \in ad.batch})

\* Every insert succeeded: the watermark moves to the newest created_at of the batch,
\* and an alert with that created_at the batch limit left out is cut off.
MoveWatermark ==
    /\ ad.pc = "ingest" /\ ad.inserts = {}
    /\ adMark' = AdNewest
    /\ adAlerts' = [i \in AdIds |-> [adAlerts[i] EXCEPT !.cut =
                        @ \/ (adAlerts[i].committed /\ i \notin ad.batch /\ adAlerts[i].at = AdNewest)]]
    /\ ad' = [AdIdle EXCEPT !.pc = "list"]
    /\ UNCHANGED <<adClock, adRows, adMails, adUnmarked, adFaults>>

\* undelivered: the rows with neither sent_at nor error.
ListUndelivered ==
    /\ ad.pc = "list"
    /\ \/ AdFault /\ ad' = AdIdle
       \/ AdNoFault /\ ad' = [ad EXCEPT !.pc = "send", !.sends = {p \in AdPairs : adRows[p] = "pending"}]
    /\ UNCHANGED <<adClock, adAlerts, adMark, adRows, adMails, adUnmarked>>

\* The provider takes the e-mail or refuses it; then the row is marked.
SendMail(p) ==
    /\ ad.pc = "send" /\ p \in ad.sends
    /\ \/ /\ AdNoFault
          /\ adMails' = [adMails EXCEPT ![p] = @ + 1]
          /\ ad' = [ad EXCEPT !.pc = "mark", !.inserts = {p}, !.ok = TRUE]
       \/ /\ AdFault
          /\ ad' = [ad EXCEPT !.pc = "mark", !.inserts = {p}, !.ok = FALSE]
          /\ UNCHANGED adMails
    /\ UNCHANGED <<adClock, adAlerts, adMark, adRows, adUnmarked>>

Unmarked(p) == IF ad.ok THEN [adUnmarked EXCEPT ![p] = @ + 1] ELSE adUnmarked

\* mark_sent / mark_error: only a pending row is touched; a failure ends the tick.
MarkRow(p) ==
    /\ ad.pc = "mark" /\ p \in ad.inserts
    /\ \/ AdFault /\ ad' = AdIdle /\ adUnmarked' = Unmarked(p) /\ UNCHANGED adRows
       \/ /\ AdNoFault
          /\ adRows' = [adRows EXCEPT ![p] = IF @ # "pending" THEN @ ELSE IF ad.ok THEN "sent" ELSE "error"]
          /\ ad' = [ad EXCEPT !.pc = "send", !.sends = @ \ {p}, !.inserts = {}, !.ok = FALSE]
          /\ UNCHANGED adUnmarked
    /\ UNCHANGED <<adClock, adAlerts, adMark, adMails>>

TickEnds ==
    /\ ad.pc = "send" /\ ad.sends = {}
    /\ ad' = AdIdle
    /\ UNCHANGED <<adClock, adAlerts, adMark, adRows, adMails, adUnmarked, adFaults>>

\* The service restarts: the watermark was in memory.
AdRestart ==
    /\ AdFault
    /\ adMark' = 0
    /\ ad' = AdIdle
    /\ adUnmarked' = IF ad.pc = "mark" THEN Unmarked(CHOOSE p \in ad.inserts : TRUE) ELSE adUnmarked
    /\ UNCHANGED <<adClock, adAlerts, adRows, adMails>>

AdWorker == Ingest \/ MoveWatermark \/ ListUndelivered \/ TickEnds
            \/ \E p \in AdPairs : InsertRow(p) \/ SendMail(p) \/ MarkRow(p)

AdNext ==
    \/ AdWorker \/ AdRestart \/ AdTick
    \/ \E key \in AdKeys : Notify(key)
    \/ \E i \in AdIds : NotifyCommits(i)

AdSpec == AdInit /\ [][AdNext]_adVars

-----------------------------------------------------------------------------
\* A person gets one e-mail per channel and key, plus one for each accepted e-mail
\* whose mark was lost, over retried batches, restarts and repeated alerts
\* (worker.rs ingest, send_pending; the once-only marks).
OneMailPerKey == \A p \in AdPairs : adMails[p] <= 1 + adUnmarked[p]

\* An alert the watermark has passed has its rows, whatever failed: only one that
\* committed late, or that shares its created_at with the last of a full batch,
\* is passed over (worker.rs ingest).
NoAlertPassedOver ==
    \A i \in AdIds : adAlerts[i].committed /\ ~adAlerts[i].late /\ ~adAlerts[i].cut /\ adAlerts[i].at <= adMark =>
        \A c \in AdChannels : adRows[<<c, adAlerts[i].key>>] # "absent"
=============================================================================
