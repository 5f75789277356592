----------------------------- MODULE Deployment -----------------------------
(***************************************************************************)
(* The life of a deployment: strategyloader deployment_subscriber.rs and   *)
(* live_rejection.rs, and the deployment event handler of hostbuilder      *)
(* lib.rs with its handle leases (deployment_handles.rs).                  *)
(*                                                                         *)
(* The Engine publishes deployments and deactivations on two topics and    *)
(* keeps a row per deployment.  The subscriber lists a deployment, hands   *)
(* it to the host, acknowledges it and subscribes its market data, before  *)
(* the host has decided to run it; the host's rejection of a live one      *)
(* undoes all of that, concurrently.  After a restart the rows that were   *)
(* active are replayed by a second task beside the subscriber.             *)
(*                                                                         *)
(* One exchange per deployment.  The Engine and the market-data service    *)
(* are external: the service holds a subscription until it gets a well     *)
(* formed unsubscribe.                                                     *)
(***************************************************************************)
EXTENDS Naturals, Sequences, FiniteSets

CONSTANTS
    DpLive, DpPaper, \* the deployments of either mode
    DpMaxMsgs,       \* bound: messages of the Engine
    DpMaxCrashes     \* bound: restarts of the SignalEngine

DpIds == DpLive \cup DpPaper
ASSUME DeploymentAssumption == "none" \notin DpIds

DpTasks == {"sub", "rec"}
DpIdle == [pc |-> "idle", id |-> "none"]

VARIABLES
    dpRow,     \* deployed_strategies: "none", "active" or "stopped"
    dpTopic,   \* the two topics: dep and deact
    dpTask,    \* the message-processing task and the reconciling one
    dpReplay,  \* rows the reconcile read and has not replayed
    dpMap,     \* the shared deployed set: who listed it, is its subscription noted
    dpEvents,  \* the channel to the host
    dpHost,    \* the host's event handler
    dpRunning, \* the host's registries of running deployments
    dpHandles, \* deployments that own a signal handle
    dpStream,  \* subscriptions the market-data service holds
    dpAck,     \* the last acknowledgment of a deployment
    dpRaced,   \* history: deployments whose announcement overlapped a rejection or
               \* another announcement, or that were deactivated or replayed
    dpCount    \* messages and crashes so far

dpVars == <<dpRow, dpTopic, dpTask, dpReplay, dpMap, dpEvents, dpHost, dpRunning, dpHandles,
            dpStream, dpAck, dpRaced, dpCount>>

DpMapEntry == [by : DpTasks, noted : BOOLEAN]

DpTypeOK ==
    /\ dpRow \in [DpIds -> {"none", "active", "stopped"}]
    /\ dpTopic.dep \in Seq(DpIds) /\ dpTopic.deact \in Seq(DpIds)
    /\ \A t \in DpTasks : dpTask[t].pc \in {"idle", "ack", "subscribe", "note", "tell"}
    /\ dpReplay \subseteq DpIds
    /\ DOMAIN dpMap \subseteq DpIds /\ \A i \in DOMAIN dpMap : dpMap[i] \in DpMapEntry
    /\ dpHost.pc \in {"recv", "deciding", "unsubscribe", "refuse", "record"}
    /\ dpRunning \subseteq dpHandles
    /\ dpRunning \cup dpHandles \cup dpStream \cup dpRaced \subseteq DpIds
    /\ dpAck \in [DpIds -> {"none", "success", "failure"}]

DpInit ==
    /\ dpRow = [i \in DpIds |-> "none"] /\ dpTopic = [dep |-> << >>, deact |-> << >>]
    /\ dpTask = [t \in DpTasks |-> DpIdle] /\ dpReplay = {}
    /\ dpMap = << >> /\ dpEvents = << >>
    /\ dpHost = [pc |-> "recv", id |-> "none", fresh |-> FALSE, drained |-> FALSE]
    /\ dpRunning = {} /\ dpHandles = {} /\ dpStream = {}
    /\ dpAck = [i \in DpIds |-> "none"] /\ dpRaced = {}
    /\ dpCount = [msgs |-> 0, crashes |-> 0]

-----------------------------------------------------------------------------
(* The Engine. *)

EngineDeploys(i) ==
    /\ dpCount.msgs < DpMaxMsgs
    /\ dpCount' = [dpCount EXCEPT !.msgs = @ + 1]
    /\ dpRow' = [dpRow EXCEPT ![i] = "active"]
    /\ dpTopic' = [dpTopic EXCEPT !.dep = Append(@, i)]
    /\ UNCHANGED <<dpTask, dpReplay, dpMap, dpEvents, dpHost, dpRunning, dpHandles, dpStream, dpAck, dpRaced>>

EngineDeactivates(i) ==
    /\ dpCount.msgs < DpMaxMsgs /\ dpRow[i] = "active"
    /\ dpCount' = [dpCount EXCEPT !.msgs = @ + 1]
    /\ dpRow' = [dpRow EXCEPT ![i] = "stopped"]
    /\ dpTopic' = [dpTopic EXCEPT !.deact = Append(@, i)]
    /\ UNCHANGED <<dpTask, dpReplay, dpMap, dpEvents, dpHost, dpRunning, dpHandles, dpStream, dpAck, dpRaced>>

-----------------------------------------------------------------------------
(* handle_deployment, by the task that got the deployment. *)

\* Nothing is going on for it.
DpQuiet(i) ==
    /\ \A t \in DpTasks : dpTask[t].id # i
    /\ \A k \in 1..Len(dpEvents) : dpEvents[k].id # i
    /\ dpHost.pc # "recv" => dpHost.id # i

\* List it and hand it to the host.
Announce(t, i) ==
    /\ dpTask' = [dpTask EXCEPT ![t] = [pc |-> "ack", id |-> i]]
    /\ dpMap' = [k \in DOMAIN dpMap \cup {i} |-> IF k = i THEN [by |-> t, noted |-> FALSE] ELSE dpMap[k]]
    /\ dpEvents' = Append(dpEvents, [kind |-> "Deploy", id |-> i])
    /\ dpRaced' = IF DpQuiet(i) THEN dpRaced ELSE dpRaced \cup {i}

\* process_messages takes one message of a topic, then one of the next; nothing
\* orders the arrivals on the two topics.
PollDeployment ==
    /\ dpTask["sub"].pc = "idle" /\ dpTopic.dep # << >>
    /\ Announce("sub", Head(dpTopic.dep))
    /\ dpTopic' = [dpTopic EXCEPT !.dep = Tail(@)]
    /\ UNCHANGED <<dpRow, dpReplay, dpHost, dpRunning, dpHandles, dpStream, dpAck, dpCount>>

\* reconcile_from_database_url replays the rows it read, one after the other.
Replay(i) ==
    /\ dpTask["rec"].pc = "idle" /\ i \in dpReplay
    /\ Announce("rec", i)
    /\ dpReplay' = dpReplay \ {i}
    /\ UNCHANGED <<dpRow, dpTopic, dpHost, dpRunning, dpHandles, dpStream, dpAck, dpCount>>

\* The success acknowledgment.
AckSuccess(t) ==
    /\ dpTask[t].pc = "ack"
    /\ dpAck' = [dpAck EXCEPT ![dpTask[t].id] = "success"]
    /\ dpTask' = [dpTask EXCEPT ![t].pc = "subscribe"]
    /\ UNCHANGED <<dpRow, dpTopic, dpReplay, dpMap, dpEvents, dpHost, dpRunning, dpHandles, dpStream, dpRaced, dpCount>>

Subscribe(t) ==
    /\ dpTask[t].pc = "subscribe"
    /\ dpStream' = dpStream \cup {dpTask[t].id}
    /\ dpTask' = [dpTask EXCEPT ![t].pc = "note"]
    /\ UNCHANGED <<dpRow, dpTopic, dpReplay, dpMap, dpEvents, dpHost, dpRunning, dpHandles, dpAck, dpRaced, dpCount>>

\* subscribed_exchanges of its own entry, which may have left the map.
NoteSubscription(t) ==
    LET i == dpTask[t].id IN
    /\ dpTask[t].pc = "note"
    /\ dpMap' = IF i \in DOMAIN dpMap /\ dpMap[i].by = t THEN [dpMap EXCEPT ![i].noted = TRUE] ELSE dpMap
    /\ dpTask' = [dpTask EXCEPT ![t] = DpIdle]
    /\ UNCHANGED <<dpRow, dpTopic, dpReplay, dpEvents, dpHost, dpRunning, dpHandles, dpStream, dpAck, dpRaced, dpCount>>

\* handle_deactivation: unlist it and unsubscribe.  The unsubscribe goes out without
\* the envelope the market-data service decodes first, so the stream stays.
PollDeactivation ==
    LET i == Head(dpTopic.deact) IN
    /\ dpTask["sub"].pc = "idle" /\ dpTopic.deact # << >>
    /\ dpMap' = [k \in DOMAIN dpMap \ {i} |-> dpMap[k]]
    /\ dpTopic' = [dpTopic EXCEPT !.deact = Tail(@)]
    /\ dpTask' = [dpTask EXCEPT !["sub"] = [pc |-> "tell", id |-> i]]
    /\ dpRaced' = dpRaced \cup {i}
    /\ UNCHANGED <<dpRow, dpReplay, dpEvents, dpHost, dpRunning, dpHandles, dpStream, dpAck, dpCount>>

TellHost ==
    /\ dpTask["sub"].pc = "tell"
    /\ dpEvents' = Append(dpEvents, [kind |-> "Deactivate", id |-> dpTask["sub"].id])
    /\ dpTask' = [dpTask EXCEPT !["sub"] = DpIdle]
    /\ UNCHANGED <<dpRow, dpTopic, dpReplay, dpMap, dpHost, dpRunning, dpHandles, dpStream, dpAck, dpRaced, dpCount>>

-----------------------------------------------------------------------------
(* The host's event handler. *)

\* Take a Deploy and lease a handle; an instance that has one keeps it.
HostDeploys ==
    LET i == Head(dpEvents).id IN
    /\ dpHost.pc = "recv" /\ dpEvents # << >> /\ Head(dpEvents).kind = "Deploy"
    /\ dpEvents' = Tail(dpEvents)
    /\ dpHandles' = dpHandles \cup {i}
    /\ dpHost' = [pc |-> "deciding", id |-> i, fresh |-> i \notin dpHandles, drained |-> FALSE]
    /\ UNCHANGED <<dpRow, dpTopic, dpTask, dpReplay, dpMap, dpRunning, dpStream, dpAck, dpRaced, dpCount>>

\* The strategy is built and, live, its credentials are there: it runs.
HostAccepts ==
    /\ dpHost.pc = "deciding"
    /\ dpRunning' = dpRunning \cup {dpHost.id}
    /\ dpHost' = [dpHost EXCEPT !.pc = "recv"]
    /\ UNCHANGED <<dpRow, dpTopic, dpTask, dpReplay, dpMap, dpEvents, dpHandles, dpStream, dpAck, dpRaced, dpCount>>

\* HandleLease::drop, uncommitted: the handle goes if this attempt allocated it.
LeaseDropped == IF dpHost.fresh THEN dpHandles \ {dpHost.id} ELSE dpHandles

\* A paper deployment is dropped without a word.
HostDropsPaper ==
    /\ dpHost.pc = "deciding" /\ dpHost.id \in DpPaper
    /\ dpHandles' = LeaseDropped
    /\ dpHost' = [dpHost EXCEPT !.pc = "recv"]
    /\ UNCHANGED <<dpRow, dpTopic, dpTask, dpReplay, dpMap, dpEvents, dpRunning, dpStream, dpAck, dpRaced, dpCount>>

\* Wrong variant: a rejected deployment stays listed.
StillListed == dpMap

Unlisted == [k \in DOMAIN dpMap \ {dpHost.id} |-> dpMap[k]]

\* LiveRejector::reject: stop it, unlist it and take the noted subscription.
HostRejects ==
    LET i == dpHost.id IN
    /\ dpHost.pc = "deciding" /\ i \in DpLive
    /\ dpRunning' = dpRunning \ {i}
    /\ dpMap' = Unlisted
    /\ dpHost' = [dpHost EXCEPT !.pc = "unsubscribe", !.drained = i \in DOMAIN dpMap /\ dpMap[i].noted]
    /\ dpRaced' = IF \E t \in DpTasks : dpTask[t].id = i THEN dpRaced \cup {i} ELSE dpRaced
    /\ UNCHANGED <<dpRow, dpTopic, dpTask, dpReplay, dpEvents, dpHandles, dpStream, dpAck, dpCount>>

RejectUnsubscribes ==
    /\ dpHost.pc = "unsubscribe"
    /\ dpStream' = IF dpHost.drained THEN dpStream \ {dpHost.id} ELSE dpStream
    /\ dpHost' = [dpHost EXCEPT !.pc = "refuse"]
    /\ UNCHANGED <<dpRow, dpTopic, dpTask, dpReplay, dpMap, dpEvents, dpRunning, dpHandles, dpAck, dpRaced, dpCount>>

RejectAcks ==
    /\ dpHost.pc = "refuse"
    /\ dpAck' = [dpAck EXCEPT ![dpHost.id] = "failure"]
    /\ dpHost' = [dpHost EXCEPT !.pc = "record"]
    /\ UNCHANGED <<dpRow, dpTopic, dpTask, dpReplay, dpMap, dpEvents, dpRunning, dpHandles, dpStream, dpRaced, dpCount>>

\* MARK_LIVE_REJECTED_SQL, and the lease is dropped.
RejectRecords ==
    /\ dpHost.pc = "record"
    /\ dpRow' = [dpRow EXCEPT ![dpHost.id] = "stopped"]
    /\ dpHandles' = LeaseDropped
    /\ dpHost' = [dpHost EXCEPT !.pc = "recv"]
    /\ UNCHANGED <<dpTopic, dpTask, dpReplay, dpMap, dpEvents, dpRunning, dpStream, dpAck, dpRaced, dpCount>>

HostDeactivates ==
    LET i == Head(dpEvents).id IN
    /\ dpHost.pc = "recv" /\ dpEvents # << >> /\ Head(dpEvents).kind = "Deactivate"
    /\ dpEvents' = Tail(dpEvents)
    /\ dpRunning' = dpRunning \ {i}
    /\ dpHandles' = dpHandles \ {i}
    /\ UNCHANGED <<dpRow, dpTopic, dpTask, dpReplay, dpMap, dpHost, dpStream, dpAck, dpRaced, dpCount>>

-----------------------------------------------------------------------------
\* A restart forgets everything in memory, the messages not yet handled included,
\* and reads the rows that are active.
DpRestart ==
    /\ dpCount.crashes < DpMaxCrashes
    /\ dpCount' = [dpCount EXCEPT !.crashes = @ + 1]
    /\ dpTopic' = [dep |-> << >>, deact |-> << >>] /\ dpTask' = [t \in DpTasks |-> DpIdle]
    /\ dpReplay' = {i \in DpIds : dpRow[i] = "active"}
    /\ dpMap' = << >> /\ dpEvents' = << >> /\ dpRunning' = {} /\ dpHandles' = {}
    /\ dpHost' = [dpHost EXCEPT !.pc = "recv"]
    /\ dpRaced' = DpIds
    /\ UNCHANGED <<dpRow, dpStream, dpAck>>

DpNext ==
    \/ \E i \in DpIds : EngineDeploys(i) \/ EngineDeactivates(i) \/ Replay(i)
    \/ \E t \in DpTasks : AckSuccess(t) \/ Subscribe(t) \/ NoteSubscription(t)
    \/ PollDeployment \/ PollDeactivation \/ TellHost
    \/ HostDeploys \/ HostAccepts \/ HostDropsPaper \/ HostRejects
    \/ RejectUnsubscribes \/ RejectAcks \/ RejectRecords \/ HostDeactivates
    \/ DpRestart

DpSpec == DpInit /\ [][DpNext]_dpVars

-----------------------------------------------------------------------------
\* A live deployment that is refused after its announcement was complete leaves no
\* trace: it is not listed, has no stream and the last word was a failure
\* (live_rejection.rs reject_live_deployment).
RejectionUndoesAll ==
    \A i \in DpLive : dpAck[i] = "failure" /\ DpQuiet(i) /\ i \notin dpRaced =>
        i \notin DOMAIN dpMap /\ i \notin dpStream /\ i \notin dpRunning

\* "so a rejected deployment must not leave one behind" (live_rejection.rs): whatever
\* the order, a live deployment the host refused has no stream once nothing is going
\* on for it.  The announcement may subscribe after the rejection looked.  (Without
\* deactivations and restarts, what does not run was refused.)
RejectedHasNoStream ==
    \A i \in DpLive : DpQuiet(i) /\ dpAck[i] # "none" /\ i \notin dpRunning => i \notin dpStream
=============================================================================
