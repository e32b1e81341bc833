------------------------------- MODULE Bridge -------------------------------
(***************************************************************************)
(* `watch_channel` of src/src/bridge.rs: a task that is the one subscriber *)
(* of Shared, and hands the configuration on to any number of receivers of *)
(* a tokio::sync::watch channel.  The backend, the queue and the waker are *)
(* those of Shared; the task polls only when it is woken, drops the        *)
(* failures, and lets the watcher go with the last receiver.               *)
(***************************************************************************)
EXTENDS Shared

CONSTANT MaxReceivers   \* receivers there can be at a time

ASSUME ReceiversAssumption == MaxReceivers \in Nat \ {0}

VARIABLES
    published,      \* the value in the channel
    receivers,      \* how many receivers there are
    bridge          \* the task: "absent", "running", "ended"

bridgeVars == <<published, receivers, bridge>>
allVars == <<vars, bridgeVars>>

BridgeInit ==
    /\ Init
    /\ published = Nothing
    /\ receivers = 0
    /\ bridge = "absent"

-----------------------------------------------------------------------------
(* The caller.                                                             *)

\* watch_channel takes a watcher that may have been polled before.
Poll == bridge = "absent" /\ PollNext /\ UNCHANGED bridgeVars

\* The channel starts at `current()`, and the task with a poll.
WatchChannel ==
    /\ bridge = "absent"
    /\ Established
    /\ published' = current
    /\ receivers' = 1
    /\ bridge' = "running"
    /\ task' = "ready"
    /\ UNCHANGED <<current, queueVars, wakeVars, closed, dirty, healthVars,
                   construction, threadVars, heardVars>>

CloneReceiver ==
    /\ receivers \in 1 .. MaxReceivers - 1
    /\ receivers' = receivers + 1
    /\ UNCHANGED <<vars, published, bridge>>

\* The last receiver completes `closed()`, which wakes the task.
DropReceiver ==
    /\ receivers > 0
    /\ receivers' = receivers - 1
    /\ task' = IF receivers = 1 THEN "ready" ELSE task
    /\ UNCHANGED <<current, queueVars, wakeVars, closed, dirty, healthVars,
                   construction, threadVars, heardVars, published, bridge>>

-----------------------------------------------------------------------------
(* The task.                                                               *)

Scheduled == bridge = "running" /\ task = "ready"

\* A task that never looks at `closed()` while it has a stream to poll.
EndsWithTheStreamOnly == FALSE /\ UNCHANGED allVars

\* `closed` is polled before the stream.
EndsWithTheReceivers ==
    /\ Scheduled
    /\ receivers = 0
    /\ bridge' = "ended"
    /\ UNCHANGED <<vars, published, receivers>>

\* A task that returns after one event, with nobody to wake it for the next.
ForwardOne ==
    /\ Scheduled
    /\ receivers > 0
    /\ queue # <<>>
    /\ queue' = Tail(queue)
    /\ dropped' = IF Len(queue) = 1 THEN 0 ELSE dropped
    /\ published' = IF Head(queue) = Snapshot THEN current ELSE published
    /\ task' = "parked"
    /\ UNCHANGED <<current, wakeVars, closed, dirty, healthVars, construction,
                   threadVars, heardVars, receivers, bridge>>

\* A snapshot is published if it differs; an error is dropped.
ForwardQueued ==
    /\ PollQueued
    /\ published' = IF Head(queue) = Snapshot THEN current ELSE published

Forward ==
    /\ Scheduled
    /\ receivers > 0
    /\ \/ ForwardQueued
       \/ PollDirty /\ published' = current
    /\ UNCHANGED <<receivers, bridge>>

Idle ==
    /\ Scheduled
    /\ receivers > 0
    /\ PollPending
    /\ UNCHANGED bridgeVars

EndsWithTheStream ==
    /\ Scheduled
    /\ receivers > 0
    /\ PollEnd
    /\ bridge' = "ended"
    /\ UNCHANGED <<published, receivers>>

BridgeTask == EndsWithTheReceivers \/ Forward \/ Idle \/ EndsWithTheStream

-----------------------------------------------------------------------------
(* The task owns the watcher: the backend is asked to stop when it ends.   *)

BackendNext ==
    /\ \/ \E health \in BackendHealth : SetConstructionHealth(health)
       \/ Publish
       \/ Return
       \/ Panic
       \/ Unwind
       \/ Wake
    /\ UNCHANGED bridgeVars

BridgeNext ==
    \/ BackendNext
    \/ Poll
    \/ WatchChannel
    \/ CloneReceiver
    \/ DropReceiver
    \/ BridgeTask

\* The runtime runs a woken task, and a backend that is asked to stop does.
BridgeFairness ==
    /\ WF_allVars(BridgeTask)
    /\ WF_allVars(Wake /\ UNCHANGED bridgeVars)
    /\ WF_allVars(Unwind /\ UNCHANGED bridgeVars)
    /\ WF_allVars(bridge = "ended" /\ Return /\ UNCHANGED bridgeVars)

BridgeSpec == BridgeInit /\ [][BridgeNext]_allVars /\ BridgeFairness

-----------------------------------------------------------------------------
(* Properties.                                                             *)

\* The task drops failures, and with them the state they carry, but not the
\* configuration: unless a snapshot is still queued the receivers hold the
\* current one, however the queue was folded and trimmed.
ReceiversAreCurrent ==
    bridge = "running" /\ ~SnapshotQueued => published = current

\* Once the backend stops publishing the receivers get to hold what is current.
ReceiversCatchUp ==
    <>[][~Publish]_allVars => <>[](bridge = "running" => published = current)

\* "last receiver drop ends the task", without waiting for a change that may
\* never come, and with it the watcher and its thread.
LastReceiverReleases == bridge # "absent" /\ receivers = 0 ~> backend = "done"
=============================================================================
