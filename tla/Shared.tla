------------------------------- MODULE Shared -------------------------------
(***************************************************************************)
(* `Shared` of src/src/watch.rs: the queue, the waker and the health flags *)
(* between the one thread that publishes (the platform backend, under its  *)
(* `ThreadGuard`) and the one task that polls the stream.                  *)
(*                                                                         *)
(* Every method takes the mutex once, so each is one action; the wake that *)
(* the publishing methods do after the unlock is an action of its own      *)
(* (Wake), and the backend cannot go on before it.  The constructing       *)
(* thread records the construction health while the backend already runs.  *)
(***************************************************************************)
EXTENDS Integers, Sequences, SequencesExt

CONSTANTS
    Configs,        \* the configurations a read can return
    Initial,        \* what the constructor read
    Sources,        \* the stores whose route can degrade
    Errors,         \* why a re-read can fail
    Panicked,       \* the error ThreadGuard reports
    Snapshot,       \* the queue entry `Queued::Snapshot`, which has no payload
    Nothing,        \* the unset OnceLock, and nothing delivered yet
    MaxQueued,      \* MAX_QUEUED_CHANGES (1024 in the code)
    DroppedCap      \* `dropped` saturates here: only 0, 1 and more differ

Failures == Errors \union {Panicked}

\* A queued failure; `since` is the configuration it followed (history).
QueuedError == [error : Failures, since : Configs]
Item == {Snapshot} \union QueuedError

Health == [degraded : SUBSET Sources, live : BOOLEAN, stopped : BOOLEAN]
WatchState == [config : Configs, health : Health]
BackendHealth == [degraded : SUBSET Sources, live : BOOLEAN]

ASSUME ConfigAssumption == Initial \in Configs
ASSUME ErrorAssumption == Panicked \notin Errors
ASSUME ItemAssumption == Snapshot \notin QueuedError
ASSUME NothingAssumption == Nothing \notin WatchState \union BackendHealth
ASSUME CapacityAssumption == MaxQueued \in Nat \ {0} /\ DroppedCap \in Nat \ {0}

VARIABLES
    current,            \* State.current
    queue,              \* State.queue
    dropped,            \* State.dropped
    waker,              \* State.waker is set
    closed,             \* State.closed
    dirty,              \* State.dirty
    runtimeDegraded,    \* State.runtime_degraded
    runtimeNoLive,      \* State.runtime_no_live_notifications
    construction,       \* the OnceLock: Nothing until the constructor sets it
    backend,            \* where the backend thread is
    panicking,          \* std::thread::panicking() on it
    waking,             \* the backend holds a waker it has not woken yet
    task,               \* the polling task: "ready" to run, or "parked"
    seen,               \* the state of the newest snapshot delivered (history)
    told,               \* the state of the newest item delivered (history)
    first,              \* the first item delivered (history)
    heardPanic,         \* the panic failure was delivered (history)
    ended               \* poll_next has answered None (history)

queueVars  == <<queue, dropped>>
healthVars == <<runtimeDegraded, runtimeNoLive>>
threadVars == <<backend, panicking>>
wakeVars   == <<waker, waking>>
heardVars  == <<seen, told, first, heardPanic, ended>>
vars == <<current, queueVars, wakeVars, closed, dirty, healthVars,
          construction, threadVars, task, heardVars>>

-----------------------------------------------------------------------------
(* Reading the state.                                                      *)

Established == construction # Nothing

\* merge_runtime_health; before the constructor's record it claims nothing.
MergedHealth ==
    [degraded |-> runtimeDegraded
                    \union IF Established THEN construction.degraded ELSE {},
     live     |-> Established /\ construction.live /\ ~runtimeNoLive,
     stopped  |-> closed]

\* Configuration and health from one lock acquisition.
Stamp == [config |-> current, health |-> MergedHealth]

SnapshotQueued == \E i \in DOMAIN queue : queue[i] = Snapshot

\* The unlocked half of a publishing method begins: it owns the waker it took.
TakeWaker ==
    /\ waking' = waker
    /\ waker' = FALSE

KeepWaker == UNCHANGED wakeVars

-----------------------------------------------------------------------------
(* The queue.                                                              *)

\* The newest queued snapshot (0 when none is queued).
LastSnapshot(q) == Max({0} \union {i \in DOMAIN q : q[i] = Snapshot})

\* A fold that takes a queued snapshot for the newest word wherever it is.
FoldedInPlace(q) == IF LastSnapshot(q) > 0 THEN q ELSE Append(q, Snapshot)

\* Fold an owed snapshot into the queue: nothing to do when one is last; one
\* in the middle moves behind the failures queued after it; the front one,
\* which the consumer takes next, stays and gets a second one behind it.
Folded(q) ==
    LET last == LastSnapshot(q) IN
    IF last > 0 /\ last = Len(q) THEN q
    ELSE IF last > 1 THEN Append(RemoveAt(q, last), Snapshot)
    ELSE Append(q, Snapshot)

\* How many entries trim_to_capacity discards from the front.
Excess(q) == IF Len(q) > MaxQueued THEN Len(q) - MaxQueued ELSE 0

\* A trim that refuses the newest entries, as a bounded channel would.
TrimmedNewest(q) == SubSeq(q, 1, Len(q) - Excess(q))

Trimmed(q) == SubSeq(q, Excess(q) + 1, Len(q))

Saturated(n) == IF n > DroppedCap THEN DroppedCap ELSE n

\* An error behind another failure replaces it; otherwise it is appended.
LastIsFailure == queue # <<>> /\ Last(queue) # Snapshot

-----------------------------------------------------------------------------
Init ==
    /\ current = Initial
    /\ queue = <<Snapshot>>
    /\ dropped = 0
    /\ waker = FALSE
    /\ closed = FALSE
    /\ dirty = FALSE
    /\ runtimeDegraded = {}
    /\ runtimeNoLive = FALSE
    /\ construction = Nothing
    /\ backend = "running"
    /\ panicking = FALSE
    /\ waking = FALSE
    /\ task = "ready"
    /\ seen = Nothing
    /\ told = Nothing
    /\ first = Nothing
    /\ heardPanic = FALSE
    /\ ended = FALSE

-----------------------------------------------------------------------------
(* The constructing thread.                                                *)

SetConstructionHealth(health) ==
    /\ ~Established
    /\ construction' = health
    /\ UNCHANGED <<current, queueVars, wakeVars, closed, dirty, healthVars,
                   threadVars, task, heardVars>>

-----------------------------------------------------------------------------
(* The methods the backend thread calls.                                   *)

\* The backend is at `where` and not in the middle of a wake.
BackendAt(where) == backend = where /\ ~waking

EmitPolitely(config) ==         \* leaves the folded queue to the next poll
    /\ BackendAt("running")
    /\ config # current
    /\ current' = config
    /\ queue' = Trimmed(Folded(queue))
    /\ dropped' = Saturated(dropped + Excess(Folded(queue)))
    /\ dirty' = FALSE
    /\ KeepWaker
    /\ UNCHANGED <<closed, healthVars, construction, threadVars, task, heardVars>>

\* Publish a configuration that differs from the last one.
Emit(config) ==
    /\ BackendAt("running")
    /\ config # current
    /\ current' = config
    /\ queue' = Trimmed(Folded(queue))
    /\ dropped' = Saturated(dropped + Excess(Folded(queue)))
    /\ dirty' = FALSE
    /\ TakeWaker
    /\ UNCHANGED <<closed, healthVars, construction, threadVars, task, heardVars>>

\* A failure that is appended behind another one, and trimmed by nobody.
FailingAppends(error) ==
    /\ queue' = Append(queue, [error |-> error, since |-> current])
    /\ TakeWaker
    /\ UNCHANGED <<current, dropped, closed, dirty, healthVars, construction,
                   task, heardVars>>

\* The body of `fail`, at whatever point of the thread calls it.
Failing(error) ==
    LET item == [error |-> error, since |-> current] IN
    /\ IF LastIsFailure
         THEN queue' = [queue EXCEPT ![Len(queue)] = item] /\ KeepWaker
         ELSE queue' = Append(queue, item) /\ TakeWaker
    /\ UNCHANGED <<current, dropped, closed, dirty, healthVars, construction,
                   task, heardVars>>

Fail(error) ==
    /\ BackendAt("running")
    /\ Failing(error)
    /\ UNCHANGED threadVars

\* A transition that counts on the next configuration change to be noticed.
OweNothing == UNCHANGED <<dirty, wakeVars>>

\* What a health transition does: no entry is queued, `dirty` owes a snapshot.
OweSnapshot == dirty' = TRUE /\ TakeWaker

AlreadyDegraded(source) ==
    \/ source \in runtimeDegraded
    \/ Established /\ source \in construction.degraded

Degrade(source) ==
    /\ BackendAt("running")
    /\ ~AlreadyDegraded(source)
    /\ runtimeDegraded' = runtimeDegraded \union {source}
    /\ OweSnapshot
    /\ UNCHANGED <<current, queueVars, closed, runtimeNoLive, construction,
                   threadVars, task, heardVars>>

AlreadyDark == runtimeNoLive \/ (Established /\ ~construction.live)

\* The body of `mark_no_live_notifications`, with its early return.
MarkingNoLive ==
    /\ IF AlreadyDark
         THEN UNCHANGED <<runtimeNoLive, dirty, wakeVars>>
         ELSE runtimeNoLive' = TRUE /\ OweSnapshot
    /\ UNCHANGED <<current, queueVars, closed, runtimeDegraded, construction,
                   task, heardVars>>

MarkNoLiveNotifications ==
    /\ BackendAt("running")
    /\ ~AlreadyDark
    /\ MarkingNoLive
    /\ UNCHANGED threadVars

-----------------------------------------------------------------------------
(* ThreadGuard: however the thread ends, it closes the stream.             *)

\* The thread returns (a backend with a fatal error has called Fail before).
Return ==
    /\ BackendAt("running")
    /\ backend' = "close"
    /\ UNCHANGED <<current, queueVars, wakeVars, closed, dirty, healthVars,
                   construction, panicking, task, heardVars>>

\* A panicking guard that reports the failure before it takes the routes down.
PanicFailsFirst ==
    /\ BackendAt("running")
    /\ backend' = "fail"
    /\ panicking' = TRUE
    /\ UNCHANGED <<current, queueVars, wakeVars, closed, dirty, healthVars,
                   construction, task, heardVars>>

Panic ==
    /\ BackendAt("running")
    /\ backend' = "mark"
    /\ panicking' = TRUE
    /\ UNCHANGED <<current, queueVars, wakeVars, closed, dirty, healthVars,
                   construction, task, heardVars>>

GuardMarks ==
    /\ BackendAt("mark")
    /\ MarkingNoLive
    /\ backend' = "fail"
    /\ UNCHANGED panicking

GuardFails ==
    /\ BackendAt("fail")
    /\ Failing(Panicked)
    /\ backend' = "close"
    /\ UNCHANGED panicking

Close ==
    /\ BackendAt("close")
    /\ closed' = TRUE
    /\ OweSnapshot
    /\ backend' = "done"
    /\ UNCHANGED <<current, queueVars, healthVars, construction, panicking, task,
                   heardVars>>

\* The wake a publishing method owes once it has released the mutex.
Wake ==
    /\ waking
    /\ waking' = FALSE
    /\ task' = "ready"
    /\ UNCHANGED <<current, queueVars, waker, closed, dirty, healthVars,
                   construction, threadVars, heardVars>>

-----------------------------------------------------------------------------
(* poll_next.  A task may poll whenever it likes, woken or not.            *)

Delivered(kind) ==
    /\ told' = Stamp
    /\ first' = IF first = Nothing THEN kind ELSE first

DeliverSnapshot ==
    /\ Delivered("snapshot")
    /\ seen' = Stamp
    /\ dirty' = FALSE
    /\ UNCHANGED <<heardPanic, ended>>

\* An error whose stamp is taken for the answer to the health transition.
DeliverErrorAsAnswer(item) ==
    /\ Delivered("error")
    /\ heardPanic' = (heardPanic \/ item.error = Panicked)
    /\ dirty' = FALSE
    /\ UNCHANGED <<seen, ended>>

\* A failed read says nothing about the routes: `dirty` is left standing.
DeliverError(item) ==
    /\ Delivered("error")
    /\ heardPanic' = (heardPanic \/ item.error = Panicked)
    /\ UNCHANGED <<seen, dirty, ended>>

PollQueued ==
    /\ Established
    /\ queue # <<>>
    /\ queue' = Tail(queue)
    /\ dropped' = IF Len(queue) = 1 THEN 0 ELSE dropped
    /\ IF Head(queue) = Snapshot THEN DeliverSnapshot ELSE DeliverError(Head(queue))
    /\ task' = "ready"
    /\ UNCHANGED <<current, wakeVars, closed, healthVars, construction, threadVars>>

\* No entry, but a health transition nobody was told of.
PollDirty ==
    /\ Established
    /\ queue = <<>>
    /\ dirty
    /\ DeliverSnapshot
    /\ task' = "ready"
    /\ UNCHANGED <<current, queueVars, wakeVars, closed, healthVars,
                   construction, threadVars>>

\* A poll that lets the end of the stream go before the last transition.
PollEndEarly ==
    /\ Established
    /\ queue = <<>>
    /\ closed
    /\ ended' = TRUE
    /\ task' = "ready"
    /\ UNCHANGED <<current, queueVars, wakeVars, closed, dirty, healthVars,
                   construction, threadVars, seen, told, first, heardPanic>>

PollEnd ==
    /\ Established
    /\ queue = <<>>
    /\ ~dirty
    /\ closed
    /\ ended' = TRUE
    /\ task' = "ready"
    /\ UNCHANGED <<current, queueVars, wakeVars, closed, dirty, healthVars,
                   construction, threadVars, seen, told, first, heardPanic>>

\* Nothing to say: leave the waker behind, and park.
PollPending ==
    /\ Established
    /\ queue = <<>>
    /\ ~dirty
    /\ ~closed
    /\ waker' = TRUE
    /\ task' = "parked"
    /\ UNCHANGED <<current, queueVars, waking, closed, dirty, healthVars,
                   construction, threadVars, heardVars>>

PollNext == PollQueued \/ PollDirty \/ PollEnd \/ PollPending

-----------------------------------------------------------------------------
Publish ==
    \/ \E config \in Configs : Emit(config)
    \/ \E error \in Errors : Fail(error)
    \/ \E source \in Sources : Degrade(source)
    \/ MarkNoLiveNotifications

Unwind == GuardMarks \/ GuardFails \/ Close

Next ==
    \/ \E health \in BackendHealth : SetConstructionHealth(health)
    \/ Publish
    \/ Return
    \/ Panic
    \/ Unwind
    \/ Wake
    \/ PollNext

\* A woken task is polled, a wake that began is finished, and a thread that
\* is unwinding gets to its end.  Nothing obliges the backend to publish.
Fairness ==
    /\ WF_vars(PollNext /\ task = "ready")
    /\ WF_vars(Wake)
    /\ WF_vars(Unwind)

Spec == Init /\ [][Next]_vars /\ Fairness

-----------------------------------------------------------------------------
(* Properties.                                                             *)

QueueTypeOK ==
    /\ current \in Configs
    /\ queue \in Seq(Item)
    /\ dropped \in 0..DroppedCap

StateTypeOK ==
    /\ waker \in BOOLEAN
    /\ closed \in BOOLEAN
    /\ dirty \in BOOLEAN
    /\ runtimeDegraded \in SUBSET Sources
    /\ runtimeNoLive \in BOOLEAN
    /\ construction \in BackendHealth \union {Nothing}
    /\ backend \in {"running", "mark", "fail", "close", "done"}
    /\ panicking \in BOOLEAN
    /\ waking \in BOOLEAN
    /\ task \in {"ready", "parked"}

HeardTypeOK ==
    /\ seen \in WatchState \union {Nothing}
    /\ told \in WatchState \union {Nothing}
    /\ first \in {"snapshot", "error", Nothing}
    /\ heardPanic \in BOOLEAN
    /\ ended \in BOOLEAN

\* Every variable keeps the type of the field it models; what is delivered is
\* always a whole WatchState.
TypeOK == QueueTypeOK /\ StateTypeOK /\ HeardTypeOK

\* A task that parked is woken for whatever is published after it parked: as
\* long as it is parked either its waker is still in place and the stream has
\* nothing to say, or a wake is on its way.  (poll_next clones the waker
\* before it locks so that no publication falls between check and park.)
NoLostWakeup ==
    task = "parked" => \/ waking
                       \/ waker /\ queue = <<>> /\ ~dirty /\ ~closed

\* Level-triggered: when no snapshot is queued and none is owed, the newest
\* snapshot the subscriber holds is the configuration and the health there
\* are now (WatchEvent: "never the current answer" is lost).
OwedOrCurrent ==
    Established /\ ~SnapshotQueued /\ ~dirty => seen = Stamp /\ told = Stamp

\* WatchEvent::Error promises that a snapshot follows whenever the
\* configuration moved: no queued failure that an emitted change came after
\* is the last word of the queue.
ChangeFollowsFailure ==
    \A i \in DOMAIN queue :
        queue[i] # Snapshot /\ queue[i].since # current =>
            \E j \in i + 1 .. Len(queue) : queue[j] = Snapshot

\* The queue is bounded by MAX_QUEUED_CHANGES and one failure that arrived
\* after the trim; of two queued snapshots the earlier one is the front entry
\* (so there are two at most); and an overflow episode is over once the
\* consumer has drained it.
Bounded ==
    /\ Len(queue) <= MaxQueued + 1
    /\ Len(queue) = MaxQueued + 1 => LastIsFailure
    /\ \A i, j \in DOMAIN queue :
          queue[i] = Snapshot /\ queue[j] = Snapshot /\ i < j => i = 1
    /\ dropped > 0 => queue # <<>>

\* A subscriber that never polls costs a bounded queue: only `emit` trims, so
\* the bound rests on what `fail` replaces and on where `emit` folds, whatever
\* they alternate in (watch.rs: the comment on State.queue).
QueueIsBounded == TypeOK /\ Bounded

\* `None` is preceded by a snapshot reporting `stopped`, and by the failure of
\* a thread that panicked: neither is folded away or trimmed.
EndIsAnnounced ==
    ended => /\ seen = Stamp /\ seen.health.stopped
             /\ panicking => heardPanic

\* A consumer woken for the panic must not read that a route is live: from the
\* moment the failure is queued until the end of time the health says so.
PanicIsDark ==
    (heardPanic \/ \E i \in DOMAIN queue : queue[i] # Snapshot
                                            /\ queue[i].error = Panicked)
        => ~MergedHealth.live

\* What reaches the subscriber is a level-triggered stream.
Stream == INSTANCE LevelStream WITH
            state <- IF Established THEN Stamp ELSE Nothing,
            seen  <- told
ImplementsLevelStream == Stream!Spec

\* Once the backend stops publishing, a polling subscriber ends up holding a
\* snapshot of the state there is, though failures may be queued before it.
CatchesUp ==
    <>[][~Publish]_vars => <>[](Established => seen = Stamp)

\* A backend that ended, by any of its three ways, ends the stream.
EndArrives == (closed /\ Established) ~> ended

\* README.md, "The first item is the current configuration; each later one is
\* a change", and the comment in `emit` on the subscription-time snapshot
\* "every consumer's first item is documented to be".
FirstItemIsSnapshot == first # "error"
=============================================================================
