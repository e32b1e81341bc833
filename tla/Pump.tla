--------------------------------- MODULE Pump ---------------------------------
(***************************************************************************)
(* `Watch` of bindings/shared/src/lib.rs, which the C, Node and Python     *)
(* bindings are made of: a thread, the pump, that is the one subscriber of *)
(* Shared and calls `on_change` for each change, and the two ways to stop  *)
(* it, of which any number of threads may be under way at a time.          *)
(*                                                                         *)
(* What `deliver` does is the host's.  C calls `on_change` as it is.       *)
(* Python needs the interpreter's lock (the GIL) for it, which its threads *)
(* hold whenever they run.  Node posts the call to the JavaScript thread.  *)
(***************************************************************************)
EXTENDS Shared

CONSTANTS
    Threads,    \* the threads of the host that stop the watch
    Main,       \* the JavaScript thread among them
    PumpThread, \* the pump
    NoOne,      \* nobody holds it
    MaxPosted   \* calls posted to the JavaScript thread that are told apart

ASSUME ThreadsAssumption ==
    /\ Main \in Threads
    /\ PumpThread \notin Threads /\ NoOne \notin Threads \cup {PumpThread}
ASSUME PostedAssumption == MaxPosted \in Nat \ {0}

VARIABLES
    host,           \* "c", "python" or "node"
    gil,            \* who holds the GIL
    open,           \* Python's slot of on_change is filled, Node's gate is open
    posted,         \* calls in the queue of the JavaScript thread
    watchClosed,    \* Inner.closed
    watcher,        \* Inner.watcher is Some
    watcherLock,    \* who holds Inner.watcher while it drops the watcher
    handle,         \* Inner.pump is Some
    pumpLock,       \* who holds Inner.pump across a wait
    pump,           \* where the pump is
    token,          \* the pump has been unparked
    last,           \* the pump's `last`
    msg,            \* what it delivers: a value, the last of them, or the stop
    pc,             \* where each thread of the host is
    closedBy,       \* who has returned from `close` (history)
    missed,         \* the constructor's read was stamped with the stop (history)
    said            \* how often the stop was delivered (history)

hostVars  == <<host, gil, open, posted>>
innerVars == <<watchClosed, watcher, watcherLock, handle, pumpLock>>
loopVars  == <<pump, token, last, msg>>
pastVars  == <<closedBy, missed, said>>
pumpVars  == <<hostVars, innerVars, loopVars, pc, pastVars>>
watchVars == <<vars, pumpVars>>

PumpTypeOK ==
    /\ host \in {"c", "python", "node"}
    /\ gil \in Threads \cup {PumpThread, NoOne}
    /\ open \in BOOLEAN
    /\ posted \in 0 .. MaxPosted
    /\ watchClosed \in BOOLEAN /\ watcher \in BOOLEAN /\ handle \in BOOLEAN
    /\ watcherLock \in Threads \cup {PumpThread, NoOne}
    /\ pumpLock \in Threads \cup {NoOne}
    /\ pump \in {"absent", "read", "top", "poll", "park", "deliver", "calling",
                 "away", "stopped", "leaving", "dropping", "done"}
    /\ token \in BOOLEAN
    /\ last \in Configs
    /\ msg \in {"value", "last value", "stop"}
    /\ pc \in [Threads -> {"idle", "detached", "pump", "joining", "watcher",
                           "dropping", "tries", "takes", "drops", "closed"}]
    /\ closedBy \subseteq Threads \cup {PumpThread}
    /\ missed \in BOOLEAN
    /\ said \in 0 .. 2

PumpInit ==
    /\ host \in {"c", "python", "node"}
    /\ gil = NoOne /\ open = TRUE /\ posted = 0
    /\ watchClosed = FALSE /\ watcher = TRUE /\ watcherLock = NoOne
    /\ handle = FALSE /\ pumpLock = NoOne
    /\ pump = "absent" /\ token = FALSE /\ last = Initial /\ msg = "value"
    /\ pc = [t \in Threads |-> "idle"]
    /\ closedBy = {} /\ missed = FALSE /\ said = 0

-----------------------------------------------------------------------------
(* Watch::start.  Nobody has the watch before it returns, so the handle of *)
(* the pump may be stored when it is spawned.                              *)

\* The constructor's read is taken here, whatever it says.
TakeFirst ==
    /\ pump = "absent"
    /\ PollQueued
    /\ pump' = "read"
    /\ missed' = closed
    /\ UNCHANGED <<hostVars, innerVars, token, last, msg, pc, closedBy, said>>

SpawnPump ==
    /\ pump = "read"
    /\ pump' = "top"
    /\ last' = current
    /\ handle' = TRUE
    /\ UNCHANGED <<vars, hostVars, watchClosed, watcher, watcherLock, pumpLock,
                   token, msg, pc, pastVars>>

-----------------------------------------------------------------------------
(* The pump.                                                               *)

Top ==
    /\ pump = "top"
    /\ pump' = IF watchClosed THEN "leaving" ELSE "poll"
    /\ UNCHANGED <<vars, hostVars, innerVars, token, last, msg, pc, pastVars>>

MayPoll == pump = "poll" /\ watcherLock = NoOne /\ watcher

\* A snapshot that repeats the configuration is passed over, stop and all.
HearSnapshotIfNew ==
    /\ MayPoll
    /\ \/ PollQueued /\ Head(queue) = Snapshot
       \/ PollDirty
    /\ last' = current
    /\ msg' = IF closed THEN "last value" ELSE "value"
    /\ pump' = IF current # last THEN "deliver" ELSE "top"
    /\ UNCHANGED <<hostVars, innerVars, token, pc, pastVars>>

\* A snapshot that only tells of the health is no change, but it may be the last.
HearSnapshot ==
    /\ MayPoll
    /\ \/ PollQueued /\ Head(queue) = Snapshot
       \/ PollDirty
    /\ last' = current
    /\ msg' = IF closed THEN "last value" ELSE "value"
    /\ pump' = IF current # last THEN "deliver" ELSE IF closed THEN "stopped" ELSE "top"
    /\ UNCHANGED <<hostVars, innerVars, token, pc, pastVars>>

HearFailure ==
    /\ MayPoll
    /\ PollQueued /\ Head(queue) # Snapshot
    /\ msg' = "value"
    /\ pump' = "deliver"
    /\ UNCHANGED <<hostVars, innerVars, token, last, pc, pastVars>>

HearEnd ==
    /\ MayPoll
    /\ PollEnd
    /\ pump' = "leaving"
    /\ UNCHANGED <<hostVars, innerVars, token, last, msg, pc, pastVars>>

HearNothing ==
    /\ MayPoll
    /\ PollPending
    /\ pump' = "park"
    /\ UNCHANGED <<hostVars, innerVars, token, last, msg, pc, pastVars>>

\* The waker of the pump unparks it.
Unpark ==
    /\ Wake
    /\ token' = TRUE
    /\ UNCHANGED <<hostVars, innerVars, pump, last, msg, pc, pastVars>>

\* thread::park returns at once if the thread was unparked before.
Park ==
    /\ pump = "park"
    /\ token
    /\ token' = FALSE
    /\ pump' = "top"
    /\ UNCHANGED <<vars, hostVars, innerVars, last, msg, pc, pastVars>>

\* The stop is told whatever the callback before it has done.
TellStopAnyway ==
    /\ pump = "stopped"
    /\ pump' = "deliver" /\ msg' = "stop"
    /\ UNCHANGED <<vars, hostVars, innerVars, token, last, pc, pastVars>>

\* The stop is told unless the callback before it has closed the watch.
TellStop ==
    /\ pump = "stopped"
    /\ IF watchClosed THEN pump' = "leaving" /\ UNCHANGED msg
       ELSE pump' = "deliver" /\ msg' = "stop"
    /\ UNCHANGED <<vars, hostVars, innerVars, token, last, pc, pastVars>>

\* drop(lock(watcher).take()): the mutex is held while the watcher is dropped.
TakesWatcher(who) ==
    /\ watcherLock = NoOne
    /\ watcher' = FALSE
    /\ watcherLock' = IF watcher THEN who ELSE NoOne
    /\ UNCHANGED <<watchClosed, handle>>

\* ProxyWatcher's Drop joins the platform thread.
DropsWatcher(who) ==
    /\ watcherLock = who => backend = "done" /\ ~waking
    /\ watcherLock' = IF watcherLock = who THEN NoOne ELSE watcherLock
    /\ UNCHANGED <<watchClosed, watcher, handle>>

LeaveLoop ==
    /\ pump = "leaving"
    /\ TakesWatcher(PumpThread)
    /\ pump' = "dropping"
    /\ UNCHANGED <<vars, hostVars, pumpLock, token, last, msg, pc, pastVars>>

PumpEnds ==
    /\ pump = "dropping"
    /\ DropsWatcher(PumpThread)
    /\ pump' = "done"
    /\ UNCHANGED <<vars, hostVars, pumpLock, token, last, msg, pc, pastVars>>

-----------------------------------------------------------------------------
(* deliver, and the callback.                                              *)

\* Where the pump goes once `deliver` has returned TRUE.
AfterDelivery ==
    CASE msg = "value" -> "top" [] msg = "last value" -> "stopped" [] msg = "stop" -> "leaving"

Said == said' = IF msg = "stop" THEN said + 1 ELSE said

\* on_change begins.  Python's is borrowed under the GIL; without it, `deliver`
\* returns FALSE.
Call ==
    /\ pump = "deliver"
    /\ host # "node"
    /\ gil = NoOne
    /\ IF open
       THEN /\ gil' = IF host = "python" THEN PumpThread ELSE NoOne
            /\ pump' = "calling"
            /\ Said
       ELSE /\ pump' = "leaving"
            /\ UNCHANGED <<gil, said>>
    /\ UNCHANGED <<vars, host, open, posted, innerVars, token, last, msg, pc, closedBy,
                   missed>>

CallReturns ==
    /\ pump = "calling"
    /\ gil' = NoOne
    /\ pump' = AfterDelivery
    /\ UNCHANGED <<vars, host, open, posted, innerVars, token, last, msg, pc, pastVars>>

\* A call that is posted whether the gate is open or not; it never waits.
Post ==
    /\ pump = "deliver"
    /\ host = "node"
    /\ posted' = IF posted < MaxPosted THEN posted + 1 ELSE posted
    /\ pump' = AfterDelivery
    /\ Said
    /\ UNCHANGED <<vars, host, gil, open, innerVars, token, last, msg, pc, closedBy, missed>>

\* close from on_change itself stops without waiting; Python lets go of the GIL
\* for it, as it may whenever it likes.
CloseInside ==
    /\ pump = "calling"
    /\ host = "c" => \A t \in Threads : pc[t] = "idle"
    /\ watchClosed' = TRUE
    /\ closedBy' = closedBy \cup {PumpThread}
    /\ IF host = "python" THEN gil' = NoOne /\ pump' = "away" ELSE UNCHANGED <<gil, pump>>
    /\ UNCHANGED <<vars, host, open, posted, watcher, watcherLock, handle, pumpLock,
                   token, last, msg, pc, missed, said>>

\* on_change may hold the last reference to the watch, and drop it.
DropInside ==
    /\ pump = "calling"
    /\ host = "python"
    /\ ~watchClosed
    /\ watchClosed' = TRUE
    /\ token' = (token \/ pumpLock = NoOne)
    /\ UNCHANGED <<vars, hostVars, watcher, watcherLock, handle, pumpLock,
                   pump, last, msg, pc, pastVars>>

LetsGo ==
    /\ pump = "calling"
    /\ host = "python"
    /\ gil' = NoOne
    /\ pump' = "away"
    /\ UNCHANGED <<vars, host, open, posted, innerVars, token, last, msg, pc, pastVars>>

\* On its way back Python's close takes on_change out of the slot.
ComesBack ==
    /\ pump = "away"
    /\ gil = NoOne
    /\ gil' = PumpThread
    /\ pump' = "calling"
    /\ open' = (open /\ PumpThread \notin closedBy)
    /\ UNCHANGED <<vars, host, posted, innerVars, token, last, msg, pc, pastVars>>

\* The JavaScript thread runs a posted call; on_change is called if the gate is open.
RunPosted ==
    /\ pc[Main] \in {"idle", "closed"}
    /\ posted > 0
    /\ posted' = posted - 1
    /\ UNCHANGED <<vars, host, gil, open, innerVars, loopVars, pc, pastVars>>

-----------------------------------------------------------------------------
(* Watch::close, by a thread that is not the pump.                         *)

Started == pump \notin {"absent", "read"}

\* A thread stops the watch when it is the host's to stop: in C once, in Node
\* from the JavaScript thread.  Python's threads hold the GIL here.
MayStop(t) ==
    /\ Started
    /\ pc[t] = "idle"
    /\ gil = NoOne
    /\ host = "c" => PumpThread \notin closedBy /\ \A u \in Threads : pc[u] = "idle"
    /\ host = "node" => t = Main

\* Node closes its gate; Python lets go of the GIL.
BeginClose(t) ==
    /\ MayStop(t)
    /\ open' = (open /\ host # "node")
    /\ pc' = [pc EXCEPT ![t] = "detached"]
    /\ UNCHANGED <<vars, host, gil, posted, innerVars, loopVars, pastVars>>

StoreClosed(t) ==
    /\ pc[t] = "detached"
    /\ watchClosed' = TRUE
    /\ pc' = [pc EXCEPT ![t] = "pump"]
    /\ UNCHANGED <<vars, hostVars, watcher, watcherLock, handle, pumpLock, loopVars, pastVars>>

\* Whoever takes the handle wakes the pump, and waits for it.
StopPump(t) ==
    /\ pc[t] = "pump"
    /\ pumpLock = NoOne
    /\ handle' = FALSE
    /\ token' = (token \/ handle)
    /\ IF handle
       THEN pumpLock' = t /\ pc' = [pc EXCEPT ![t] = "joining"]
       ELSE UNCHANGED pumpLock /\ pc' = [pc EXCEPT ![t] = "watcher"]
    /\ UNCHANGED <<vars, hostVars, watchClosed, watcher, watcherLock, pump, last, msg, pastVars>>

\* The lock is held across the join.
Join(t) ==
    /\ pc[t] = "joining"
    /\ pump = "done"
    /\ pumpLock' = NoOne
    /\ pc' = [pc EXCEPT ![t] = "watcher"]
    /\ UNCHANGED <<vars, hostVars, watchClosed, watcher, watcherLock, handle, loopVars, pastVars>>

TakeWatcher(t) ==
    /\ pc[t] = "watcher"
    /\ TakesWatcher(t)
    /\ pc' = [pc EXCEPT ![t] = "dropping"]
    /\ UNCHANGED <<vars, hostVars, pumpLock, loopVars, pastVars>>

\* Python's close takes the GIL back, and on_change out of its slot.
FinishClose(t) ==
    /\ pc[t] = "dropping"
    /\ DropsWatcher(t)
    /\ gil = NoOne
    /\ open' = (open /\ host # "python")
    /\ pc' = [pc EXCEPT ![t] = IF host = "c" THEN "closed" ELSE "idle"]
    /\ closedBy' = closedBy \cup {t}
    /\ UNCHANGED <<vars, host, gil, posted, pumpLock, loopVars, missed, said>>

-----------------------------------------------------------------------------
(* Watch::close_in_background, which never waits for the pump: the thread   *)
(* may hold what the pump waits for.                                       *)

Holding(t) == IF host = "python" THEN t ELSE NoOne

BeginBackground(t) ==
    /\ MayStop(t)
    /\ host # "c"
    /\ ~watchClosed
    /\ watchClosed' = TRUE
    /\ gil' = Holding(t)
    /\ pc' = [pc EXCEPT ![t] = "tries"]
    /\ UNCHANGED <<vars, host, open, posted, watcher, watcherLock, handle, pumpLock, loopVars,
                   pastVars>>

Releases(t) ==
    /\ gil' = NoOne
    /\ pc' = [pc EXCEPT ![t] = "idle"]

\* The lock is waited for.
WaitForLock(t) ==
    /\ pc[t] = "tries"
    /\ pumpLock = NoOne
    /\ IF ~handle
       THEN /\ pumpLock' = t
            /\ pc' = [pc EXCEPT ![t] = "takes"]
            /\ UNCHANGED <<gil, token>>
       ELSE /\ token' = TRUE
            /\ Releases(t)
            /\ UNCHANGED pumpLock
    /\ UNCHANGED <<vars, host, open, posted, watchClosed, watcher, watcherLock, handle,
                   pump, last, msg, pastVars>>

\* A lock that is taken is another's to finish with.
TryLock(t) ==
    /\ pc[t] = "tries"
    /\ IF pumpLock = NoOne /\ ~handle
       THEN /\ pumpLock' = t
            /\ pc' = [pc EXCEPT ![t] = "takes"]
            /\ UNCHANGED <<gil, token>>
       ELSE /\ token' = (token \/ pumpLock = NoOne)
            /\ Releases(t)
            /\ UNCHANGED pumpLock
    /\ UNCHANGED <<vars, host, open, posted, watchClosed, watcher, watcherLock, handle,
                   pump, last, msg, pastVars>>

BackgroundTakes(t) ==
    /\ pc[t] = "takes"
    /\ TakesWatcher(t)
    /\ pc' = [pc EXCEPT ![t] = "drops"]
    /\ UNCHANGED <<vars, hostVars, pumpLock, loopVars, pastVars>>

BackgroundDrops(t) ==
    /\ pc[t] = "drops"
    /\ DropsWatcher(t)
    /\ pumpLock' = NoOne
    /\ Releases(t)
    /\ UNCHANGED <<vars, host, open, posted, loopVars, pastVars>>

-----------------------------------------------------------------------------
PumpStep ==
    \/ Top \/ HearSnapshot \/ HearFailure \/ HearEnd \/ HearNothing \/ Park
    \/ TellStop \/ Call \/ Post \/ ComesBack \/ LeaveLoop \/ PumpEnds

StopStep(t) ==
    \/ StoreClosed(t) \/ StopPump(t) \/ Join(t) \/ TakeWatcher(t) \/ FinishClose(t)
    \/ TryLock(t) \/ BackgroundTakes(t) \/ BackgroundDrops(t)

PumpNext ==
    \/ /\ \/ \E health \in BackendHealth : SetConstructionHealth(health)
          \/ Publish \/ Return \/ Panic \/ Unwind
       /\ UNCHANGED pumpVars
    \/ Unpark
    \/ TakeFirst \/ SpawnPump
    \/ PumpStep
    \/ CallReturns \/ CloseInside \/ DropInside \/ LetsGo
    \/ RunPosted
    \/ \E t \in Threads : BeginClose(t) \/ BeginBackground(t) \/ StopStep(t)

\* Threads run, on_change returns, and a platform thread that is asked to stop
\* does.  Nobody needs to stop the watch.
PumpFairness ==
    /\ WF_watchVars(PumpStep)
    /\ SF_watchVars(CallReturns)
    /\ \A t \in Threads : WF_watchVars(StopStep(t))
    /\ WF_watchVars(Unpark)
    /\ WF_watchVars(Unwind /\ UNCHANGED pumpVars)
    /\ WF_watchVars(watcherLock # NoOne /\ Return /\ UNCHANGED pumpVars)

PumpSpec == Init /\ PumpInit /\ [][PumpNext]_watchVars /\ PumpFairness

-----------------------------------------------------------------------------
(* Properties.                                                             *)

\* on_change begins: in the pump, or in the JavaScript thread.
CallBegins ==
    \/ pump = "deliver" /\ pump' = "calling"
    \/ posted' < posted /\ open

\* "Once this returns, on_change is not running and is not called again"
\* (bindings/c/src/lib.rs, pw_watch_close); called from on_change itself it
\* returns at once, and on_change is not called again either.  Python and Node
\* promise the same, of any number of calls by any number of threads.
NothingAfterClose ==
    /\ [](PumpTypeOK /\ (closedBy \cap Threads # {} => pump \notin {"calling", "away"}))
    /\ [][CallBegins => closedBy = {}]_watchVars

\* A watch that nobody closes has on_change called with the newest configuration,
\* and once, and last, with the stop of a platform thread that ended by itself,
\* unless it ended before `start` took the constructor's read.
DeliversTheStream ==
    /\ <>[][~Publish]_watchVars => <>[](Started /\ ~watchClosed => last = current)
    /\ backend = "done" /\ Started /\ ~missed ~> said = 1 \/ watchClosed
    /\ [][pump' = "deliver" => said = 0]_watchVars

\* Whoever stops the watch gets to go on, whatever it holds and whoever else is
\* at it, and the platform thread is gone.
CloseReturns ==
    /\ \A t \in Threads : pc[t] # "idle" ~> pc[t] \in {"idle", "closed"}
    /\ watchClosed ~> ~watcher /\ backend = "done"

\* "A watch that stopped on its own says so once, as the failure `current()`
\* then answers with" (bindings/shared/src/lib.rs:904).
StopIsTold == backend = "done" /\ Started ~> said > 0 \/ watchClosed
=============================================================================
