----------------------------- MODULE PollWatch -----------------------------
(***************************************************************************)
(* The Android and iOS backends: src/src/sys/poll.rs, the thread that      *)
(* re-reads on a timer and on a wake, and the callbacks that wake it from  *)
(* the platform's own threads, src/src/sys/android/receiver.rs and         *)
(* src/src/sys/ios.rs.                                                     *)
(*                                                                         *)
(* A callback carries the id of a `WakeSlot`; the registry SLOTS holds the *)
(* sender filed under it.  A callback may still run when its registration  *)
(* is gone.  The channel holds one wake, and the thread ends when the last *)
(* sender is dropped.  On Android the callback announces every change; on  *)
(* iOS it is a hint that comes of its own accord, so a timer is required.  *)
(***************************************************************************)
EXTENDS Integers, FiniteSets

CONSTANT Stores     \* what is read, all of it at once

VARIABLES
    android,        \* the callbacks announce changes (iOS: they are hints)
    polling,        \* WatchOptions::poll_interval is set
    owner,          \* where the constructor or Drop is
    registered,     \* the system calls back
    announced,      \* a callback is due, or running
    slot,           \* the registry files a sender under this watcher's id
    sender,         \* the watcher's own sender
    full,           \* a wake is in the channel
    thread,         \* where the thread is
    fresh,          \* nothing was written since the read under way began
    behind,         \* Stores when they were written since the last copy
    failed          \* the newest read failed

optionVars == <<android, polling>>
systemVars == <<registered, announced>>
wakeVars   == <<slot, sender, full>>
readVars   == <<fresh, behind, failed>>
vars == <<optionVars, owner, systemVars, wakeVars, thread, readVars>>

Init ==
    /\ android \in BOOLEAN
    /\ polling \in BOOLEAN
    /\ owner = "arm"
    /\ registered = FALSE
    /\ announced = FALSE
    /\ slot = FALSE
    /\ sender = TRUE
    /\ full = FALSE
    /\ thread = "unborn"
    /\ fresh = TRUE
    /\ behind = Stores
    /\ failed = FALSE

-----------------------------------------------------------------------------
(* The system.                                                             *)

Reading == owner = "read" \/ thread = "read"

Write ==
    /\ behind' = Stores
    /\ fresh' = (fresh /\ ~Reading)
    /\ announced' = (announced \/ (android /\ registered))
    /\ UNCHANGED <<optionVars, owner, registered, wakeVars, thread, failed>>

\* The application becomes active, or the network path changes.
Hint ==
    /\ ~android
    /\ registered
    /\ announced' = TRUE
    /\ UNCHANGED <<optionVars, owner, registered, wakeVars, thread, readVars>>

\* try_send: refused when a wake is pending, which the read to come will serve.
Sent == full' = TRUE

\* poll::wake, on a thread of the platform, with the lock of SLOTS held.
Callback ==
    /\ announced
    /\ announced' = FALSE
    /\ IF slot THEN Sent ELSE UNCHANGED full
    /\ UNCHANGED <<optionVars, owner, registered, slot, sender, thread, readVars>>

-----------------------------------------------------------------------------
(* The owner.                                                              *)

\* poll::Watch::armed refuses without an interval; Android's armed does not,
\* as long as it can reach the framework at all.
Arm ==
    /\ owner = "arm"
    /\ \/ owner' = "file" /\ (android \/ polling) /\ UNCHANGED sender
       \/ owner' = "failed" /\ (android \/ ~polling) /\ sender' = FALSE
    /\ UNCHANGED <<optionVars, systemVars, slot, full, thread, readVars>>

\* Filed before it is registered, so that the first callback finds it.
FileSlot ==
    /\ owner = "file"
    /\ slot' = TRUE
    /\ owner' = "register"
    /\ UNCHANGED <<optionVars, systemVars, sender, full, thread, readVars>>

\* On iOS registering cannot fail, and the path monitor calls at once.
Register ==
    /\ owner = "register"
    /\ registered' = TRUE
    /\ announced' = ~android
    /\ owner' = "read"
    /\ UNCHANGED <<optionVars, wakeVars, thread, readVars>>

\* Android: below MIN_SDK, or any JNI call; the slot goes with the failure,
\* and so does the watcher unless a timer polls.
RegisterFails ==
    /\ owner = "register"
    /\ android
    /\ slot' = FALSE
    /\ IF polling THEN owner' = "read" /\ UNCHANGED sender
       ELSE owner' = "failed" /\ sender' = FALSE
    /\ UNCHANGED <<optionVars, systemVars, full, thread, readVars>>

\* What a read saw of settings written meanwhile is anybody's guess.
Copied ==
    /\ behind' \in {{}, behind}
    /\ fresh => behind' = {}

InitialRead ==
    /\ owner = "read"
    /\ \/ owner' = "spawn" /\ failed' = FALSE /\ Copied
       \/ owner' = "unregister" /\ failed' = TRUE /\ UNCHANGED behind
    /\ fresh' = TRUE
    /\ UNCHANGED <<optionVars, systemVars, wakeVars, thread>>

Spawn ==
    /\ owner = "spawn"
    /\ \/ owner' = "ready" /\ thread' = "read"
       \/ owner' = "unregister" /\ UNCHANGED thread
    /\ UNCHANGED <<optionVars, systemVars, wakeVars, readVars>>

PollNow ==
    /\ owner = "ready"
    /\ Sent
    /\ UNCHANGED <<optionVars, owner, systemVars, slot, sender, thread, readVars>>

\* Drop: unregister, unfile, drop the watcher's sender, join, in the order in
\* which the fields are declared.
StartDrop ==
    /\ owner = "ready"
    /\ owner' = "unregister"
    /\ UNCHANGED <<optionVars, systemVars, wakeVars, thread, readVars>>

\* Unregistering does not wait for a callback; on Android it may even fail, and
\* nobody looks.
Unregister ==
    /\ owner = "unregister"
    /\ \/ registered' = FALSE /\ announced' \in {announced, FALSE}
       \/ android /\ UNCHANGED systemVars
    /\ owner' = "unfile"
    /\ UNCHANGED <<optionVars, wakeVars, thread, readVars>>

Unfile ==
    /\ owner = "unfile"
    /\ slot' = FALSE
    /\ owner' = "hang up"
    /\ UNCHANGED <<optionVars, systemVars, sender, full, thread, readVars>>

HangUp ==
    /\ owner = "hang up"
    /\ sender' = FALSE
    /\ owner' = "join"
    /\ UNCHANGED <<optionVars, systemVars, slot, full, thread, readVars>>

Join ==
    /\ owner = "join"
    /\ thread \in {"unborn", "ended"}
    /\ owner' = "dropped"
    /\ UNCHANGED <<optionVars, systemVars, wakeVars, thread, readVars>>

-----------------------------------------------------------------------------
(* The thread.                                                             *)

Waiting == thread \in {"wait", "window"}

\* A reader that clears the channel when it is done.
PublishAndDrain ==
    /\ thread = "read"
    /\ \/ failed' = FALSE /\ Copied
       \/ failed' = TRUE /\ UNCHANGED behind
    /\ fresh' = TRUE
    /\ thread' = "wait"
    /\ full' = FALSE
    /\ UNCHANGED <<optionVars, owner, systemVars, slot, sender>>

Publish ==
    /\ thread = "read"
    /\ \/ failed' = FALSE /\ Copied
       \/ failed' = TRUE /\ UNCHANGED behind
    /\ fresh' = TRUE
    /\ thread' = "wait"
    /\ UNCHANGED <<optionVars, owner, systemVars, wakeVars>>

Receive ==
    /\ Waiting
    /\ full
    /\ full' = FALSE
    /\ thread' = "window"
    /\ UNCHANGED <<optionVars, owner, systemVars, slot, sender, readVars>>

Timeout ==
    /\ thread = "wait"
    /\ polling /\ ~full /\ (slot \/ sender)
    /\ thread' = "read"
    /\ UNCHANGED <<optionVars, owner, systemVars, wakeVars, readVars>>

\* The deadline is looked at before each receive, whatever is queued.
WindowCloses ==
    /\ thread = "window"
    /\ thread' = "read"
    /\ UNCHANGED <<optionVars, owner, systemVars, wakeVars, readVars>>

Disconnected ==
    /\ Waiting
    /\ ~full /\ ~slot /\ ~sender
    /\ thread' = "ended"
    /\ UNCHANGED <<optionVars, owner, systemVars, wakeVars, readVars>>

-----------------------------------------------------------------------------
Construct == Arm \/ FileSlot \/ Register \/ RegisterFails \/ InitialRead \/ Spawn

Drop == Unregister \/ Unfile \/ HangUp \/ Join

Run == Publish \/ Receive \/ Timeout \/ WindowCloses \/ Disconnected

Next ==
    \/ Write
    \/ Hint
    \/ Callback
    \/ Construct
    \/ PollNow
    \/ StartDrop
    \/ Drop
    \/ Run

-----------------------------------------------------------------------------
(* Properties.                                                             *)

\* Every variable keeps the type of what it models; a watcher that is gone has
\* left no sender in the registry, which outlives it.
TypeOK ==
    /\ owner \in {"failed", "dropped"} => ~slot /\ ~sender
    /\ owner \in {"arm", "file", "register", "read", "spawn", "ready", "unregister",
                  "unfile", "hang up", "join", "failed", "dropped"}
    /\ thread \in {"unborn", "read", "wait", "window", "ended"}
    /\ behind \in SUBSET Stores
    /\ \A flag \in {android, polling, registered, announced, slot, sender, full,
                    fresh, failed} : flag \in BOOLEAN

InFlight ==
    \/ (announced /\ slot) \/ full
    \/ thread \in {"read", "window"}
    \/ owner \in {"arm", "file", "register", "read"}

\* A broadcast is announced to the slot; a hint promises nothing.
LiveStores == IF android /\ registered /\ slot THEN Stores ELSE {}
Noticed == InFlight /\ owner # "failed"

Due == IF owner = "ready" THEN Stores ELSE {}

\* Drop has been called and has not returned.
Dropping == owner \in {"unregister", "unfile", "hang up", "join"}
=============================================================================
