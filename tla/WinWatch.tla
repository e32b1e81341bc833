------------------------------ MODULE WinWatch ------------------------------
(***************************************************************************)
(* The Windows backend, src/src/sys/win/notify.rs: one thread that waits   *)
(* on an array of events (shutdown, poll_now, one per watched key) and     *)
(* re-reads the registry after a debounce window.                          *)
(*                                                                         *)
(* RegNotifyChangeKeyValue reports one change per registration, so a key   *)
(* is deaf from its notification until the thread re-arms it; the events   *)
(* are auto-reset, so a wait that returns one consumes it.  A handle to a  *)
(* deleted key can never be armed again.                                   *)
(***************************************************************************)
EXTENDS Integers, Sequences, SequencesExt, FiniteSets

CONSTANTS
    Keys,           \* the keys that can be watched, in the order of `watched`
    UserKey,        \* HKCU Internet Settings, the critical one
    Policy,         \* the group policy ancestor, watched on request
    Nothing         \* no key, no health recorded

Stores == Range(Keys)

ASSUME KeysAssumption == Keys \in Seq(Stores) /\ IsInjective(Keys)
ASSUME UserKeyAssumption == UserKey \in Stores /\ Policy # UserKey
ASSUME NothingAssumption == Nothing \notin Stores

VARIABLES
    \* the caller's options
    polling,        \* WatchOptions::poll_interval is set
    policyWanted,   \* WatchOptions::watch_group_policy
    \* the owner
    owner,          \* where the constructor or Drop is
    toArm,          \* the keys `armed` has yet to try
    constructed,    \* construction_degraded
    live0,          \* live_at_construction is not zero
    \* the registry
    deleted,        \* keys whose open handle is dead
    armed,          \* keys with a registration outstanding
    \* the events
    shutdown, pollNow,
    signaled,       \* keys whose event is set
    \* the thread
    thread,         \* where the thread is
    woken,          \* the key it is about to re-arm
    alive,          \* the keys that are watched and not known to be dead
    fatal,          \* a re-arm failure that is to end the loop
    owed,           \* what was outdated when that failure was met (history)
    \* the copy, and the health in Shared
    fresh,          \* stores not written since the read under way began
    behind,         \* stores written since they were last published
    failed,         \* the newest read failed
    degraded,       \* Shared: runtime_degraded
    dark            \* Shared: runtime_no_live_notifications

optionVars == <<polling, policyWanted>>
ownerVars  == <<owner, toArm, constructed, live0>>
eventVars  == <<shutdown, pollNow, signaled>>
threadVars == <<thread, woken, alive, fatal, owed>>
readVars   == <<fresh, behind, failed>>
healthVars == <<degraded, dark>>
vars == <<optionVars, ownerVars, deleted, armed, eventVars, threadVars,
          readVars, healthVars>>

Ended == {"shut down", "wait failed", "rearm failed"}

Init ==
    /\ polling \in BOOLEAN
    /\ policyWanted \in BOOLEAN
    /\ owner = "arm"
    /\ toArm = IF policyWanted THEN Stores ELSE Stores \ {Policy}
    /\ constructed = {}
    /\ live0 = FALSE
    /\ deleted \in SUBSET Stores
    /\ armed = {}
    /\ shutdown = FALSE
    /\ pollNow = FALSE
    /\ signaled = {}
    /\ thread = "unborn"
    /\ woken = Nothing
    /\ alive = {}
    /\ fatal = FALSE
    /\ owed = {}
    /\ fresh = Stores
    /\ behind = Stores
    /\ failed = FALSE
    /\ degraded = {}
    /\ dark = FALSE

First(keys) == Keys[Min({i \in DOMAIN Keys : Keys[i] \in keys})]

\* watch_fail_soft: fatal for the leading route when nothing polls.
Fatal(leading) == leading /\ ~polling

-----------------------------------------------------------------------------
(* The registry changes.                                                   *)

Reading == owner = "read" \/ thread = "read"

\* A write under a key uses up its registration.
Changes(k) ==
    /\ behind' = behind \union {k}
    /\ fresh' = IF Reading THEN fresh \ {k} ELSE fresh
    /\ armed' = armed \ {k}
    /\ signaled' = IF k \in armed THEN signaled \union {k} ELSE signaled
    /\ UNCHANGED <<optionVars, ownerVars, shutdown, pollNow, threadVars, failed,
                   healthVars>>

Write(k) == Changes(k) /\ UNCHANGED deleted

\* Deleting a key notifies too; the one created in its place is another key.
Delete(k) == k \notin deleted /\ deleted' = deleted \union {k} /\ Changes(k)

-----------------------------------------------------------------------------
(* Construction.                                                           *)

\* A key that does not exist degrades, whichever it is; failing to open or arm
\* the user's key is fatal without polling, and degrades otherwise.
ArmKey ==
    /\ owner = "arm"
    /\ toArm # {}
    /\ LET k == First(toArm) IN
         /\ toArm' = toArm \ {k}
         /\ \/ /\ k \notin deleted
               /\ armed' = armed \union {k}
               /\ alive' = alive \union {k}
               /\ UNCHANGED <<owner, constructed>>
            \/ /\ k \in deleted \/ ~Fatal(k = UserKey)
               /\ constructed' = constructed \union {k}
               /\ UNCHANGED <<owner, armed, alive>>
            \/ /\ k \notin deleted /\ Fatal(k = UserKey)
               /\ owner' = "failed"
               /\ UNCHANGED <<constructed, armed, alive>>
    /\ UNCHANGED <<optionVars, live0, deleted, eventVars, thread, woken, fatal,
                   owed, readVars, healthVars>>

ArmedAll ==
    /\ owner = "arm"
    /\ toArm = {}
    /\ live0' = (alive # {})
    /\ owner' = "read"
    /\ UNCHANGED <<optionVars, toArm, constructed, deleted, armed, eventVars,
                   threadVars, readVars, healthVars>>

\* A read looks at one store after another: a store written since it began may
\* have been looked at before the write or after it.
Copied(stores) ==
    /\ fresh \subseteq stores
    /\ behind' = behind \ stores

InitialRead ==
    /\ owner = "read"
    /\ \/ /\ owner' = "spawn"
          /\ failed' = FALSE
          /\ \E stores \in SUBSET Stores : Copied(stores)
       \/ owner' = "drop" /\ failed' = TRUE /\ UNCHANGED behind
    /\ fresh' = Stores
    /\ UNCHANGED <<optionVars, toArm, constructed, live0, deleted, armed,
                   eventVars, threadVars, healthVars>>

\* The thread may fail to start; otherwise the constructor records the health.
Spawn ==
    /\ owner = "spawn"
    /\ \/ owner' = "ready" /\ thread' = "wait"
       \/ owner' = "drop" /\ UNCHANGED thread
    /\ UNCHANGED <<optionVars, toArm, constructed, live0, deleted, armed,
                   eventVars, woken, alive, fatal, owed, readVars, healthVars>>

PollNow ==
    /\ owner = "ready"
    /\ pollNow' = TRUE
    /\ UNCHANGED <<optionVars, ownerVars, deleted, armed, shutdown, signaled,
                   threadVars, readVars, healthVars>>

StartDrop ==
    /\ owner \in {"ready", "drop"}
    /\ owner' = "join"
    /\ shutdown' = TRUE
    /\ UNCHANGED <<optionVars, toArm, constructed, live0, deleted, armed, pollNow,
                   signaled, threadVars, readVars, healthVars>>

Join ==
    /\ owner = "join"
    /\ thread \in Ended \union {"unborn"}
    /\ owner' = "dropped"
    /\ UNCHANGED <<optionVars, toArm, constructed, live0, deleted, armed,
                   eventVars, threadVars, readVars, healthVars>>

-----------------------------------------------------------------------------
(* The thread.  Both waits report the lowest signalled handle.             *)

Waiting == thread \in {"wait", "window"}

ThreadOnly == UNCHANGED <<optionVars, ownerVars, deleted, shutdown>>

WakeShutdown ==
    /\ Waiting
    /\ shutdown
    /\ thread' = "shut down"
    /\ UNCHANGED <<armed, pollNow, signaled, woken, alive, fatal, owed, readVars,
                   healthVars>>
    /\ ThreadOnly

WakePollNow ==
    /\ Waiting
    /\ ~shutdown
    /\ pollNow
    /\ pollNow' = FALSE
    /\ thread' = "window"
    /\ UNCHANGED <<armed, signaled, woken, alive, fatal, owed, readVars, healthVars>>
    /\ ThreadOnly

\* A wait over handles in no order: a busy key hides the shutdown.
WakeAnyKey ==
    /\ Waiting
    /\ signaled # {}
    /\ woken' = First(signaled)
    /\ signaled' = signaled \ {woken'}
    /\ thread' = "rearm"
    /\ UNCHANGED <<armed, pollNow, alive, fatal, owed, readVars, healthVars>>
    /\ ThreadOnly

WakeKey ==
    /\ Waiting
    /\ ~shutdown /\ ~pollNow
    /\ signaled # {}
    /\ woken' = First(signaled)
    /\ signaled' = signaled \ {woken'}
    /\ thread' = "rearm"
    /\ UNCHANGED <<armed, pollNow, alive, fatal, owed, readVars, healthVars>>
    /\ ThreadOnly

\* The outer timeout is the poll interval, the inner one the debounce window.
WakeTimeout ==
    /\ \/ thread = "wait" /\ polling /\ ~shutdown /\ ~pollNow /\ signaled = {}
          /\ thread' = "window"
       \/ thread = "window" /\ thread' = "read"
    /\ UNCHANGED <<armed, pollNow, signaled, woken, alive, fatal, owed, readVars,
                   healthVars>>
    /\ ThreadOnly

WaitFails ==
    /\ Waiting
    /\ thread' = "wait failed"
    /\ UNCHANGED <<armed, pollNow, signaled, woken, alive, fatal, owed, readVars,
                   healthVars>>
    /\ ThreadOnly

\* All dead is asked before this death is counted.
RearmCountsLate ==
    /\ ~Fatal(woken = UserKey)
    /\ alive' = alive \ {woken}
    /\ degraded' = degraded \union {woken}
    /\ dark' = (dark \/ alive = {})
    /\ UNCHANGED <<armed, fatal, owed>>

\* rearm: the route of a key that cannot be armed again is dead, and the last
\* one takes the watcher's liveness with it; a fatal failure waits for the read.
RearmSucceeds ==
    /\ woken \notin deleted
    /\ armed' = armed \union {woken}
    /\ UNCHANGED <<alive, fatal, owed, healthVars>>

RearmDegrades ==
    /\ ~Fatal(woken = UserKey)
    /\ alive' = alive \ {woken}
    /\ degraded' = degraded \union {woken}
    /\ dark' = (dark \/ alive' = {})
    /\ UNCHANGED <<armed, fatal, owed>>

RearmIsFatal ==
    /\ Fatal(woken = UserKey)
    /\ fatal' = TRUE
    /\ owed' = owed \union behind
    /\ UNCHANGED <<armed, alive, healthVars>>

\* A loop that gives up the moment it cannot re-arm.
RearmOrLeave ==
    /\ thread = "rearm"
    /\ RearmSucceeds \/ RearmDegrades \/ RearmIsFatal
    /\ thread' = IF fatal' THEN "rearm failed" ELSE "window"
    /\ woken' = Nothing
    /\ UNCHANGED <<pollNow, signaled, readVars>>
    /\ ThreadOnly

Rearm ==
    /\ thread = "rearm"
    /\ RearmSucceeds \/ RearmDegrades \/ RearmIsFatal
    /\ thread' = "window"
    /\ woken' = Nothing
    /\ UNCHANGED <<pollNow, signaled, readVars>>
    /\ ThreadOnly

\* Emit what was read, or report the failure.  The read began after the failed
\* re-arm, so it covers whatever was outdated then.
Publish ==
    /\ thread = "read"
    /\ \/ failed' = FALSE /\ \E stores \in SUBSET Stores : Copied(stores)
       \/ failed' = TRUE /\ UNCHANGED behind
    /\ owed' = {}
    /\ fresh' = Stores
    /\ thread' = IF fatal THEN "leave" ELSE "wait"
    /\ UNCHANGED <<armed, pollNow, signaled, woken, alive, fatal, healthVars>>
    /\ ThreadOnly

Leave ==
    /\ thread = "leave"
    /\ thread' = "rearm failed"
    /\ UNCHANGED <<armed, pollNow, signaled, woken, alive, fatal, owed, readVars,
                   healthVars>>
    /\ ThreadOnly

-----------------------------------------------------------------------------
Environment == \E k \in Stores : Write(k) \/ Delete(k)

Construct == ArmKey \/ ArmedAll \/ InitialRead \/ Spawn

Run == WakeShutdown \/ WakePollNow \/ WakeKey \/ WakeTimeout \/ Rearm \/ Publish \/ Leave

Next ==
    \/ Environment
    \/ Construct
    \/ PollNow
    \/ StartDrop
    \/ Join
    \/ Run
    \/ WaitFails

-----------------------------------------------------------------------------
(* Properties.                                                             *)

\* Every variable keeps the type of what it models; a key has a registration
\* outstanding or its event set, never both.
TypeOK ==
    /\ owner \in {"arm", "read", "spawn", "ready", "drop", "join", "failed", "dropped"}
    /\ thread \in {"unborn", "wait", "rearm", "window", "read", "leave"} \union Ended
    /\ woken \in Stores \union {Nothing}
    /\ \A keys \in {toArm, constructed, deleted, armed, signaled, alive, owed,
                    fresh, behind, degraded} : keys \subseteq Stores
    /\ \A flag \in {polling, policyWanted, live0, shutdown, pollNow, fatal, failed,
                    dark} : flag \in BOOLEAN
    /\ armed \intersect signaled = {}

InFlight ==
    \/ signaled # {} \/ pollNow
    \/ thread \in {"rearm", "window", "read", "leave"}
    \/ owner \in {"arm", "read"}

Stopped == thread \in Ended \/ owner \in {"failed", "dropped"}

\* A change made while a key was deaf is covered by the read that follows.
LiveStores == IF Stopped THEN {} ELSE alive
Noticed == InFlight /\ ~Stopped

\* While the thread waits, every key that was asked for and can no longer
\* notify is listed as degraded, and has_live_notifications says whether one
\* is left that can.
RoutesAreTold ==
    /\ TypeOK
    /\ owner = "ready" /\ thread = "wait" =>
        LET deaf == Stores \ (armed \union signaled) IN
        /\ \A k \in deaf : k \in constructed \union degraded
                              \/ (k = Policy /\ ~policyWanted)
        /\ (live0 /\ ~dark) <=> deaf # Stores

\* "after one last read, since the notification that failed to re-arm had
\* already announced a change": a loop that ends over a re-arm has re-read
\* what was outdated then.
LastReadFirst == thread = "rearm failed" => owed = {}

\* What is due to the copy once the registry is left alone: every store that has
\* a live route, or all of them on a timer.
Due == IF owner = "ready" /\ ~Stopped THEN IF polling THEN Stores ELSE alive ELSE {}

\* Drop has been called and has not returned.
Dropping == owner = "join"
=============================================================================
