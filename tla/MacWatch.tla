------------------------------ MODULE MacWatch ------------------------------
(***************************************************************************)
(* The macOS backend, src/src/sys/mac/notify.rs: a thread in a CFRunLoop   *)
(* with two sources, the wake source of the owner (whose signal stays set  *)
(* until the loop handles it) and the SCDynamicStore subscription (whose   *)
(* callback only sets `changed`, on the thread, inside run_in_mode).       *)
(*                                                                         *)
(* The owner sets a flag and then signals, in two steps; the thread tests  *)
(* the flags after the run loop returns and clears them before it reads.   *)
(***************************************************************************)
EXTENDS Integers

CONSTANTS
    Stores,         \* what is read, all of it at once: the proxies dictionary
    MaxRetries      \* REGISTRATION_MAX_RETRIES (5 in the code)

VARIABLES
    polling,        \* WatchOptions::poll_interval is set
    owner,          \* where the constructor, poll_now or Drop is
    stop,           \* the flag Drop sets
    pollRequested,  \* the flag poll_now sets
    asked,          \* no read has begun since poll_now set it (history)
    wake,           \* the wake source is signalled and not handled yet
    notified,       \* the system has a notification for the run loop
    changed,        \* what on_change sets
    attempt,        \* failed registrations so far
    subscribed,     \* the system delivers notifications to the run loop
    thread,         \* where the thread is
    fresh,          \* nothing was written since the read under way began
    behind,         \* Stores when they were written since they were published
    failed          \* the newest read failed

ownerVars  == <<polling, owner, stop, pollRequested, asked>>
systemVars == <<wake, notified, changed, subscribed>>
threadVars == <<thread, attempt>>
readVars   == <<fresh, behind, failed>>
vars == <<ownerVars, systemVars, threadVars, readVars>>

\* The places after which the thread holds no registration any more.
Ended == {"unborn", "refused", "stopped"}

Init ==
    /\ polling \in BOOLEAN
    /\ owner = "read"
    /\ stop = FALSE
    /\ pollRequested = FALSE
    /\ asked = FALSE
    /\ wake = FALSE
    /\ notified = FALSE
    /\ changed = FALSE
    /\ attempt = 0
    /\ subscribed = FALSE
    /\ thread = "unborn"
    /\ fresh = TRUE
    /\ behind = Stores
    /\ failed = FALSE

-----------------------------------------------------------------------------
(* The system.                                                             *)

Reading == owner = "read" \/ thread \in {"open", "reread"}

Write ==
    /\ behind' = Stores
    /\ fresh' = (fresh /\ ~Reading)
    /\ notified' = (notified \/ subscribed)
    /\ UNCHANGED <<ownerVars, wake, changed, subscribed, threadVars, failed>>

-----------------------------------------------------------------------------
(* The owner.                                                              *)

\* What a read saw of a store that was written meanwhile is anybody's guess.
Copied ==
    /\ behind' \in {{}, behind}
    /\ fresh => behind' = {}

InitialRead ==
    /\ owner = "read"
    /\ \/ owner' = "spawn" /\ failed' = FALSE /\ Copied
       \/ owner' = "give up" /\ failed' = TRUE /\ UNCHANGED behind
    /\ fresh' = TRUE
    /\ UNCHANGED <<polling, stop, pollRequested, asked, systemVars, threadVars>>

\* Starting the thread may fail; otherwise the constructor waits for it.
Spawn ==
    /\ owner = "spawn"
    /\ \/ owner' = "handshake" /\ thread' = "register"
       \/ owner' = "give up" /\ UNCHANGED thread
    /\ UNCHANGED <<polling, stop, pollRequested, asked, systemVars, attempt, readVars>>

Handshake ==
    /\ owner = "handshake"
    /\ thread # "register"
    /\ owner' = IF thread = "refused" THEN "give up" ELSE "ready"
    /\ UNCHANGED <<polling, stop, pollRequested, asked, systemVars, threadVars, readVars>>

\* poll_now: the flag, and then the signal.
PollNow ==
    /\ \/ owner = "ready" /\ pollRequested' = TRUE /\ owner' = "asking"
          /\ asked' = TRUE /\ UNCHANGED wake
       \/ owner = "asking" /\ wake' = TRUE /\ owner' = "ready"
          /\ UNCHANGED <<pollRequested, asked>>
    /\ UNCHANGED <<polling, stop, notified, changed, subscribed, threadVars, readVars>>

\* Drop, likewise: also of a watcher that the constructor gives up.
Drop ==
    /\ \/ owner \in {"ready", "give up"} /\ stop' = TRUE /\ owner' = "stopping"
          /\ UNCHANGED wake
       \/ owner = "stopping" /\ wake' = TRUE /\ owner' = "join" /\ UNCHANGED stop
    /\ UNCHANGED <<polling, pollRequested, asked, notified, changed, subscribed,
                   threadVars, readVars>>

Join ==
    /\ owner = "join"
    /\ thread \in Ended
    /\ owner' = "dropped"
    /\ UNCHANGED <<polling, stop, pollRequested, asked, systemVars, threadVars, readVars>>
-----------------------------------------------------------------------------
(* The thread.                                                             *)

MayRetry == attempt < MaxRetries

Retry ==
    /\ thread = "register"
    /\ MayRetry
    /\ attempt' = attempt + 1
    /\ UNCHANGED <<ownerVars, systemVars, thread, readVars>>

Subscribe ==
    /\ thread = "register"
    /\ subscribed' = TRUE
    /\ thread' = "open"
    /\ UNCHANGED <<ownerVars, wake, notified, changed, attempt, readVars>>

\* Out of retries, or no run loop source: fatal unless a timer polls.
GiveUpSubscribing ==
    /\ thread = "register"
    /\ thread' = IF polling THEN "open" ELSE "refused"
    /\ UNCHANGED <<ownerVars, systemVars, attempt, readVars>>

\* `while !stop`; the registration goes with the thread.
Stopping ==
    /\ thread' = "stopped"
    /\ subscribed' = FALSE
    /\ notified' = FALSE

LoopTop ==
    /\ thread = "top"
    /\ IF stop THEN Stopping ELSE thread' = "run" /\ UNCHANGED <<subscribed, notified>>
    /\ UNCHANGED <<ownerVars, wake, changed, attempt, readVars>>

\* run_in_mode handles what is pending, one source or both, and returns.
Handled ==
    \/ wake /\ wake' = FALSE /\ UNCHANGED <<notified, changed>>
    \/ notified /\ notified' = FALSE /\ changed' = TRUE /\ wake' \in {wake, FALSE}

RunLoop ==
    /\ thread = "run"
    /\ Handled
    /\ thread' = "check"
    /\ UNCHANGED <<ownerVars, subscribed, attempt, readVars>>

\* A timeout that is not told from a spurious wake.
PollTimeoutIgnored ==
    /\ thread = "run"
    /\ polling /\ ~wake /\ ~notified
    /\ thread' = "check"
    /\ UNCHANGED <<ownerVars, systemVars, attempt, readVars>>

\* Nothing pending for the poll interval, or for the hour of IDLE_WAIT.
PollTimeout ==
    /\ thread = "run"
    /\ polling /\ ~wake /\ ~notified
    /\ thread' = "polled"
    /\ UNCHANGED <<ownerVars, systemVars, attempt, readVars>>

IdleTimeout ==
    /\ thread = "run"
    /\ ~polling /\ ~wake /\ ~notified
    /\ thread' = "check"
    /\ UNCHANGED <<ownerVars, systemVars, attempt, readVars>>

Check ==
    /\ thread \in {"check", "polled"}
    /\ IF stop THEN Stopping
       ELSE /\ thread' = IF changed \/ pollRequested \/ thread = "polled"
                           THEN "window" ELSE "top"
            /\ UNCHANGED <<subscribed, notified>>
    /\ UNCHANGED <<ownerVars, wake, changed, attempt, readVars>>

\* A wake inside the debounce window only costs a look at `stop`.
WindowWake ==
    /\ thread = "window"
    /\ ~stop
    /\ Handled
    /\ UNCHANGED <<ownerVars, subscribed, threadVars, readVars>>

WindowStops ==
    /\ thread = "window"
    /\ stop
    /\ Stopping
    /\ wake' = FALSE
    /\ UNCHANGED <<ownerVars, changed, attempt, readVars>>

\* The deadline of the window, whatever is pending; cleared before the read.
WindowCloses ==
    /\ thread = "window"
    /\ thread' = "reread"
    /\ changed' = FALSE
    /\ pollRequested' = FALSE
    /\ asked' = FALSE
    /\ UNCHANGED <<polling, owner, stop, wake, notified, subscribed, attempt, readVars>>

\* What was asked for during the read is taken for answered by it.
PublishThenClear ==
    /\ thread \in {"open", "reread"}
    /\ \/ failed' = FALSE /\ Copied
       \/ failed' = TRUE /\ UNCHANGED behind
    /\ fresh' = TRUE
    /\ thread' = "top"
    /\ pollRequested' = FALSE
    /\ UNCHANGED <<polling, owner, stop, asked, systemVars, attempt>>

Publish ==
    /\ thread \in {"open", "reread"}
    /\ \/ failed' = FALSE /\ Copied
       \/ failed' = TRUE /\ UNCHANGED behind
    /\ fresh' = TRUE
    /\ thread' = "top"
    /\ UNCHANGED <<ownerVars, systemVars, attempt>>

-----------------------------------------------------------------------------
Construct == InitialRead \/ Spawn \/ Handshake

Run ==
    \/ Retry \/ Subscribe \/ GiveUpSubscribing
    \/ LoopTop \/ RunLoop \/ PollTimeout \/ Check
    \/ WindowWake \/ WindowStops \/ WindowCloses
    \/ Publish

Next ==
    \/ Write
    \/ Construct
    \/ PollNow
    \/ Drop
    \/ Join
    \/ Run
    \/ IdleTimeout

-----------------------------------------------------------------------------
(* Properties.                                                             *)

\* Every variable keeps the type of what it models; the registration is not
\* tried again more than MaxRetries times.
TypeOK ==
    /\ owner \in {"read", "spawn", "handshake", "ready", "asking", "give up",
                  "stopping", "join", "dropped"}
    /\ thread \in {"register", "open", "top", "run", "check", "polled", "window",
                   "reread"} \union Ended
    /\ attempt \in 0..MaxRetries
    /\ behind \in SUBSET Stores
    /\ \A flag \in {polling, stop, pollRequested, asked, wake, notified, changed,
                    subscribed, fresh, failed} : flag \in BOOLEAN

InFlight ==
    \/ notified \/ changed \/ pollRequested
    \/ thread \in {"open", "polled", "window", "reread"}
    \/ owner \in {"read", "spawn", "handshake"}

\* What changed between the read of the constructor and the subscription is
\* covered by the opening read.
LiveStores == IF subscribed THEN Stores ELSE {}
Noticed == InFlight /\ thread # "stopped"

\* The copy is due whether the subscription holds or a timer stands in for it.
Due == IF owner \in {"ready", "asking"} THEN Stores ELSE {}

\* Drop has been called and has not returned.
Dropping == owner \in {"give up", "stopping", "join"}
=============================================================================
