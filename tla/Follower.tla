------------------------------ MODULE Follower ------------------------------
(***************************************************************************)
(* What every backend promises: a copy that follows the operating system's *)
(* settings.  The settings live in several stores, each with a             *)
(* notification route that may be live or not; a backend that has been     *)
(* notified re-reads all of them, in its own time, and publishes what it   *)
(* read.  Values do not matter here, only whether a store was written      *)
(* since the read that the copy came from.                                 *)
(***************************************************************************)
CONSTANT Stores     \* the places a configuration is read from

VARIABLES
    behind,         \* the stores written since they were last copied
    live,           \* the stores whose next write will be noticed
    noticed,        \* a re-read is owed, or under way
    failed          \* the newest re-read failed, and left the copy alone

followVars == <<behind, live, noticed, failed>>

\* Before the first read nothing has been copied yet.
Init ==
    /\ behind = Stores
    /\ live = {}
    /\ noticed = TRUE
    /\ failed = FALSE

Owed == noticed' = TRUE

Write(s) ==
    /\ behind' = behind \union {s}
    /\ IF s \in live THEN Owed ELSE noticed' = noticed
    /\ UNCHANGED <<live, failed>>

\* A route that comes up after its store was written owes a read for the gap.
Attach(s) ==
    /\ live' = live \union {s}
    /\ IF s \in behind THEN Owed ELSE noticed' \in {noticed, TRUE}
    /\ UNCHANGED <<behind, failed>>

\* A store goes away, and its route with it: that much is still noticed.
Lose(s) ==
    /\ live' = live \ {s}
    /\ behind' = behind \union {s}
    /\ IF s \in live THEN Owed ELSE noticed' = noticed
    /\ UNCHANGED failed

\* Routes are taken down by their owner, who may forget what they reported.
Detach ==
    /\ live' \subseteq live
    /\ \/ noticed' = noticed
       \/ noticed' = FALSE /\ (behind \intersect live' = {} \/ failed)
    /\ UNCHANGED <<behind, failed>>

\* Anybody may ask for a re-read, and nobody has to be answered when every
\* write a live route could report has been copied.
Ask == Owed /\ UNCHANGED <<behind, live, failed>>

Settle ==
    /\ behind \intersect live = {} \/ failed
    /\ noticed' = FALSE
    /\ UNCHANGED <<behind, live, failed>>

\* Publish what was read.  What a live route reported in the meantime is not
\* forgotten: another re-read is owed for it.
Publish ==
    /\ noticed
    /\ behind' \subseteq behind
    /\ failed' = FALSE
    /\ noticed' \in BOOLEAN
    /\ ~noticed' => behind' \intersect live = {}
    /\ UNCHANGED live

PublishFailure ==
    /\ noticed
    /\ failed' = TRUE
    /\ noticed' \in BOOLEAN
    /\ UNCHANGED <<behind, live>>

Next ==
    \/ \E s \in Stores : Write(s) \/ Attach(s) \/ Lose(s)
    \/ Detach
    \/ Ask
    \/ Settle
    \/ Publish
    \/ PublishFailure

Spec == Init /\ [][Next]_followVars

\* `behind` and `live` are sets of stores, the other two are flags.
FollowTypeOK ==
    /\ behind \in SUBSET Stores
    /\ live \in SUBSET Stores
    /\ noticed \in BOOLEAN
    /\ failed \in BOOLEAN

\* When no re-read is owed and the newest one did not fail, the copy is right
\* about every store whose route is live: a notification is not lost between
\* two reads, nor while a route comes up.
SettledIsCurrent == ~noticed /\ ~failed => behind \intersect live = {}

FollowInv == FollowTypeOK /\ SettledIsCurrent
=============================================================================
