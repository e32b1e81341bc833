---------------------------- MODULE BackendProofs ----------------------------
(***************************************************************************)
(* Every backend of one thread follows the settings, for any keys of the   *)
(* registry and any number of retries, and the Windows backend tells which *)
(* routes it lost and reads once more before it ends.                      *)
(*                                                                         *)
(* A step of a backend is, for Follower, one of a few kinds; what is to be *)
(* shown of each is that no change a live route reported is forgotten.     *)
(***************************************************************************)
EXTENDS Backends, WellFoundedInduction, TLAPS

Follows == Follow!Next \/ UNCHANGED Follow!followVars

\* The stores of Follower behind its copy.
Behind == behind \cup Absent

-----------------------------------------------------------------------------
(* The kinds of steps.                                                     *)

\* A step that changes nothing Follower speaks of.
LEMMA Stutters ==
  ASSUME Behind' = Behind, BackendLive' = BackendLive, failed' = failed,
         BackendNoticed' = BackendNoticed
  PROVE  Follows
  BY DEF Follows, Follow!followVars, Behind

\* A store is written; if its route lives a read is owed.
LEMMA Writes ==
  ASSUME NEW s \in Stores \cup Settings,
         Behind' = Behind \cup {s}, BackendLive' = BackendLive, failed' = failed,
         s \in BackendLive => BackendNoticed' = TRUE,
         s \notin BackendLive => BackendNoticed' = BackendNoticed
  PROVE  Follows
  BY DEF Follows, Follow!Next, Follow!Write, Follow!Owed, Behind

\* A route comes up while a read is owed.
LEMMA Attaches ==
  ASSUME NEW s \in Stores \cup Settings,
         Behind' = Behind, BackendLive' = BackendLive \cup {s}, failed' = failed,
         BackendNoticed' = TRUE
  PROVE  Follows
  BY DEF Follows, Follow!Next, Follow!Attach, Follow!Owed, Behind

\* Routes are lost, and nothing a live one reported is forgotten.
LEMMA Detaches ==
  ASSUME Behind' = Behind, BackendLive' \subseteq BackendLive, failed' = failed,
         \/ BackendNoticed' = BackendNoticed
         \/ BackendNoticed' = FALSE /\ (Behind \cap BackendLive' = {} \/ failed)
  PROVE  Follows
  BY DEF Follows, Follow!Next, Follow!Detach, Behind

\* A read is owed for whatever reason.
LEMMA Asks ==
  ASSUME Behind' = Behind, BackendLive' = BackendLive, failed' = failed,
         BackendNoticed' = TRUE
  PROVE  Follows
  BY DEF Follows, Follow!Next, Follow!Ask, Follow!Owed, Behind

\* A read is published; what a live route reported during it owes another.
LEMMA Publishes ==
  ASSUME BackendNoticed, Behind' \subseteq Behind, failed' = FALSE,
         BackendLive' = BackendLive, BackendNoticed' \in BOOLEAN,
         ~BackendNoticed' => Behind' \cap BackendLive' = {}
  PROVE  Follows
  BY DEF Follows, Follow!Next, Follow!Publish, Behind

\* A failure is published.
LEMMA Fails ==
  ASSUME BackendNoticed, Behind' = Behind, failed' = TRUE,
         BackendLive' = BackendLive, BackendNoticed' \in BOOLEAN
  PROVE  Follows
  BY DEF Follows, Follow!Next, Follow!PublishFailure, Behind

-----------------------------------------------------------------------------
(* Windows: the invariant.                                                 *)

\* The type, flag by flag.
WinTypes ==
    /\ toArm \subseteq Stores /\ constructed \subseteq Stores /\ deleted \subseteq Stores
    /\ armed \subseteq Stores /\ signaled \subseteq Stores /\ alive \subseteq Stores
    /\ owed \subseteq Stores /\ fresh \subseteq Stores /\ behind \subseteq Stores
    /\ degraded \subseteq Stores
    /\ woken \in Stores \cup {Nothing}

WinFlags ==
    /\ polling \in BOOLEAN /\ policyWanted \in BOOLEAN /\ live0 \in BOOLEAN
    /\ shutdown \in BOOLEAN /\ pollNow \in BOOLEAN /\ fatal \in BOOLEAN
    /\ failed \in BOOLEAN /\ dark \in BOOLEAN

\* Who is where: the thread is spawned last, and joined before Drop returns.
WinPlaces ==
    /\ owner \in {"arm", "read", "spawn", "ready", "drop", "join", "failed", "dropped"}
    /\ thread \in {"unborn", "wait", "rearm", "window", "read", "leave"} \cup Ended
    /\ owner \in {"arm", "read", "spawn", "drop", "failed"} => thread = "unborn"
    /\ owner = "ready" => thread # "unborn"
    /\ owner = "dropped" => thread \in Ended \cup {"unborn"}

\* A key that is watched has a registration, or its event is set, or it is the
\* one that is being re-armed, or a fatal failure ends the loop over it.
WinKeys ==
    /\ armed \cap signaled = {} /\ toArm \cap alive = {}
    /\ armed \cup signaled \subseteq alive
    /\ thread = "rearm" => woken \in alive \ (armed \cup signaled)
    /\ thread # "rearm" => woken = Nothing
    /\ ~fatal => alive \subseteq armed \cup signaled \cup {woken}
    /\ fatal => thread \in {"window", "rearm", "read", "leave"} \cup Ended
    /\ thread = "leave" => fatal

\* What was written under a watched key during a read is signalled.
WinReads ==
    /\ ~Reading => fresh = Stores
    /\ Reading /\ ~fatal => alive \ fresh \subseteq signaled

\* A key that is not watched is told, and so is the last one to go.
WinHealth ==
    /\ toArm # {} => owner \in {"arm", "failed"}
    /\ owner # "failed" => \A k \in Stores \ alive :
        \/ k \in toArm \cup constructed \cup degraded
        \/ k = Policy /\ ~policyWanted
    /\ thread = "unborn" => ~dark
    /\ owner \notin {"arm", "failed"} => (live0 /\ ~dark <=> alive # {})

\* The loop that ends over a re-arm has published since.
WinOwed == thread \in {"leave", "rearm failed"} => owed = {}

WinInv ==
    /\ WinTypes /\ WinFlags /\ WinPlaces /\ WinKeys /\ WinReads /\ WinHealth /\ WinOwed

\* The type invariant of the model follows.
LEMMA WinTypeFollows == WinInv => TypeOK
  <1> SUFFICES ASSUME WinInv PROVE TypeOK
    OBVIOUS
  <1>1. \A keys \in {toArm, constructed, deleted, armed, signaled, alive, owed,
                     fresh, behind, degraded} : keys \subseteq Stores
    BY Zenon DEF WinInv, WinTypes
  <1>2. \A flag \in {polling, policyWanted, live0, shutdown, pollNow, fatal, failed,
                     dark} : flag \in BOOLEAN
    BY Zenon DEF WinInv, WinFlags
  <1> QED
    BY <1>1, <1>2, Zenon DEF WinInv, WinTypes, WinPlaces, WinKeys, TypeOK

\* The first of some keys is one of them: the least of their places exists.
LEMMA FirstIsOne ==
  ASSUME NEW keys \in SUBSET Stores, keys # {}
  PROVE  First(keys) \in keys
  <1> DEFINE places == {i \in DOMAIN Keys : Keys[i] \in keys}
             less == OpToRel(<, Nat)
  <1>1. places \subseteq Nat /\ places # {}
    BY KeysAssumption DEF Stores, Range
  <1>2. \E i \in places : \A j \in places : i <= j
    <2>1. IsWellFoundedOn(less, Nat)
      BY NatLessThanWellFounded
    <2>2. PICK i \in places : \A j \in places : <<j, i>> \notin less
      <3> HIDE DEF less, places
      <3> QED BY <1>1, <2>1, WFMin
    <2>3. \A j \in places : ~(j < i)
      BY <1>1, <2>2 DEF OpToRel
    <2>4. \A j \in places : i <= j
      <3> SUFFICES ASSUME NEW j \in places PROVE i <= j
        OBVIOUS
      <3>1. i \in Nat /\ j \in Nat BY <1>1
      <3>2. ~(j < i) BY <2>3
      <3> HIDE DEF places
      <3> QED BY <3>1, <3>2
    <2> QED BY <2>4, Zenon
  <1>3. Min(places) \in places
    BY <1>2 DEF Min
  <1> QED BY <1>3 DEF First


-----------------------------------------------------------------------------
(* Windows: every step keeps the invariant.                                *)

\* Before the first step nothing is watched.
LEMMA WinInvInit == Init => WinInv
  <1> SUFFICES ASSUME Init PROVE WinInv
    OBVIOUS
  <1>1. WinTypes /\ WinPlaces /\ WinKeys /\ WinReads /\ WinOwed
    BY DEF Init, WinTypes, WinPlaces, WinKeys, WinReads, WinOwed, Reading, Ended
  <1>2. WinFlags
    BY DEF Init, WinFlags
  <1>3. WinHealth
    BY DEF Init, WinHealth
  <1> QED BY <1>1, <1>2, <1>3 DEF WinInv

\* A write uses up a registration and sets its event.
LEMMA WinChanges ==
  ASSUME WinInv, NEW k \in Stores, Changes(k), deleted' \subseteq Stores
  PROVE  WinInv'
  <1> USE DEF WinInv
  <1> USE DEF Changes, optionVars, ownerVars, threadVars, healthVars
  <1>1. WinTypes' BY DEF WinTypes
  <1>2. WinFlags' BY DEF WinFlags
  <1>3. WinPlaces' BY DEF WinPlaces
  <1>4. WinKeys' BY DEF WinKeys
  <1>5. WinReads'
    <2>1. Reading' <=> Reading BY DEF Reading
    <2>2. CASE Reading
      <3>1. ~fatal => alive \subseteq armed \cup signaled
        BY <2>2, NothingAssumption DEF WinKeys, WinPlaces, Reading, WinTypes
      <3> QED BY <2>1, <2>2, <3>1, NothingAssumption DEF WinReads, WinTypes
    <2>3. CASE ~Reading BY <2>1, <2>3 DEF WinReads
    <2> QED BY <2>2, <2>3
  <1>6. WinHealth' BY DEF WinHealth
  <1>7. WinOwed' BY DEF WinOwed
  <1> QED BY <1>1, <1>2, <1>3, <1>4, <1>5, <1>6, <1>7

\* The constructor arms one key after another, and tells of those it cannot.
LEMMA WinArms ==
  ASSUME WinInv, ArmKey
  PROVE  WinInv'
  <1> DEFINE k == First(toArm)
  <1> USE DEF WinInv
  <1>1. k \in toArm /\ k \in Stores
    BY FirstIsOne DEF ArmKey, WinTypes
  <1> HIDE DEF k
  <1>2. /\ owner = "arm" /\ thread = "unborn" /\ ~fatal /\ woken = Nothing
        /\ toArm' = toArm \ {k}
        /\ \/ armed' = armed \cup {k} /\ alive' = alive \cup {k}
              /\ UNCHANGED <<owner, constructed>>
           \/ constructed' = constructed \cup {k} /\ UNCHANGED <<owner, armed, alive>>
           \/ owner' = "failed" /\ UNCHANGED <<constructed, armed, alive>>
        /\ UNCHANGED <<polling, policyWanted, live0, deleted, shutdown, pollNow, signaled,
                       thread, woken, fatal, owed, fresh, behind, failed, degraded, dark>>
    BY DEF ArmKey, k, WinPlaces, WinKeys, optionVars, eventVars, readVars, healthVars, Ended
  <1>3. WinTypes' BY <1>1, <1>2 DEF WinTypes
  <1>4. WinFlags' BY <1>2 DEF WinFlags
  <1>5. WinPlaces' BY <1>2 DEF WinPlaces
  <1>6. WinReads' BY <1>2 DEF WinReads, Reading
  <1>7. WinOwed' BY <1>2 DEF WinOwed
  <1>8. CASE owner' = "failed" /\ UNCHANGED <<constructed, armed, alive>>
    <2>1. WinKeys' BY <1>2, <1>8 DEF WinKeys
    <2>2. WinHealth' BY <1>2, <1>8 DEF WinHealth
    <2> QED BY <1>3, <1>4, <1>5, <1>6, <1>7, <2>1, <2>2
  <1>9. CASE armed' = armed \cup {k} /\ alive' = alive \cup {k}
                /\ UNCHANGED <<owner, constructed>>
    <2>1. WinKeys' BY <1>1, <1>2, <1>9 DEF WinKeys, WinTypes
    <2>2. WinHealth' BY <1>1, <1>2, <1>9 DEF WinHealth
    <2> QED BY <1>3, <1>4, <1>5, <1>6, <1>7, <2>1, <2>2
  <1>10. CASE constructed' = constructed \cup {k} /\ UNCHANGED <<owner, armed, alive>>
    <2>1. WinKeys' BY <1>2, <1>10 DEF WinKeys
    <2>2. WinHealth' BY <1>2, <1>10 DEF WinHealth
    <2> QED BY <1>3, <1>4, <1>5, <1>6, <1>7, <2>1, <2>2
  <1> QED BY <1>2, <1>8, <1>9, <1>10


\* The steps of the owner and of the thread that arm or lose no key.
LEMMA WinMoves ==
  ASSUME WinInv,
         \/ InitialRead \/ Spawn \/ PollNow \/ StartDrop \/ Join
         \/ WakeShutdown \/ WakePollNow \/ WakeTimeout \/ WaitFails \/ Publish \/ Leave
  PROVE  WinInv'
  <1> USE DEF WinInv, ThreadOnly, optionVars, ownerVars, eventVars, threadVars, readVars,
              healthVars
  <1>1. CASE InitialRead
    <2> USE <1>1 DEF InitialRead, Copied
    <2>1. thread = "unborn" /\ thread' = thread /\ owner' \in {"spawn", "drop"}
      BY DEF WinPlaces
    <2>2. WinTypes' /\ WinPlaces' BY <2>1 DEF WinTypes, WinPlaces
    <2>3. WinFlags' BY DEF WinFlags
    <2>4. WinKeys' BY DEF WinKeys
    <2>5. WinReads' BY <2>1 DEF WinReads, Reading
    <2>6. WinHealth' /\ WinOwed' BY <2>1 DEF WinHealth, WinOwed
    <2> QED BY <2>2, <2>3, <2>4, <2>5, <2>6
  <1>2. CASE Spawn
    <2> USE <1>2 DEF Spawn
    <2>1. WinTypes' /\ WinPlaces' BY DEF WinTypes, WinPlaces, Ended
    <2>2. WinFlags' BY DEF WinFlags
    <2>3. WinKeys' BY DEF WinKeys, WinPlaces, Ended
    <2>4. WinReads' BY DEF WinReads, Reading, WinPlaces
    <2>5. WinHealth' /\ WinOwed' BY DEF WinHealth, WinOwed, WinPlaces
    <2> QED BY <2>1, <2>2, <2>3, <2>4, <2>5
  <1>3. CASE PollNow \/ StartDrop \/ Join
    <2> USE <1>3 DEF PollNow, StartDrop, Join
    <2>1. WinTypes' /\ WinPlaces' BY DEF WinTypes, WinPlaces, Ended
    <2>2. WinFlags' BY DEF WinFlags
    <2>3. WinKeys' BY DEF WinKeys
    <2>4. WinReads' BY DEF WinReads, Reading, WinPlaces
    <2>5. /\ owner \notin {"arm", "failed"} /\ owner' \notin {"arm", "failed"}
          /\ UNCHANGED <<toArm, constructed, live0, policyWanted, thread, alive, owed,
                         degraded, dark>>
      OBVIOUS
    <2>6. WinHealth' /\ WinOwed' BY <2>5 DEF WinHealth, WinOwed
    <2> QED BY <2>1, <2>2, <2>3, <2>4, <2>6
  <1>4. CASE WakeShutdown \/ WakePollNow \/ WakeTimeout \/ WaitFails
    <2> USE <1>4 DEF WakeShutdown, WakePollNow, WakeTimeout, WaitFails, Waiting
    <2>1. thread \in {"wait", "window"} /\ owner \in {"ready", "join"}
          /\ thread' \in {"window", "read", "shut down", "wait failed"}
          /\ UNCHANGED <<optionVars, ownerVars, deleted, shutdown, armed, signaled, woken,
                         alive, fatal, owed, readVars, healthVars>>
      BY DEF WinPlaces, Ended
    <2>2. WinTypes' /\ WinPlaces' BY <2>1 DEF WinTypes, WinPlaces, Ended
    <2>3. WinFlags' BY DEF WinFlags
    <2>4. WinKeys' BY <2>1 DEF WinKeys, Ended
    <2>5. WinReads' BY <2>1 DEF WinReads, Reading, WinTypes
    <2>6. WinHealth' /\ WinOwed' BY <2>1 DEF WinHealth, WinOwed
    <2> QED BY <2>2, <2>3, <2>4, <2>5, <2>6
  <1>5. CASE Publish
    <2> USE <1>5 DEF Publish, Copied
    <2>1. /\ thread = "read" /\ owner \in {"ready", "join"} /\ fresh' = Stores /\ owed' = {}
          /\ thread' = IF fatal THEN "leave" ELSE "wait"
          /\ UNCHANGED <<optionVars, ownerVars, deleted, armed, signaled, woken, alive, fatal,
                         healthVars>>
      BY DEF WinPlaces, Ended
    <2>2. WinTypes' /\ WinPlaces' BY <2>1 DEF WinTypes, WinPlaces, Ended
    <2>3. WinFlags' BY DEF WinFlags
    <2> HIDE <1>5 DEF Publish, Copied
    <2>4. WinKeys' BY <2>1 DEF WinKeys, Ended
    <2>5. WinReads' BY <2>1 DEF WinReads, Reading
    <2>6. WinHealth' /\ WinOwed' BY <2>1 DEF WinHealth, WinOwed
    <2> QED BY <2>2, <2>3, <2>4, <2>5, <2>6
  <1>6. CASE Leave
    <2> USE <1>6 DEF Leave
    <2>1. /\ thread = "leave" /\ owner \in {"ready", "join"} /\ thread' = "rearm failed"
          /\ UNCHANGED <<optionVars, ownerVars, deleted, armed, signaled, woken, alive, fatal,
                         owed, readVars, healthVars>>
      BY DEF WinPlaces, Ended
    <2>2. WinTypes' /\ WinPlaces' BY <2>1 DEF WinTypes, WinPlaces, Ended
    <2>3. WinFlags' BY DEF WinFlags
    <2> HIDE <1>6 DEF Leave
    <2>4. WinKeys' BY <2>1 DEF WinKeys, Ended
    <2>5. WinReads' BY <2>1 DEF WinReads, Reading
    <2>6. WinHealth' /\ WinOwed' BY <2>1 DEF WinHealth, WinOwed
    <2> QED BY <2>2, <2>3, <2>4, <2>5, <2>6
  <1> QED BY <1>1, <1>2, <1>3, <1>4, <1>5, <1>6

\* All keys were tried: whether one is live is recorded.
LEMMA WinArmed ==
  ASSUME WinInv, ArmedAll
  PROVE  WinInv'
  <1> USE DEF WinInv, ArmedAll, optionVars, eventVars, threadVars, readVars, healthVars
  <1>1. WinTypes' /\ WinPlaces' BY DEF WinTypes, WinPlaces
  <1>2. WinFlags' BY DEF WinFlags
  <1>3. WinKeys' BY DEF WinKeys
  <1>4. WinReads' BY DEF WinReads, Reading, WinTypes, WinPlaces
  <1>5. WinHealth' /\ WinOwed' BY DEF WinHealth, WinOwed, WinPlaces
  <1> QED BY <1>1, <1>2, <1>3, <1>4, <1>5

\* A key that fired is deaf until it is armed again.
LEMMA WinWakes ==
  ASSUME WinInv, WakeKey
  PROVE  WinInv'
  <1> USE DEF WinInv
  <1>1. woken' \in signaled
    BY FirstIsOne DEF WakeKey, WinTypes
  <1> USE <1>1 DEF WakeKey, Waiting, ThreadOnly, optionVars, ownerVars, readVars, healthVars
  <1>2. owner \in {"ready", "join"} BY DEF WinPlaces, Ended
  <1>3. WinTypes' /\ WinPlaces' BY <1>2 DEF WinTypes, WinPlaces
  <1>4. WinFlags' BY DEF WinFlags
  <1>5. WinKeys'
    <2>1. thread # "rearm" /\ woken = Nothing /\ woken \notin alive /\ thread' = "rearm"
      BY NothingAssumption DEF WinKeys, WinTypes
    <2> QED BY <2>1 DEF WinKeys, Ended
  <1>6. WinReads' BY <1>2 DEF WinReads, Reading
  <1>7. WinHealth' /\ WinOwed' BY DEF WinHealth, WinOwed
  <1> QED BY <1>3, <1>4, <1>5, <1>6, <1>7

\* A key is armed again, is lost and told, or ends the loop when it was the
\* one that may not be lost.
LEMMA WinRearms ==
  ASSUME WinInv, Rearm
  PROVE  WinInv'
  <1> USE DEF WinInv, ThreadOnly, optionVars, ownerVars, readVars, healthVars
  <1>1. /\ thread = "rearm" /\ thread' = "window" /\ owner \in {"ready", "join"}
        /\ woken \in alive \ (armed \cup signaled) /\ woken' = Nothing
        /\ UNCHANGED <<optionVars, ownerVars, deleted, shutdown, pollNow, signaled, readVars>>
    BY DEF Rearm, WinKeys, WinPlaces, Ended
  <1>2. WinReads' BY <1>1 DEF WinReads, Reading
  <1>3. WinPlaces' BY <1>1 DEF WinPlaces
  <1>4. WinOwed' BY <1>1 DEF WinOwed
  <1>5. CASE RearmSucceeds
    <2> USE <1>1, <1>5 DEF RearmSucceeds
    <2>1. WinTypes' BY DEF WinTypes
    <2>2. WinFlags' BY DEF WinFlags
    <2>3. WinKeys' BY DEF WinKeys
    <2>4. WinHealth' BY DEF WinHealth
    <2> QED BY <1>2, <1>3, <1>4, <2>1, <2>2, <2>3, <2>4
  <1>6. CASE RearmDegrades
    <2> USE <1>1, <1>6 DEF RearmDegrades
    <2>1. WinTypes' BY DEF WinTypes
    <2>2. WinFlags' BY DEF WinFlags
    <2>3. WinKeys' BY DEF WinKeys
    <2>4. WinHealth' BY DEF WinHealth
    <2> QED BY <1>2, <1>3, <1>4, <2>1, <2>2, <2>3, <2>4
  <1>7. CASE RearmIsFatal
    <2> USE <1>1, <1>7 DEF RearmIsFatal
    <2>1. WinTypes' BY DEF WinTypes
    <2>2. WinFlags' BY DEF WinFlags
    <2>3. WinKeys' BY DEF WinKeys
    <2>4. WinHealth' BY DEF WinHealth
    <2> QED BY <1>2, <1>3, <1>4, <2>1, <2>2, <2>3, <2>4
  <1> QED BY <1>5, <1>6, <1>7 DEF Rearm

\* All of them.
LEMMA WinInvStep == WinInv /\ Next => WinInv'
  <1> SUFFICES ASSUME WinInv, Next PROVE WinInv'
    OBVIOUS
  <1>1. ASSUME NEW k \in Stores, Write(k) \/ Delete(k) PROVE WinInv'
    <2>1. Changes(k) /\ deleted' \subseteq Stores
      BY <1>1 DEF Write, Delete, WinInv, WinTypes
    <2> QED BY <2>1, WinChanges
  <1> QED
    BY <1>1, WinArms, WinArmed, WinMoves, WinWakes, WinRearms
    DEF Next, Environment, Construct, Run


-----------------------------------------------------------------------------
(* Windows follows the registry.                                           *)

\* What Follower speaks of, here.
LEMMA WinMap ==
  ASSUME OnWindows
  PROVE  /\ Behind = behind \cup Settings /\ Behind' = behind' \cup Settings
         /\ BackendLive = LiveStores /\ BackendLive' = LiveStores'
         /\ BackendNoticed = Noticed /\ BackendNoticed' = Noticed'
  <1> USE DEF OnWindows, Behind, Absent, BackendLive, BackendNoticed
  <1>1. platform = "windows" /\ platform' = "windows"
    OBVIOUS
  <1> QED BY <1>1

\* A written key whose route lives is armed, or its event is set, or the thread
\* is on its way to a read over it.
LEMMA WinFollowsWrites ==
  ASSUME OnWindows, WinInv, NEW k \in Stores, Changes(k)
  PROVE  Follows
  <1> USE DEF Changes, optionVars, ownerVars, threadVars, healthVars
  <1>1. LiveStores' = LiveStores /\ (Stopped' <=> Stopped)
    BY DEF LiveStores, Stopped
  <1>2. k \in LiveStores => Noticed' = TRUE
    <2> SUFFICES ASSUME k \in LiveStores PROVE Noticed'
      BY DEF Noticed
    <2>1. ~Stopped /\ k \in alive BY DEF LiveStores
    <2>2. k \in armed \cup signaled \/ thread \in {"rearm", "window", "read", "leave"}
      <3>1. CASE fatal
        BY <2>1, <3>1 DEF WinInv, WinKeys, Stopped
      <3>2. CASE ~fatal
        BY <2>1, <3>2, NothingAssumption DEF WinInv, WinKeys
      <3> QED BY <3>1, <3>2
    <2> QED BY <1>1, <2>1, <2>2 DEF Noticed, InFlight
  <1>3. k \notin LiveStores => Noticed' = Noticed
    <2>1. CASE Stopped BY <1>1, <2>1 DEF Noticed
    <2>2. CASE ~Stopped
      <3>1. k \notin LiveStores => k \notin armed
        BY <2>2 DEF LiveStores, WinInv, WinKeys
      <3> QED BY <1>1, <2>2, <3>1 DEF Noticed, InFlight
    <2> QED BY <2>1, <2>2
  <1>4. Behind' = Behind \cup {k} BY WinMap
  <1> QED BY <1>1, <1>2, <1>3, <1>4, WinMap, Writes

\* Arming and losing routes.
LEMMA WinFollowsRoutes ==
  ASSUME OnWindows, WinInv, ArmKey \/ Rearm
  PROVE  Follows
  <1> USE DEF optionVars, ownerVars, eventVars, readVars, healthVars, ThreadOnly
  <1>1. Behind' = Behind /\ failed' = failed
    BY WinMap DEF ArmKey, Rearm
  <1>2. CASE ArmKey
    <2>1. ~Stopped /\ Noticed /\ LiveStores = alive
      BY <1>2 DEF ArmKey, WinInv, WinPlaces, Stopped, Noticed, InFlight, LiveStores, Ended
    <2>2. CASE owner' = "failed"
      <3>1. LiveStores' = {} /\ Noticed' = FALSE
        BY <2>2 DEF LiveStores, Noticed, Stopped
      <3> QED BY <1>1, <3>1, WinMap, Detaches
    <2>3. CASE owner' = owner
      <3>1. ~Stopped' /\ Noticed' = TRUE /\ LiveStores' = alive'
        BY <1>2, <2>1, <2>3 DEF ArmKey, Stopped, Noticed, InFlight, LiveStores
      <3>2. PICK k \in Stores : alive' = alive \cup {k} \/ alive' = alive
        <4>1. First(toArm) \in Stores
          BY <1>2, FirstIsOne DEF ArmKey, WinInv, WinTypes
        <4> QED BY <1>2, <2>3, <4>1 DEF ArmKey
      <3>3. CASE alive' = alive \cup {k}
        BY <1>1, <2>1, <3>1, <3>3, WinMap, Attaches
      <3>4. CASE alive' = alive
        BY <1>1, <2>1, <3>1, <3>4, WinMap, Asks
      <3> QED BY <3>2, <3>3, <3>4
    <2> QED BY <1>2, <2>2, <2>3 DEF ArmKey
  <1>3. CASE Rearm
    <2>1. thread = "rearm" /\ thread' = "window" /\ owner' = owner /\ alive' \subseteq alive
      BY <1>3 DEF Rearm, RearmSucceeds, RearmDegrades, RearmIsFatal
    <2>2. (Stopped' <=> Stopped) /\ LiveStores' \subseteq LiveStores /\ Noticed' = Noticed
      BY <2>1 DEF Stopped, Ended, LiveStores, Noticed, InFlight
    <2> QED BY <1>1, <2>2, WinMap, Detaches
  <1> QED BY <1>2, <1>3

\* A read is published: what it missed under a watched key is signalled.
LEMMA WinFollowsReads ==
  ASSUME OnWindows, WinInv, InitialRead \/ Publish
  PROVE  Follows
  <1> USE DEF optionVars, ownerVars, eventVars, threadVars, readVars, healthVars, ThreadOnly
  <1>1. /\ Reading /\ ~Stopped /\ ~Stopped' /\ alive' = alive /\ signaled' = signaled
        /\ thread \notin {"rearm"} /\ Noticed
    BY DEF InitialRead, Publish, WinInv, WinPlaces, Reading, Stopped, Ended, Noticed, InFlight
  <1>2. LiveStores = alive /\ LiveStores' = alive /\ Noticed' \in BOOLEAN
    BY <1>1 DEF LiveStores, Noticed
  <1>3. ~Noticed' => ~fatal /\ signaled = {}
    BY <1>1 DEF Noticed, InFlight, InitialRead, Publish, WinInv, WinKeys, WinPlaces, Ended
  <1>4. CASE failed' = FALSE
    <2>1. behind' \subseteq behind \ fresh
      BY <1>4 DEF InitialRead, Publish, Copied
    <2>2. ~Noticed' => behind' \cap alive = {}
      BY <1>1, <1>3, <2>1 DEF WinInv, WinReads
    <2>3. Settings \cap alive = {}
      BY SettingsAssumption DEF Settings, WinInv, WinTypes
    <2> QED BY <1>1, <1>2, <1>4, <2>1, <2>2, <2>3, WinMap, Publishes
  <1>5. CASE failed' = TRUE /\ behind' = behind
    BY <1>1, <1>2, <1>5, WinMap, Fails
  <1> QED BY <1>4, <1>5 DEF InitialRead, Publish

\* The rest changes neither the copy nor which keys are watched.
LEMMA WinFollowsRest ==
  ASSUME OnWindows, WinInv,
         \/ ArmedAll \/ Spawn \/ PollNow \/ StartDrop \/ Join
         \/ WakeShutdown \/ WakePollNow \/ WakeKey \/ WakeTimeout \/ WaitFails \/ Leave
  PROVE  Follows
  <1> USE DEF optionVars, ownerVars, eventVars, threadVars, readVars, healthVars, ThreadOnly
  <1>1. Behind' = Behind /\ failed' = failed /\ alive' = alive
    BY WinMap DEF ArmedAll, Spawn, PollNow, StartDrop, Join, WakeShutdown, WakePollNow,
                  WakeKey, WakeTimeout, WaitFails, Leave
  <1>2. CASE Stopped'
    <2>1. LiveStores' = {} /\ Noticed' = FALSE
      BY <1>2 DEF LiveStores, Noticed
    <2> QED BY <1>1, <2>1, WinMap, Detaches
  <1>3. CASE ~Stopped'
    <2>1. ~Stopped
      <3>1. CASE ArmedAll \/ Spawn
        BY <1>3, <3>1 DEF ArmedAll, Spawn, WinInv, WinPlaces, Stopped, Ended
      <3>2. CASE PollNow \/ StartDrop \/ Join \/ Leave
        BY <1>3, <3>2 DEF PollNow, StartDrop, Join, Leave, Stopped, Ended
      <3>3. CASE WakeShutdown \/ WakePollNow \/ WakeKey \/ WakeTimeout \/ WaitFails
        BY <1>3, <3>3 DEF WakeShutdown, WakePollNow, WakeKey, WakeTimeout, WaitFails,
                          Stopped, Ended, Waiting
      <3> QED BY <3>1, <3>2, <3>3
    <2>2. LiveStores' = LiveStores
      BY <1>1, <1>3, <2>1 DEF LiveStores
    <2>3. Noticed' = TRUE \/ Noticed' = Noticed
      <3>1. Noticed => Noticed'
        <4> USE <1>3, <2>1 DEF Noticed, InFlight
        <4>1. CASE ArmedAll \/ Spawn
          BY <4>1 DEF ArmedAll, Spawn, WinInv, WinPlaces
        <4>2. CASE PollNow \/ StartDrop \/ Join
          BY <4>2 DEF PollNow, StartDrop, Join
        <4>3. CASE WakeShutdown \/ WaitFails \/ Leave
          BY <4>3 DEF WakeShutdown, WaitFails, Leave, Stopped, Ended
        <4>4. CASE WakePollNow \/ WakeKey \/ WakeTimeout
          BY <4>4 DEF WakePollNow, WakeKey, WakeTimeout, Waiting
        <4> QED BY <4>1, <4>2, <4>3, <4>4
      <3> QED BY <3>1 DEF Noticed
    <2> QED BY <1>1, <2>2, <2>3, WinMap, Asks, Stutters
  <1> QED BY <1>2, <1>3

\* Every step of the Windows backend is one of Follower, or a stutter.
LEMMA WinFollows ==
  ASSUME OnWindows, WinInv, Next
  PROVE  Follows
  <1>1. ASSUME NEW k \in Stores, Write(k) \/ Delete(k) PROVE Follows
    BY <1>1, WinFollowsWrites DEF Write, Delete
  <1> QED
    BY <1>1, WinFollowsRoutes, WinFollowsReads, WinFollowsRest
    DEF Next, Environment, Construct, Run


-----------------------------------------------------------------------------
(* macOS.                                                                  *)

MacFlags ==
    /\ polling \in BOOLEAN /\ stop \in BOOLEAN /\ pollRequested \in BOOLEAN
    /\ asked \in BOOLEAN /\ wake \in BOOLEAN /\ notified \in BOOLEAN
    /\ changed \in BOOLEAN /\ subscribed \in BOOLEAN /\ fresh \in BOOLEAN
    /\ failed \in BOOLEAN

\* Who is where: the constructor waits for the registration, and who holds one
\* is in the loop.
MacPlaces ==
    /\ owner \in {"read", "spawn", "handshake", "ready", "asking", "give up",
                  "stopping", "join", "dropped"}
    /\ thread \in {"register", "open", "top", "run", "check", "polled", "window",
                   "reread"} \cup M!Ended
    /\ owner \in {"read", "spawn"} => thread = "unborn"
    /\ thread = "register" => owner = "handshake" /\ ~subscribed
    /\ subscribed => thread \notin M!Ended

MacTypes == behind \in SUBSET Settings /\ attempt \in 0..MaxRetries

\* What the copy lacks under a subscription is announced, or being read.
MacChased ==
    /\ ~M!Reading => fresh
    /\ M!Reading /\ subscribed => fresh \/ notified
    /\ subscribed /\ behind # {} =>
        \/ failed \/ notified \/ changed
        \/ thread \in {"open", "polled", "window", "reread"}

MacInv == MacFlags /\ MacPlaces /\ MacTypes /\ MacChased

\* The type invariant of the model follows.
LEMMA MacTypeFollows == MacInv => M!TypeOK
  <1> SUFFICES ASSUME MacInv PROVE M!TypeOK
    OBVIOUS
  <1>1. \A flag \in {polling, stop, pollRequested, asked, wake, notified, changed,
                     subscribed, fresh, failed} : flag \in BOOLEAN
    BY Zenon DEF MacInv, MacFlags
  <1> QED BY <1>1, Zenon DEF MacInv, MacPlaces, MacTypes, M!TypeOK

\* Before the first step nothing is registered.
LEMMA MacInvInit == M!Init => MacInv
  <1> SUFFICES ASSUME M!Init PROVE MacInv
    OBVIOUS
  <1>1. MacFlags BY DEF M!Init, MacFlags
  <1>2. MacPlaces BY DEF M!Init, MacPlaces, M!Ended
  <1>3. MacTypes BY RetriesAssumption DEF M!Init, MacTypes
  <1>4. MacChased BY DEF M!Init, MacChased, M!Reading
  <1> QED BY <1>1, <1>2, <1>3, <1>4 DEF MacInv

\* The flags stay flags.
LEMMA MacFlagsStep == MacInv /\ M!Next => MacFlags'
  <1> SUFFICES ASSUME MacInv, M!Next PROVE MacFlags'
    OBVIOUS
  <1> USE DEF MacInv, MacFlags, M!ownerVars, M!systemVars, M!threadVars, M!readVars
  <1>1. CASE M!Write BY <1>1 DEF M!Write
  <1>2. CASE M!InitialRead BY <1>2 DEF M!InitialRead, M!Copied
  <1>3. CASE M!Spawn BY <1>3 DEF M!Spawn
  <1>4. CASE M!Handshake BY <1>4 DEF M!Handshake
  <1>5. CASE M!PollNow BY <1>5 DEF M!PollNow
  <1>6. CASE M!Drop BY <1>6 DEF M!Drop
  <1>7. CASE M!Join BY <1>7 DEF M!Join
  <1>8. CASE M!Retry BY <1>8 DEF M!Retry
  <1>9. CASE M!Subscribe BY <1>9 DEF M!Subscribe
  <1>10. CASE M!GiveUpSubscribing BY <1>10 DEF M!GiveUpSubscribing
  <1>11. CASE M!LoopTop BY <1>11 DEF M!LoopTop, M!Stopping
  <1>12. CASE M!IdleTimeout BY <1>12 DEF M!IdleTimeout
  <1>13. CASE M!PollTimeout BY <1>13 DEF M!PollTimeout
  <1>14. CASE M!Check BY <1>14 DEF M!Check, M!Stopping
  <1>15. CASE M!RunLoop BY <1>15 DEF M!RunLoop, M!Handled
  <1>16. CASE M!WindowWake BY <1>16 DEF M!WindowWake, M!Handled
  <1>17. CASE M!WindowStops BY <1>17 DEF M!WindowStops, M!Stopping
  <1>18. CASE M!WindowCloses BY <1>18 DEF M!WindowCloses
  <1>19. CASE M!Publish BY <1>19 DEF M!Publish, M!Copied
  <1> QED
    BY <1>1, <1>2, <1>3, <1>4, <1>5, <1>6, <1>7, <1>8, <1>9, <1>10,
       <1>11, <1>12, <1>13, <1>14, <1>15, <1>16, <1>17, <1>18, <1>19
    DEF M!Next, M!Run, M!Construct

\* The places stay places, and go together.
LEMMA MacPlacesStep == MacInv /\ M!Next => MacPlaces'
  <1> SUFFICES ASSUME MacPlaces, MacFlags, M!Next PROVE MacPlaces'
    BY DEF MacInv
  <1> USE DEF MacPlaces, M!Ended, M!ownerVars, M!systemVars, M!threadVars, M!readVars
  <1>1. CASE M!Write BY <1>1 DEF M!Write
  <1>2. CASE M!InitialRead BY <1>2 DEF M!InitialRead, M!Copied
  <1>3. CASE M!Spawn BY <1>3 DEF M!Spawn
  <1>4. CASE M!Handshake BY <1>4 DEF M!Handshake
  <1>5. CASE M!PollNow BY <1>5 DEF M!PollNow
  <1>6. CASE M!Drop BY <1>6 DEF M!Drop
  <1>7. CASE M!Join BY <1>7 DEF M!Join
  <1>8. CASE M!Retry BY <1>8 DEF M!Retry
  <1>9. CASE M!Subscribe BY <1>9 DEF M!Subscribe
  <1>10. CASE M!GiveUpSubscribing BY <1>10 DEF M!GiveUpSubscribing
  <1>11. CASE M!LoopTop BY <1>11 DEF M!LoopTop, M!Stopping
  <1>12. CASE M!IdleTimeout BY <1>12 DEF M!IdleTimeout
  <1>13. CASE M!PollTimeout BY <1>13 DEF M!PollTimeout
  <1>14. CASE M!Check BY <1>14 DEF M!Check, M!Stopping
  <1>15. CASE M!RunLoop BY <1>15 DEF M!RunLoop, M!Handled
  <1>16. CASE M!WindowWake BY <1>16 DEF M!WindowWake, M!Handled
  <1>17. CASE M!WindowStops BY <1>17 DEF M!WindowStops, M!Stopping
  <1>18. CASE M!WindowCloses BY <1>18 DEF M!WindowCloses
  <1>19. CASE M!Publish BY <1>19 DEF M!Publish, M!Copied
  <1> QED
    BY <1>1, <1>2, <1>3, <1>4, <1>5, <1>6, <1>7, <1>8, <1>9, <1>10,
       <1>11, <1>12, <1>13, <1>14, <1>15, <1>16, <1>17, <1>18, <1>19
    DEF M!Next, M!Run, M!Construct

\* No registration is tried again more often than it may.
LEMMA MacTypesStep == MacInv /\ M!Next => MacTypes'
  <1> SUFFICES ASSUME MacTypes, M!Next PROVE MacTypes'
    BY DEF MacInv
  <1>1. behind' \in SUBSET Settings
    <2>1. behind' \in {behind, {}, Settings}
      BY DEF M!Next, M!Construct, M!Run, M!Write, M!InitialRead, M!Spawn, M!Handshake, M!PollNow, M!Drop, M!Join, M!Retry,
             M!Subscribe, M!GiveUpSubscribing, M!LoopTop, M!IdleTimeout, M!PollTimeout, M!Check, M!RunLoop,
             M!WindowWake, M!WindowStops, M!WindowCloses, M!Publish, M!Copied, M!threadVars, M!readVars
    <2> QED BY <2>1 DEF MacTypes
  <1>2. attempt' \in 0..MaxRetries
    <2> USE DEF M!threadVars
    <2>1. CASE M!Retry
      BY <2>1, RetriesAssumption DEF M!Retry, M!MayRetry, MacTypes
    <2>2. CASE M!Write \/ M!Join \/ M!IdleTimeout
      <3>1. attempt' = attempt BY <2>2 DEF M!Write, M!Join, M!IdleTimeout
      <3> QED BY <3>1 DEF MacTypes
    <2>3. CASE M!PollNow \/ M!Drop
      <3>1. attempt' = attempt BY <2>3 DEF M!PollNow, M!Drop
      <3> QED BY <3>1 DEF MacTypes
    <2>4. CASE M!InitialRead \/ M!Spawn \/ M!Handshake
      <3>1. attempt' = attempt BY <2>4 DEF M!InitialRead, M!Spawn, M!Handshake
      <3> QED BY <3>1 DEF MacTypes
    <2>5. CASE M!Subscribe \/ M!GiveUpSubscribing \/ M!PollTimeout
      <3>1. attempt' = attempt BY <2>5 DEF M!Subscribe, M!GiveUpSubscribing, M!PollTimeout
      <3> QED BY <3>1 DEF MacTypes
    <2>6. CASE M!LoopTop \/ M!RunLoop
      <3>1. attempt' = attempt BY <2>6 DEF M!LoopTop, M!RunLoop
      <3> QED BY <3>1 DEF MacTypes
    <2>7. CASE M!Check \/ M!WindowWake
      <3>1. attempt' = attempt BY <2>7 DEF M!Check, M!WindowWake
      <3> QED BY <3>1 DEF MacTypes
    <2>8. CASE M!WindowStops \/ M!WindowCloses \/ M!Publish
      <3>1. attempt' = attempt BY <2>8 DEF M!WindowStops, M!WindowCloses, M!Publish
      <3> QED BY <3>1 DEF MacTypes
    <2> QED BY <2>1, <2>2, <2>3, <2>4, <2>5, <2>6, <2>7, <2>8
      DEF M!Next, M!Run, M!Construct
  <1> QED BY <1>1, <1>2 DEF MacTypes

\* A write is announced from the subscription on, and the announcement is not
\* taken back until a read has begun.
LEMMA MacChasedStep == MacInv /\ M!Next => MacChased'
  <1> SUFFICES ASSUME MacPlaces, MacFlags, MacChased, M!Next PROVE MacChased'
    BY DEF MacInv
  <1> USE DEF MacFlags, MacPlaces, MacChased, M!Reading, M!Ended, M!ownerVars, M!systemVars, M!threadVars, M!readVars
  <1>1. CASE M!Write BY <1>1 DEF M!Write
  <1>2. CASE M!InitialRead BY <1>2 DEF M!InitialRead, M!Copied
  <1>3. CASE M!Spawn BY <1>3 DEF M!Spawn
  <1>4. CASE M!Handshake BY <1>4 DEF M!Handshake
  <1>5. CASE M!PollNow BY <1>5 DEF M!PollNow
  <1>6. CASE M!Drop BY <1>6 DEF M!Drop
  <1>7. CASE M!Join BY <1>7 DEF M!Join
  <1>8. CASE M!Retry BY <1>8 DEF M!Retry
  <1>9. CASE M!Subscribe BY <1>9 DEF M!Subscribe
  <1>10. CASE M!GiveUpSubscribing BY <1>10 DEF M!GiveUpSubscribing
  <1>11. CASE M!LoopTop BY <1>11 DEF M!LoopTop, M!Stopping
  <1>12. CASE M!IdleTimeout BY <1>12 DEF M!IdleTimeout
  <1>13. CASE M!PollTimeout BY <1>13 DEF M!PollTimeout
  <1>14. CASE M!Check BY <1>14 DEF M!Check, M!Stopping
  <1>15. CASE M!RunLoop BY <1>15 DEF M!RunLoop, M!Handled
  <1>16. CASE M!WindowWake BY <1>16 DEF M!WindowWake, M!Handled
  <1>17. CASE M!WindowStops BY <1>17 DEF M!WindowStops, M!Stopping
  <1>18. CASE M!WindowCloses BY <1>18 DEF M!WindowCloses
  <1>19. CASE M!Publish BY <1>19 DEF M!Publish, M!Copied
  <1> QED
    BY <1>1, <1>2, <1>3, <1>4, <1>5, <1>6, <1>7, <1>8, <1>9, <1>10,
       <1>11, <1>12, <1>13, <1>14, <1>15, <1>16, <1>17, <1>18, <1>19
    DEF M!Next, M!Run, M!Construct

\* All of it.
LEMMA MacInvStep == MacInv /\ M!Next => MacInv'
  BY MacFlagsStep, MacPlacesStep, MacTypesStep, MacChasedStep DEF MacInv

\* What Follower speaks of, here.
LEMMA MacMap ==
  ASSUME OnMacos
  PROVE  /\ Behind = behind \cup Stores /\ Behind' = behind' \cup Stores
         /\ BackendLive = M!LiveStores /\ BackendLive' = M!LiveStores'
         /\ BackendNoticed = M!Noticed /\ BackendNoticed' = M!Noticed'
  <1> USE DEF OnMacos, Behind, Absent, BackendLive, BackendNoticed
  <1>1. platform = "macos" /\ platform' = "macos"
    OBVIOUS
  <1> QED BY <1>1


\* A step that leaves the copy alone, and after which a read is owed if one was.
LEMMA MacKeepsOwing ==
  ASSUME OnMacos, behind' = behind, failed' = failed, subscribed' = subscribed,
         \/ M!Noticed' = M!Noticed
         \/ M!Noticed' = TRUE
         \/ M!Noticed' = FALSE /\ (behind \cap M!LiveStores' = {} \/ failed)
  PROVE  Follows
  <1>1. Behind' = Behind /\ BackendLive' = BackendLive
    BY MacMap DEF M!LiveStores
  <1>2. CASE M!Noticed' = M!Noticed
    BY <1>1, <1>2, MacMap, Stutters
  <1>3. CASE M!Noticed' = TRUE
    BY <1>1, <1>3, MacMap, Asks
  <1>4. CASE M!Noticed' = FALSE /\ (behind \cap M!LiveStores' = {} \/ failed)
    <2>1. Behind \cap BackendLive' = {} \/ failed
      BY <1>4, MacMap, SettingsAssumption DEF M!LiveStores, Settings
    <2> QED BY <1>1, <1>4, <2>1, MacMap, Detaches
  <1> QED BY <1>2, <1>3, <1>4

\* The registration goes with the thread.
LEMMA MacFollowsStopping ==
  ASSUME OnMacos, M!Stopping, behind' = behind, failed' = failed
  PROVE  Follows
  <1>1. M!LiveStores' = {} /\ M!Noticed' = FALSE
    BY DEF M!Stopping, M!LiveStores, M!Noticed
  <1> QED BY <1>1, MacMap, Detaches

\* A write under the subscription is announced.
LEMMA MacFollowsWrites ==
  ASSUME OnMacos, MacInv, M!Write
  PROVE  Follows
  <1> USE DEF M!Write, M!ownerVars, M!threadVars
  <1>1. Behind' = Behind \cup {settings} /\ settings \in Settings
    BY MacMap DEF MacInv, MacTypes, Settings
  <1>2. M!LiveStores' = M!LiveStores
    BY DEF M!LiveStores
  <1>3. CASE subscribed
    <2>1. M!Noticed' = TRUE
      BY <1>3 DEF M!Noticed, M!InFlight, MacInv, MacPlaces, M!Ended
    <2>2. settings \in M!LiveStores
      BY <1>1, <1>3 DEF M!LiveStores
    <2> QED BY <1>1, <1>2, <2>1, <2>2, MacMap, Writes
  <1>4. CASE ~subscribed
    <2>1. M!Noticed' = M!Noticed
      BY <1>4 DEF M!Noticed, M!InFlight, MacInv, MacFlags
    <2>2. settings \notin M!LiveStores
      BY <1>4 DEF M!LiveStores
    <2> QED BY <1>1, <1>2, <2>1, <2>2, MacMap, Writes
  <1> QED BY <1>3, <1>4 DEF MacInv, MacFlags

\* A read is published: what it missed is announced.
LEMMA MacFollowsReads ==
  ASSUME OnMacos, MacInv, M!InitialRead \/ M!Publish
  PROVE  Follows
  <1> USE DEF M!ownerVars, M!systemVars, M!threadVars, M!readVars
  <1>1. /\ M!Reading /\ M!Noticed /\ subscribed' = subscribed /\ notified' = notified
        /\ thread' # "stopped"
    BY DEF M!InitialRead, M!Publish, M!Reading, M!Noticed, M!InFlight, MacInv, MacPlaces, M!Ended
  <1>2. M!LiveStores' = M!LiveStores /\ M!Noticed' \in BOOLEAN
    BY <1>1 DEF M!LiveStores, M!Noticed
  <1>3. CASE failed' = FALSE /\ M!Copied
    <2>1. behind' \subseteq behind
      BY <1>3 DEF M!Copied
    <2>2. ~M!Noticed' => ~notified
      BY <1>1 DEF M!Noticed, M!InFlight
    <2>3. ~M!Noticed' => behind' \cap M!LiveStores' = {}
      BY <1>1, <1>3, <2>2 DEF M!Copied, M!LiveStores, MacInv, MacChased
    <2>4. Stores \cap M!LiveStores' = {}
      BY SettingsAssumption DEF M!LiveStores, Settings
    <2> QED BY <1>1, <1>2, <1>3, <2>1, <2>3, <2>4, MacMap, Publishes
  <1>4. CASE failed' = TRUE /\ behind' = behind
    BY <1>1, <1>2, <1>4, MacMap, Fails
  <1> QED BY <1>3, <1>4 DEF M!InitialRead, M!Publish

\* The opening read covers what changed before the subscription.
LEMMA MacFollowsSubscription ==
  ASSUME OnMacos, M!Subscribe
  PROVE  Follows
  <1>1. M!LiveStores' = M!LiveStores \cup {settings} /\ M!Noticed' = TRUE
    BY DEF M!Subscribe, M!LiveStores, M!Noticed, M!InFlight, Settings
  <1>2. Behind' = Behind /\ failed' = failed
    BY MacMap DEF M!Subscribe, M!readVars
  <1> QED BY <1>1, <1>2, MacMap, Attaches DEF Settings

\* The rest of the owner's steps.
LEMMA MacFollowsOwner ==
  ASSUME OnMacos, MacInv, M!Spawn \/ M!Handshake \/ M!PollNow \/ M!Drop \/ M!Join
  PROVE  Follows
  <1> USE DEF M!ownerVars, M!systemVars, M!threadVars, M!readVars
  <1>1. behind' = behind /\ failed' = failed /\ subscribed' = subscribed
    BY DEF M!Spawn, M!Handshake, M!PollNow, M!Drop, M!Join
  <1>2. CASE M!Spawn
    <2>1. ~subscribed
      BY <1>2 DEF M!Spawn, MacInv, MacPlaces, MacFlags, M!Ended
    <2>2. M!LiveStores' = {} BY <1>1, <2>1 DEF M!LiveStores
    <2>3. M!Noticed' \in BOOLEAN BY DEF M!Noticed
    <2> QED BY <1>1, <2>2, <2>3, MacKeepsOwing
  <1>3. CASE M!Handshake
    <2>1. M!Noticed' \in BOOLEAN BY DEF M!Noticed
    <2>2. CASE ~subscribed
      <3>1. M!LiveStores' = {} BY <1>1, <2>2 DEF M!LiveStores
      <3> QED BY <1>1, <2>1, <3>1, MacKeepsOwing
    <2>3. CASE subscribed /\ ~failed
      <3>1. ~M!Noticed' => behind = {}
        BY <1>1, <1>3, <2>3 DEF M!Handshake, M!Noticed, M!InFlight, MacInv, MacChased, MacFlags,
                          MacPlaces, M!Ended
      <3>2. ~M!Noticed' => behind \cap M!LiveStores' = {} BY <3>1
      <3> QED BY <1>1, <2>1, <3>2, MacKeepsOwing
    <2>4. CASE failed BY <1>1, <2>1, <2>4, MacKeepsOwing
    <2> QED BY <2>2, <2>3, <2>4
  <1>4. CASE M!PollNow
    <2>1. UNCHANGED <<notified, changed, thread>> /\ (pollRequested => pollRequested')
          /\ owner \in {"ready", "asking"} /\ owner' \in {"ready", "asking"}
      BY <1>4 DEF M!PollNow
    <2>2. M!Noticed => M!Noticed' BY <2>1 DEF M!Noticed, M!InFlight
    <2>3. M!Noticed' = M!Noticed \/ M!Noticed' = TRUE BY <2>2 DEF M!Noticed
    <2> QED BY <1>1, <2>3, MacKeepsOwing
  <1>5. CASE M!Drop \/ M!Join
    <2>1. M!Noticed' = M!Noticed
      <3>1. /\ UNCHANGED <<notified, changed, pollRequested, thread>>
            /\ owner \notin {"read", "spawn", "handshake"}
            /\ owner' \notin {"read", "spawn", "handshake"}
        BY <1>5 DEF M!Drop, M!Join
      <3> QED BY <3>1 DEF M!Noticed, M!InFlight
    <2> QED BY <1>1, <2>1, MacKeepsOwing
  <1> QED BY <1>2, <1>3, <1>4, <1>5

\* The rest of the thread's steps.
LEMMA MacFollowsThread ==
  ASSUME OnMacos, MacInv,
         \/ M!Retry \/ M!GiveUpSubscribing \/ M!LoopTop \/ M!RunLoop \/ M!PollTimeout
         \/ M!IdleTimeout \/ M!Check \/ M!WindowWake \/ M!WindowStops \/ M!WindowCloses
  PROVE  Follows
  <1> USE DEF M!ownerVars, M!systemVars, M!threadVars, M!readVars
  <1>1. behind' = behind /\ failed' = failed
    BY DEF M!Retry, M!GiveUpSubscribing, M!LoopTop, M!RunLoop, M!PollTimeout,
           M!IdleTimeout, M!Check, M!WindowWake, M!WindowStops, M!WindowCloses
  <1>2. CASE M!Stopping
    BY <1>1, <1>2, MacFollowsStopping
  <1>3. CASE M!Retry \/ M!GiveUpSubscribing
    <2>1. subscribed' = subscribed /\ M!Noticed' = M!Noticed
      BY <1>3 DEF M!Retry, M!GiveUpSubscribing, M!Noticed, M!InFlight, MacInv, MacPlaces
    <2> QED BY <1>1, <2>1, MacKeepsOwing
  <1>4. CASE (M!LoopTop \/ M!Check) /\ ~M!Stopping
    <2>1. subscribed' = subscribed /\ M!Noticed' = M!Noticed
      BY <1>4 DEF M!LoopTop, M!Check, M!Noticed, M!InFlight
    <2> QED BY <1>1, <2>1, MacKeepsOwing
  <1>5. CASE M!RunLoop \/ M!WindowWake
    <2>1. /\ UNCHANGED <<pollRequested, owner, subscribed>>
          /\ notified \/ changed => notified' \/ changed'
          /\ thread \in {"run", "window"} /\ (thread = "window" => thread' = "window")
          /\ thread' \in {"check", thread}
      <3>1. M!Handled BY <1>5 DEF M!RunLoop, M!WindowWake
      <3>2. notified \/ changed => notified' \/ changed' BY <3>1 DEF M!Handled
      <3>3. UNCHANGED <<pollRequested, owner, subscribed>>
        BY <1>5 DEF M!RunLoop, M!WindowWake
      <3>4. thread \in {"run", "window"} /\ thread' \in {"check", thread}
        BY <1>5 DEF M!RunLoop, M!WindowWake
      <3>5. thread = "window" => thread' = "window"
        BY <1>5 DEF M!RunLoop, M!WindowWake
      <3> QED BY <3>2, <3>3, <3>4, <3>5
    <2>2. M!Noticed => M!Noticed' BY <2>1 DEF M!Noticed, M!InFlight
    <2>3. M!Noticed' = M!Noticed \/ M!Noticed' = TRUE BY <2>2 DEF M!Noticed
    <2> QED BY <1>1, <2>1, <2>3, MacKeepsOwing
  <1>6. CASE M!PollTimeout \/ M!IdleTimeout \/ M!WindowCloses
    <2>1. subscribed' = subscribed /\ (M!Noticed' = M!Noticed \/ M!Noticed' = TRUE)
      BY <1>6 DEF M!PollTimeout, M!IdleTimeout, M!WindowCloses, M!Noticed, M!InFlight
    <2> QED BY <1>1, <2>1, MacKeepsOwing
  <1> QED BY <1>2, <1>3, <1>4, <1>5, <1>6 DEF M!WindowStops

\* Every step of the macOS backend is one of Follower, or a stutter.
LEMMA MacFollows ==
  ASSUME OnMacos, MacInv, M!Next
  PROVE  Follows
  BY MacFollowsWrites, MacFollowsReads, MacFollowsSubscription, MacFollowsOwner,
     MacFollowsThread
  DEF M!Next, M!Construct, M!Run


-----------------------------------------------------------------------------
(* Android and iOS.                                                        *)

MobileFlags ==
    /\ android \in BOOLEAN /\ polling \in BOOLEAN /\ registered \in BOOLEAN
    /\ announced \in BOOLEAN /\ slot \in BOOLEAN /\ sender \in BOOLEAN
    /\ full \in BOOLEAN /\ fresh \in BOOLEAN /\ failed \in BOOLEAN

\* Who is where: the slot is filed before the callback is registered, and the
\* thread is spawned last.
MobilePlaces ==
    /\ owner \in {"arm", "file", "register", "read", "spawn", "ready", "unregister",
                  "unfile", "hang up", "join", "failed", "dropped"}
    /\ thread \in {"unborn", "read", "wait", "window", "ended"}
    /\ owner \in {"arm", "file", "register", "read", "spawn", "failed"} => thread = "unborn"
    /\ owner \in {"arm", "file", "failed", "hang up", "join", "dropped"} => ~slot
    /\ owner \in {"arm", "file", "register"} => ~registered
    /\ owner = "register" => slot
    /\ owner \in {"failed", "join", "dropped"} => ~sender

MobileTypes == behind \in SUBSET Settings

\* What the copy lacks under a broadcast is announced, or being read.
MobileChased ==
    /\ ~P!Reading => fresh
    /\ P!Reading /\ android /\ registered /\ slot => fresh \/ announced \/ full

MobileInv == MobileFlags /\ MobilePlaces /\ MobileTypes /\ MobileChased

\* The type invariant of the model follows.
LEMMA MobileTypeFollows == MobileInv => P!TypeOK
  <1> SUFFICES ASSUME MobileInv PROVE P!TypeOK
    OBVIOUS
  <1>1. \A flag \in {android, polling, registered, announced, slot, sender, full,
                     fresh, failed} : flag \in BOOLEAN
    BY Zenon DEF MobileInv, MobileFlags
  <1>2. owner \in {"failed", "dropped"} => ~slot /\ ~sender
    BY DEF MobileInv, MobilePlaces
  <1> QED BY <1>1, <1>2, Zenon DEF MobileInv, MobilePlaces, MobileTypes, P!TypeOK

\* Before the first step nothing is filed.
LEMMA MobileInvInit == P!Init => MobileInv
  <1> SUFFICES ASSUME P!Init PROVE MobileInv
    OBVIOUS
  <1>1. MobileFlags BY DEF P!Init, MobileFlags
  <1>2. MobilePlaces /\ MobileTypes BY DEF P!Init, MobilePlaces, MobileTypes
  <1>3. MobileChased BY DEF P!Init, MobileChased, P!Reading
  <1> QED BY <1>1, <1>2, <1>3 DEF MobileInv

\* The flags stay flags.
LEMMA MobileFlagsStep == MobileInv /\ P!Next => MobileFlags'
  <1> SUFFICES ASSUME MobileFlags, P!Next PROVE MobileFlags'
    BY DEF MobileInv
  <1> USE DEF MobileFlags, P!optionVars, P!systemVars, P!wakeVars, P!readVars
  <1>1. CASE P!Write BY <1>1 DEF P!Write
  <1>2. CASE P!Hint BY <1>2 DEF P!Hint
  <1>3. CASE P!Callback BY <1>3 DEF P!Callback, P!Sent
  <1>4. CASE P!Arm BY <1>4 DEF P!Arm
  <1>5. CASE P!FileSlot BY <1>5 DEF P!FileSlot
  <1>6. CASE P!Register BY <1>6 DEF P!Register
  <1>7. CASE P!RegisterFails BY <1>7 DEF P!RegisterFails
  <1>8. CASE P!InitialRead BY <1>8 DEF P!InitialRead, P!Copied
  <1>9. CASE P!Spawn BY <1>9 DEF P!Spawn
  <1>10. CASE P!PollNow BY <1>10 DEF P!PollNow, P!Sent
  <1>11. CASE P!StartDrop BY <1>11 DEF P!StartDrop
  <1>12. CASE P!Unregister BY <1>12 DEF P!Unregister
  <1>13. CASE P!Unfile BY <1>13 DEF P!Unfile
  <1>14. CASE P!HangUp BY <1>14 DEF P!HangUp
  <1>15. CASE P!Join BY <1>15 DEF P!Join
  <1>16. CASE P!Publish BY <1>16 DEF P!Publish, P!Copied
  <1>17. CASE P!Receive BY <1>17 DEF P!Receive, P!Waiting
  <1>18. CASE P!Timeout BY <1>18 DEF P!Timeout
  <1>19. CASE P!WindowCloses BY <1>19 DEF P!WindowCloses
  <1>20. CASE P!Disconnected BY <1>20 DEF P!Disconnected, P!Waiting
  <1> QED
    BY <1>1, <1>2, <1>3, <1>4, <1>5, <1>6, <1>7, <1>8, <1>9, <1>10,
       <1>11, <1>12, <1>13, <1>14, <1>15, <1>16, <1>17, <1>18, <1>19, <1>20
    DEF P!Next, P!Run, P!Construct, P!Drop

\* The places stay places, and go together.
LEMMA MobilePlacesStep == MobileInv /\ P!Next => MobilePlaces'
  <1> SUFFICES ASSUME MobileFlags, MobilePlaces, P!Next PROVE MobilePlaces'
    BY DEF MobileInv
  <1> USE DEF MobileFlags, MobilePlaces, P!optionVars, P!systemVars, P!wakeVars, P!readVars
  <1>1. CASE P!Write BY <1>1 DEF P!Write
  <1>2. CASE P!Hint BY <1>2 DEF P!Hint
  <1>3. CASE P!Callback BY <1>3 DEF P!Callback, P!Sent
  <1>4. CASE P!Arm BY <1>4 DEF P!Arm
  <1>5. CASE P!FileSlot BY <1>5 DEF P!FileSlot
  <1>6. CASE P!Register BY <1>6 DEF P!Register
  <1>7. CASE P!RegisterFails BY <1>7 DEF P!RegisterFails
  <1>8. CASE P!InitialRead BY <1>8 DEF P!InitialRead, P!Copied
  <1>9. CASE P!Spawn BY <1>9 DEF P!Spawn
  <1>10. CASE P!PollNow BY <1>10 DEF P!PollNow, P!Sent
  <1>11. CASE P!StartDrop BY <1>11 DEF P!StartDrop
  <1>12. CASE P!Unregister BY <1>12 DEF P!Unregister
  <1>13. CASE P!Unfile BY <1>13 DEF P!Unfile
  <1>14. CASE P!HangUp BY <1>14 DEF P!HangUp
  <1>15. CASE P!Join BY <1>15 DEF P!Join
  <1>16. CASE P!Publish BY <1>16 DEF P!Publish, P!Copied
  <1>17. CASE P!Receive BY <1>17 DEF P!Receive, P!Waiting
  <1>18. CASE P!Timeout BY <1>18 DEF P!Timeout
  <1>19. CASE P!WindowCloses BY <1>19 DEF P!WindowCloses
  <1>20. CASE P!Disconnected BY <1>20 DEF P!Disconnected, P!Waiting
  <1> QED
    BY <1>1, <1>2, <1>3, <1>4, <1>5, <1>6, <1>7, <1>8, <1>9, <1>10,
       <1>11, <1>12, <1>13, <1>14, <1>15, <1>16, <1>17, <1>18, <1>19, <1>20
    DEF P!Next, P!Run, P!Construct, P!Drop

\* The copy stays a copy.
LEMMA MobileTypesStep == MobileInv /\ P!Next => MobileTypes'
  <1> SUFFICES ASSUME MobileTypes, P!Next PROVE MobileTypes'
    BY DEF MobileInv
  <1> USE DEF MobileTypes, P!optionVars, P!systemVars, P!wakeVars, P!readVars
  <1>1. CASE P!Write BY <1>1 DEF P!Write
  <1>2. CASE P!Hint BY <1>2 DEF P!Hint
  <1>3. CASE P!Callback BY <1>3 DEF P!Callback, P!Sent
  <1>4. CASE P!Arm BY <1>4 DEF P!Arm
  <1>5. CASE P!FileSlot BY <1>5 DEF P!FileSlot
  <1>6. CASE P!Register BY <1>6 DEF P!Register
  <1>7. CASE P!RegisterFails BY <1>7 DEF P!RegisterFails
  <1>8. CASE P!InitialRead BY <1>8 DEF P!InitialRead, P!Copied
  <1>9. CASE P!Spawn BY <1>9 DEF P!Spawn
  <1>10. CASE P!PollNow BY <1>10 DEF P!PollNow, P!Sent
  <1>11. CASE P!StartDrop BY <1>11 DEF P!StartDrop
  <1>12. CASE P!Unregister BY <1>12 DEF P!Unregister
  <1>13. CASE P!Unfile BY <1>13 DEF P!Unfile
  <1>14. CASE P!HangUp BY <1>14 DEF P!HangUp
  <1>15. CASE P!Join BY <1>15 DEF P!Join
  <1>16. CASE P!Publish BY <1>16 DEF P!Publish, P!Copied
  <1>17. CASE P!Receive BY <1>17 DEF P!Receive, P!Waiting
  <1>18. CASE P!Timeout BY <1>18 DEF P!Timeout
  <1>19. CASE P!WindowCloses BY <1>19 DEF P!WindowCloses
  <1>20. CASE P!Disconnected BY <1>20 DEF P!Disconnected, P!Waiting
  <1> QED
    BY <1>1, <1>2, <1>3, <1>4, <1>5, <1>6, <1>7, <1>8, <1>9, <1>10,
       <1>11, <1>12, <1>13, <1>14, <1>15, <1>16, <1>17, <1>18, <1>19, <1>20
    DEF P!Next, P!Run, P!Construct, P!Drop

\* A write under a broadcast is announced, the announcement becomes a wake, and
\* the wake is not taken back while a read is under way.
LEMMA MobileChasedStep == MobileInv /\ P!Next => MobileChased'
  <1> SUFFICES ASSUME MobileFlags, MobilePlaces, MobileChased, P!Next PROVE MobileChased'
    BY DEF MobileInv
  <1> USE DEF MobileFlags, MobilePlaces, MobileChased, P!Reading, P!optionVars, P!systemVars, P!wakeVars, P!readVars
  <1>1. CASE P!Write BY <1>1 DEF P!Write
  <1>2. CASE P!Hint BY <1>2 DEF P!Hint
  <1>3. CASE P!Callback BY <1>3 DEF P!Callback, P!Sent
  <1>4. CASE P!Arm BY <1>4 DEF P!Arm
  <1>5. CASE P!FileSlot BY <1>5 DEF P!FileSlot
  <1>6. CASE P!Register BY <1>6 DEF P!Register
  <1>7. CASE P!RegisterFails BY <1>7 DEF P!RegisterFails
  <1>8. CASE P!InitialRead BY <1>8 DEF P!InitialRead, P!Copied
  <1>9. CASE P!Spawn BY <1>9 DEF P!Spawn
  <1>10. CASE P!PollNow BY <1>10 DEF P!PollNow, P!Sent
  <1>11. CASE P!StartDrop BY <1>11 DEF P!StartDrop
  <1>12. CASE P!Unregister
    <2>1. UNCHANGED <<thread, fresh, slot, full, android>> /\ owner = "unregister"
          /\ owner' = "unfile"
      BY <1>12 DEF P!Unregister
    <2>2. registered' = FALSE \/ UNCHANGED <<registered, announced>>
      BY <1>12 DEF P!Unregister
    <2> QED BY <2>1, <2>2
  <1>13. CASE P!Unfile BY <1>13 DEF P!Unfile
  <1>14. CASE P!HangUp BY <1>14 DEF P!HangUp
  <1>15. CASE P!Join BY <1>15 DEF P!Join
  <1>16. CASE P!Publish BY <1>16 DEF P!Publish, P!Copied
  <1>17. CASE P!Receive BY <1>17 DEF P!Receive, P!Waiting
  <1>18. CASE P!Timeout BY <1>18 DEF P!Timeout
  <1>19. CASE P!WindowCloses BY <1>19 DEF P!WindowCloses
  <1>20. CASE P!Disconnected BY <1>20 DEF P!Disconnected, P!Waiting
  <1> QED
    BY <1>1, <1>2, <1>3, <1>4, <1>5, <1>6, <1>7, <1>8, <1>9, <1>10,
       <1>11, <1>12, <1>13, <1>14, <1>15, <1>16, <1>17, <1>18, <1>19, <1>20
    DEF P!Next, P!Run, P!Construct, P!Drop

\* All of it.
LEMMA MobileInvStep == MobileInv /\ P!Next => MobileInv'
  BY MobileFlagsStep, MobilePlacesStep, MobileTypesStep, MobileChasedStep DEF MobileInv

\* What Follower speaks of, here.
LEMMA MobileMap ==
  ASSUME OnMobile
  PROVE  /\ Behind = behind \cup Stores /\ Behind' = behind' \cup Stores
         /\ BackendLive = P!LiveStores /\ BackendLive' = P!LiveStores'
         /\ BackendNoticed = P!Noticed /\ BackendNoticed' = P!Noticed'
  <1> USE DEF OnMobile, Behind, Absent, BackendLive, BackendNoticed
  <1>1. platform = "mobile" /\ platform' = "mobile"
    OBVIOUS
  <1> QED BY <1>1

\* A step that leaves the copy alone and forgets nothing a live route reported.
LEMMA MobileKeepsOwing ==
  ASSUME OnMobile, behind' = behind, failed' = failed,
         \/ P!LiveStores' = P!LiveStores
               /\ (P!Noticed' = P!Noticed \/ P!Noticed' = TRUE)
         \/ P!LiveStores' = {} /\ (P!Noticed' => P!Noticed)
  PROVE  Follows
  <1>1. Behind' = Behind BY MobileMap
  <1>2. CASE P!LiveStores' = P!LiveStores /\ P!Noticed' = P!Noticed
    BY <1>1, <1>2, MobileMap, Stutters
  <1>3. CASE P!LiveStores' = P!LiveStores /\ P!Noticed' = TRUE
    BY <1>1, <1>3, MobileMap, Asks
  <1>4. CASE P!LiveStores' = {} /\ (P!Noticed' => P!Noticed)
    <2>1. P!Noticed' = FALSE \/ P!Noticed' = P!Noticed
      BY <1>4 DEF P!Noticed
    <2> QED BY <1>1, <1>4, <2>1, MobileMap, Detaches
  <1> QED BY <1>2, <1>3, <1>4


\* A write under a broadcast is announced; a hint promises nothing.
LEMMA MobileFollowsWrites ==
  ASSUME OnMobile, MobileInv, P!Write
  PROVE  Follows
  <1> USE DEF P!Write, P!optionVars, P!wakeVars
  <1>1. Behind' = Behind \cup {settings} /\ settings \in Settings
    BY MobileMap DEF MobileInv, MobileTypes, Settings
  <1>2. P!LiveStores' = P!LiveStores
    BY DEF P!LiveStores
  <1>3. CASE android /\ registered /\ slot
    <2>1. P!Noticed' = TRUE
      BY <1>3 DEF P!Noticed, P!InFlight, MobileInv, MobilePlaces
    <2>2. settings \in P!LiveStores
      BY <1>1, <1>3 DEF P!LiveStores
    <2> QED BY <1>1, <1>2, <2>1, <2>2, MobileMap, Writes
  <1>4. CASE ~(android /\ registered /\ slot)
    <2>1. (announced' /\ slot') = (announced /\ slot)
      BY <1>4 DEF MobileInv, MobileFlags
    <2>2. P!Noticed' = P!Noticed
      BY <2>1 DEF P!Noticed, P!InFlight
    <2>3. settings \notin P!LiveStores
      BY <1>4 DEF P!LiveStores
    <2> QED BY <1>1, <1>2, <2>2, <2>3, MobileMap, Writes
  <1> QED BY <1>3, <1>4

\* A read is published: what it missed is announced, or has become a wake.
LEMMA MobileFollowsReads ==
  ASSUME OnMobile, MobileInv, P!InitialRead \/ P!Publish
  PROVE  Follows
  <1> USE DEF P!optionVars, P!systemVars, P!wakeVars, P!readVars
  <1>1. /\ P!Reading /\ P!Noticed /\ owner' # "failed"
        /\ UNCHANGED <<android, registered, slot, announced, full>>
    BY DEF P!InitialRead, P!Publish, P!Reading, P!Noticed, P!InFlight, MobileInv, MobilePlaces
  <1>2. P!LiveStores' = P!LiveStores /\ P!Noticed' \in BOOLEAN
    BY <1>1 DEF P!LiveStores, P!Noticed
  <1>3. CASE failed' = FALSE /\ P!Copied
    <2>1. behind' \subseteq behind
      BY <1>3 DEF P!Copied
    <2>2. ~P!Noticed' => ~(announced /\ slot) /\ ~full
      BY <1>1 DEF P!Noticed, P!InFlight
    <2>3. ~P!Noticed' => behind' \cap P!LiveStores' = {}
      BY <1>1, <1>3, <2>2 DEF P!Copied, P!LiveStores, MobileInv, MobileChased
    <2>4. Stores \cap P!LiveStores' = {}
      BY SettingsAssumption DEF P!LiveStores, Settings
    <2> QED BY <1>1, <1>2, <1>3, <2>1, <2>3, <2>4, MobileMap, Publishes
  <1>4. CASE failed' = TRUE /\ behind' = behind
    BY <1>1, <1>2, <1>4, MobileMap, Fails
  <1> QED BY <1>3, <1>4 DEF P!InitialRead, P!Publish

\* Registering a receiver comes before the first read.
LEMMA MobileFollowsRegistration ==
  ASSUME OnMobile, MobileInv, P!Register
  PROVE  Follows
  <1> USE DEF P!Register, P!optionVars, P!wakeVars, P!readVars
  <1>1. Behind' = Behind /\ failed' = failed
    BY MobileMap
  <1>2. P!Noticed' = TRUE
    BY DEF P!Noticed, P!InFlight
  <1>3. P!LiveStores' = P!LiveStores \cup {settings} \/ P!LiveStores' = P!LiveStores
    BY DEF P!LiveStores, Settings
  <1> QED BY <1>1, <1>2, <1>3, MobileMap, Attaches, Asks DEF Settings

\* Callbacks, requests and the thread's waiting keep what is owed, and taking
\* the callback down forgets only what it reported.
LEMMA MobileFollowsRest ==
  ASSUME OnMobile, MobileInv,
         \/ P!Hint \/ P!Callback \/ P!Arm \/ P!FileSlot \/ P!RegisterFails \/ P!Spawn
         \/ P!PollNow \/ P!StartDrop \/ P!Drop
         \/ P!Receive \/ P!Timeout \/ P!WindowCloses \/ P!Disconnected
  PROVE  Follows
  <1> USE DEF P!optionVars, P!systemVars, P!wakeVars, P!readVars
  <1>1. CASE P!Hint
    <2>1. behind' = behind /\ failed' = failed /\ P!LiveStores' = P!LiveStores
      BY <1>1 DEF P!Hint, P!LiveStores
    <2>2. P!Noticed => P!Noticed'
      BY <1>1 DEF P!Hint, P!Noticed, P!InFlight
    <2>3. P!Noticed' = P!Noticed \/ P!Noticed' = TRUE BY <2>2 DEF P!Noticed
    <2> QED BY <2>1, <2>3, MobileKeepsOwing
  <1>2. CASE P!Callback
    <2>1. behind' = behind /\ failed' = failed /\ P!LiveStores' = P!LiveStores
      BY <1>2 DEF P!Callback, P!LiveStores
    <2>2. P!Noticed => P!Noticed'
      BY <1>2 DEF P!Callback, P!Sent, P!Noticed, P!InFlight
    <2>3. P!Noticed' = P!Noticed \/ P!Noticed' = TRUE BY <2>2 DEF P!Noticed
    <2> QED BY <2>1, <2>3, MobileKeepsOwing
  <1>3. CASE P!Arm \/ P!FileSlot \/ P!RegisterFails
    <2>1. behind' = behind /\ failed' = failed
      BY <1>3 DEF P!Arm, P!FileSlot, P!RegisterFails
    <2>2. P!LiveStores' = {}
      <3>1. CASE P!Arm
        BY <3>1 DEF P!Arm, P!LiveStores, MobileInv, MobilePlaces
      <3>2. CASE P!FileSlot
        BY <3>2 DEF P!FileSlot, P!LiveStores, MobileInv, MobilePlaces
      <3>3. CASE P!RegisterFails
        BY <3>3 DEF P!RegisterFails, P!LiveStores
      <3> QED BY <1>3, <3>1, <3>2, <3>3
    <2>3. P!Noticed
      BY <1>3 DEF P!Arm, P!FileSlot, P!RegisterFails, P!Noticed, P!InFlight
    <2> QED BY <2>1, <2>2, <2>3, MobileKeepsOwing
  <1>4. CASE P!Spawn \/ P!PollNow \/ P!StartDrop
    <2>1. behind' = behind /\ failed' = failed /\ P!LiveStores' = P!LiveStores
      BY <1>4 DEF P!Spawn, P!PollNow, P!StartDrop, P!LiveStores
    <2>2. P!Noticed => P!Noticed'
      <3>1. CASE P!Spawn
        BY <3>1 DEF P!Spawn, P!Noticed, P!InFlight, MobileInv, MobilePlaces
      <3>2. CASE P!PollNow
        BY <3>2 DEF P!PollNow, P!Sent, P!Noticed, P!InFlight
      <3>3. CASE P!StartDrop
        BY <3>3 DEF P!StartDrop, P!Noticed, P!InFlight
      <3> QED BY <1>4, <3>1, <3>2, <3>3
    <2>3. P!Noticed' = P!Noticed \/ P!Noticed' = TRUE BY <2>2 DEF P!Noticed
    <2> QED BY <2>1, <2>3, MobileKeepsOwing
  <1>5. CASE P!Unregister
    <2>1. behind' = behind /\ failed' = failed
      BY <1>5 DEF P!Unregister
    <2>2. /\ UNCHANGED <<android, slot, full, thread>>
          /\ owner = "unregister" /\ owner' = "unfile"
      BY <1>5 DEF P!Unregister
    <2>3. CASE UNCHANGED <<registered, announced>>
      <3>1. P!LiveStores' = P!LiveStores /\ P!Noticed' = P!Noticed
        BY <2>2, <2>3 DEF P!LiveStores, P!Noticed, P!InFlight
      <3> QED BY <2>1, <3>1, MobileKeepsOwing
    <2>4. CASE registered' = FALSE /\ announced' \in {announced, FALSE}
      <3>1. P!LiveStores' = {} /\ (P!Noticed' => P!Noticed)
        <4>1. (announced' /\ slot') => (announced /\ slot)
          BY <2>2, <2>4 DEF MobileInv, MobileFlags
        <4>2. P!Noticed' => P!Noticed
          BY <2>2, <4>1 DEF P!Noticed, P!InFlight
        <4>3. P!LiveStores' = {}
          BY <2>4 DEF P!LiveStores
        <4> QED BY <4>2, <4>3
      <3> QED BY <2>1, <3>1, MobileKeepsOwing
    <2> QED BY <1>5, <2>3, <2>4 DEF P!Unregister
  <1>6. CASE P!Unfile
    <2>1. behind' = behind /\ failed' = failed /\ P!LiveStores' = {}
      BY <1>6 DEF P!Unfile, P!LiveStores
    <2>2. P!Noticed' => P!Noticed
      BY <1>6 DEF P!Unfile, P!Noticed, P!InFlight
    <2> QED BY <2>1, <2>2, MobileKeepsOwing
  <1>9. CASE P!HangUp \/ P!Join
    <2>1. /\ UNCHANGED <<android, registered, announced, slot, full, thread, behind, failed>>
          /\ owner \in {"hang up", "join"} /\ owner' \in {"join", "dropped"}
      BY <1>9 DEF P!HangUp, P!Join
    <2>2. P!LiveStores' = P!LiveStores /\ P!Noticed' = P!Noticed
      BY <2>1 DEF P!LiveStores, P!Noticed, P!InFlight
    <2> QED BY <2>1, <2>2, MobileKeepsOwing
  <1>7. CASE P!Receive \/ P!Timeout \/ P!WindowCloses
    <2>1. behind' = behind /\ failed' = failed /\ P!LiveStores' = P!LiveStores
      BY <1>7 DEF P!Receive, P!Timeout, P!WindowCloses, P!LiveStores
    <2>2. P!Noticed => P!Noticed'
      BY <1>7 DEF P!Receive, P!Timeout, P!WindowCloses, P!Noticed, P!InFlight
    <2>3. P!Noticed' = P!Noticed \/ P!Noticed' = TRUE BY <2>2 DEF P!Noticed
    <2> QED BY <2>1, <2>3, MobileKeepsOwing
  <1>8. CASE P!Disconnected
    <2>1. behind' = behind /\ failed' = failed /\ P!LiveStores' = {}
      BY <1>8 DEF P!Disconnected, P!LiveStores
    <2>2. P!Noticed' => P!Noticed
      BY <1>8 DEF P!Disconnected, P!Noticed, P!InFlight
    <2> QED BY <2>1, <2>2, MobileKeepsOwing
  <1> QED BY <1>1, <1>2, <1>3, <1>4, <1>5, <1>6, <1>7, <1>8, <1>9 DEF P!Drop

\* Every step of the poll thread's backends is one of Follower, or a stutter.
LEMMA MobileFollows ==
  ASSUME OnMobile, MobileInv, P!Next
  PROVE  Follows
  BY MobileFollowsWrites, MobileFollowsReads, MobileFollowsRegistration, MobileFollowsRest
  DEF P!Next, P!Construct, P!Run


-----------------------------------------------------------------------------
(* All of them.                                                            *)

\* The platform does not change, and its part keeps its invariant.
BackendInv ==
    \/ platform = "windows" /\ WinInv
    \/ platform = "macos" /\ MacInv
    \/ platform = "mobile" /\ MobileInv

\* The initial state chooses the platform.
LEMMA BackendInvInit == BackendInit => BackendInv
  BY WinInvInit, MacInvInit, MobileInvInit DEF BackendInit, BackendInv

\* A stutter changes nothing.
LEMMA BackendStutter == BackendInv /\ UNCHANGED allVars => BackendInv'
  <1> SUFFICES ASSUME BackendInv, UNCHANGED allVars PROVE BackendInv'
    OBVIOUS
  <1> USE DEF allVars, sharedVars, winVars, macVars, mobileVars
  <1>1. CASE platform = "windows" /\ WinInv
    <2>1. WinTypes' /\ WinFlags' BY <1>1 DEF WinInv, WinTypes, WinFlags
    <2>2. WinPlaces' /\ WinKeys' BY <1>1 DEF WinInv, WinPlaces, WinKeys, Ended
    <2>3. WinReads' /\ WinOwed' BY <1>1 DEF WinInv, WinReads, WinOwed, Reading
    <2>4. WinHealth' BY <1>1 DEF WinInv, WinHealth
    <2> QED BY <1>1, <2>1, <2>2, <2>3, <2>4 DEF BackendInv, WinInv
  <1>2. CASE platform = "macos" /\ MacInv
    <2>1. MacFlags' BY <1>2 DEF MacInv, MacFlags
    <2>2. MacPlaces' /\ MacTypes' BY <1>2 DEF MacInv, MacPlaces, MacTypes, M!Ended
    <2>3. MacChased' BY <1>2 DEF MacInv, MacChased, M!Reading
    <2> QED BY <1>2, <2>1, <2>2, <2>3 DEF BackendInv, MacInv
  <1>3. CASE platform = "mobile" /\ MobileInv
    <2>1. MobileFlags' BY <1>3 DEF MobileInv, MobileFlags
    <2>2. MobilePlaces' /\ MobileTypes' BY <1>3 DEF MobileInv, MobilePlaces, MobileTypes
    <2>3. MobileChased' BY <1>3 DEF MobileInv, MobileChased, P!Reading
    <2> QED BY <1>3, <2>1, <2>2, <2>3 DEF BackendInv, MobileInv
  <1> QED BY <1>1, <1>2, <1>3 DEF BackendInv

\* Every step keeps the invariant, and is one of Follower or a stutter.
LEMMA BackendStep == BackendInv /\ [BackendNext]_allVars => BackendInv' /\ Follows
  <1> SUFFICES ASSUME BackendInv, [BackendNext]_allVars PROVE BackendInv' /\ Follows
    OBVIOUS
  <1>1. CASE UNCHANGED allVars
    <2>1. BackendInv' BY <1>1, BackendStutter
    <2>2. UNCHANGED Follow!followVars
      <3> USE <1>1 DEF allVars, sharedVars, winVars, macVars, mobileVars
      <3>1. behind' = behind /\ failed' = failed /\ Absent' = Absent BY DEF Absent
      <3>2. /\ LiveStores' = LiveStores /\ M!LiveStores' = M!LiveStores
            /\ P!LiveStores' = P!LiveStores
        BY DEF LiveStores, Stopped, Ended, M!LiveStores, P!LiveStores
      <3>3. Noticed' = Noticed
        BY DEF Noticed, InFlight, Stopped, Ended
      <3>4. M!Noticed' = M!Noticed /\ P!Noticed' = P!Noticed
        BY DEF M!Noticed, P!Noticed, M!InFlight, P!InFlight
      <3>5. platform' = platform OBVIOUS
      <3>6. BackendLive' = BackendLive
        BY <3>2, <3>5, Zenon DEF BackendLive
      <3>7. BackendNoticed' = BackendNoticed
        BY <3>3, <3>4, <3>5, Zenon DEF BackendNoticed
      <3> QED BY <3>1, <3>6, <3>7 DEF Follow!followVars
    <2> QED BY <2>1, <2>2 DEF Follows
  <1>2. CASE OnWindows /\ Next
    <2>1. WinInv /\ platform' = "windows" BY <1>2 DEF BackendInv, OnWindows
    <2> QED BY <1>2, <2>1, WinInvStep, WinFollows DEF BackendInv
  <1>3. CASE OnMacos /\ M!Next
    <2>1. MacInv /\ platform' = "macos" BY <1>3 DEF BackendInv, OnMacos
    <2> QED BY <1>3, <2>1, MacInvStep, MacFollows DEF BackendInv
  <1>4. CASE OnMobile /\ P!Next
    <2>1. MobileInv /\ platform' = "mobile" BY <1>4 DEF BackendInv, OnMobile
    <2> QED BY <1>4, <2>1, MobileInvStep, MobileFollows DEF BackendInv
  <1> QED BY <1>1, <1>2, <1>3, <1>4 DEF BackendNext

\* In every reachable state.
LEMMA BackendInvariant == BackendSpec => []BackendInv
  <1>1. BackendInv /\ [BackendNext]_allVars => BackendInv'
    BY BackendStep
  <1> QED BY <1>1, BackendInvInit, PTL DEF BackendSpec

\* The types of the platform there is.
LEMMA BackendTypes == BackendInv => BackendTypeOK
  <1>1. CASE platform = "windows" /\ WinInv
    BY <1>1, WinTypeFollows DEF BackendTypeOK
  <1>2. CASE platform = "macos" /\ MacInv
    BY <1>2, MacTypeFollows DEF BackendTypeOK
  <1>3. CASE platform = "mobile" /\ MobileInv
    BY <1>3, MobileTypeFollows DEF BackendTypeOK
  <1> QED BY <1>1, <1>2, <1>3 DEF BackendInv

\* Before the first step nothing was copied and a read is owed.
LEMMA BackendInitFollows == BackendInit => Follow!Init
  <1> SUFFICES ASSUME BackendInit PROVE Follow!Init
    OBVIOUS
  <1>1. CASE platform = "windows" /\ Init
    <2>1. behind \cup Absent = Stores \cup Settings /\ failed = FALSE
      BY <1>1 DEF Init, Absent
    <2>2. BackendLive = {}
      BY <1>1 DEF Init, BackendLive, LiveStores
    <2>3. BackendNoticed = TRUE
      BY <1>1 DEF Init, BackendNoticed, Noticed, InFlight, Stopped, Ended
    <2> QED BY <2>1, <2>2, <2>3 DEF Follow!Init
  <1>2. CASE platform = "macos" /\ M!Init
    <2>1. behind \cup Absent = Stores \cup Settings /\ failed = FALSE
      BY <1>2 DEF M!Init, Absent
    <2>2. BackendLive = {}
      BY <1>2 DEF M!Init, BackendLive, M!LiveStores
    <2>3. BackendNoticed = TRUE
      BY <1>2 DEF M!Init, BackendNoticed, M!Noticed, M!InFlight
    <2> QED BY <2>1, <2>2, <2>3 DEF Follow!Init
  <1>3. CASE platform = "mobile" /\ P!Init
    <2>1. behind \cup Absent = Stores \cup Settings /\ failed = FALSE
      BY <1>3 DEF P!Init, Absent
    <2>2. BackendLive = {}
      BY <1>3 DEF P!Init, BackendLive, P!LiveStores
    <2>3. BackendNoticed = TRUE
      BY <1>3 DEF P!Init, BackendNoticed, P!Noticed, P!InFlight
    <2> QED BY <2>1, <2>2, <2>3 DEF Follow!Init
  <1> QED BY <1>1, <1>2, <1>3 DEF BackendInit

\* Each backend implements Follower, whatever the keys and the retries: a change
\* that a live route reports is copied, or a read is owed for it, or the newest
\* read failed.
THEOREM BackendsFollow == BackendSpec => FollowsTheSettings
  <1>1. BackendInv /\ [BackendNext]_allVars => [Follow!Next]_Follow!followVars
    BY BackendStep DEF Follows
  <1> QED
    BY <1>1, BackendInvariant, BackendTypes, BackendInitFollows, PTL
    DEF BackendSpec, FollowsTheSettings, Follow!Spec

\* Every key that was asked for and can no longer notify is told while the
\* thread waits, and has_live_notifications says whether one is left.
THEOREM LostRoutesAreTold == BackendSpec => []WindowsTellsRoutes
  <1>1. BackendInv => WindowsTellsRoutes
    <2> SUFFICES ASSUME WinInv, platform = "windows" PROVE RoutesAreTold
      BY DEF BackendInv, WindowsTellsRoutes
    <2>1. TypeOK BY WinTypeFollows
    <2> SUFFICES ASSUME owner = "ready", thread = "wait"
                 PROVE  LET deaf == Stores \ (armed \union signaled) IN
                        /\ \A k \in deaf : k \in constructed \union degraded
                                              \/ (k = Policy /\ ~policyWanted)
                        /\ (live0 /\ ~dark) <=> deaf # Stores
      BY <2>1 DEF RoutesAreTold
    <2>2. alive = armed \cup signaled
      BY NothingAssumption DEF WinInv, WinKeys, WinTypes, Ended
    <2>3. toArm = {} /\ (live0 /\ ~dark <=> alive # {})
      BY DEF WinInv, WinHealth
    <2>4. \A k \in Stores \ alive : k \in constructed \cup degraded
                                      \/ (k = Policy /\ ~policyWanted)
      BY <2>3 DEF WinInv, WinHealth
    <2>5. Stores \ alive # Stores <=> alive # {}
      BY DEF WinInv, WinTypes
    <2> QED BY <2>2, <2>3, <2>4, <2>5
  <1> QED BY <1>1, BackendInvariant, PTL

\* A loop that ends over a re-arm has re-read what was outdated when it failed.
THEOREM TheLastReadComesFirst == BackendSpec => []WindowsReadsLast
  <1>1. BackendInv => WindowsReadsLast
    BY DEF BackendInv, WinInv, WinOwed, WindowsReadsLast, LastReadFirst
  <1> QED BY <1>1, BackendInvariant, PTL

-----------------------------------------------------------------------------
(* What Follower promises a reader of the copy, every backend inherits.    *)

\* Nothing was copied, and a read is owed, before the first step.
LEMMA FollowerStarts == Follow!Init => Follow!FollowInv
  BY DEF Follow!Init, Follow!FollowInv, Follow!FollowTypeOK, Follow!SettledIsCurrent

\* A write, a route that comes up and a store that goes away keep the promise:
\* whichever concerns a live route owes a read.
LEMMA FollowerStoreStep ==
  ASSUME NEW s \in Stores \cup Settings, Follow!FollowInv,
         Follow!Write(s) \/ Follow!Attach(s) \/ Follow!Lose(s)
  PROVE  Follow!FollowInv'
  <1> USE DEF Follow!FollowInv, Follow!FollowTypeOK, Follow!SettledIsCurrent, Follow!Owed
  <1>1. CASE Follow!Write(s)
    <2>1. CASE s \in BackendLive
      BY <1>1, <2>1 DEF Follow!Write
    <2>2. CASE s \notin BackendLive
      BY <1>1, <2>2 DEF Follow!Write
    <2> QED BY <2>1, <2>2
  <1>2. CASE Follow!Attach(s)
    <2>1. CASE s \in behind \cup Absent
      BY <1>2, <2>1 DEF Follow!Attach
    <2>2. CASE s \notin behind \cup Absent
      BY <1>2, <2>2 DEF Follow!Attach
    <2> QED BY <2>1, <2>2
  <1>3. CASE Follow!Lose(s)
    <2>1. CASE s \in BackendLive
      BY <1>3, <2>1 DEF Follow!Lose
    <2>2. CASE s \notin BackendLive
      BY <1>3, <2>2 DEF Follow!Lose
    <2> QED BY <2>1, <2>2
  <1> QED BY <1>1, <1>2, <1>3

\* So do the steps of the backend.
LEMMA FollowerBackendStep ==
  ASSUME Follow!FollowInv,
         Follow!Detach \/ Follow!Ask \/ Follow!Settle \/ Follow!Publish \/ Follow!PublishFailure
  PROVE  Follow!FollowInv'
  <1> USE DEF Follow!FollowInv, Follow!FollowTypeOK, Follow!SettledIsCurrent, Follow!Owed
  <1>1. CASE Follow!Detach
    <2>1. Follow!FollowTypeOK'
      BY <1>1 DEF Follow!Detach
    <2>2. CASE BackendNoticed' = BackendNoticed
      BY <1>1, <2>1, <2>2 DEF Follow!Detach
    <2>3. CASE /\ BackendNoticed' = FALSE
               /\ ((behind \cup Absent) \intersect BackendLive' = {} \/ failed)
      BY <1>1, <2>1, <2>3 DEF Follow!Detach
    <2> QED BY <1>1, <2>2, <2>3 DEF Follow!Detach
  <1>2. CASE Follow!Ask
    BY <1>2 DEF Follow!Ask
  <1>3. CASE Follow!Settle
    BY <1>3 DEF Follow!Settle
  <1>4. CASE Follow!Publish
    BY <1>4 DEF Follow!Publish
  <1>5. CASE Follow!PublishFailure
    BY <1>5 DEF Follow!PublishFailure
  <1> QED BY <1>1, <1>2, <1>3, <1>4, <1>5

\* With nothing in flight and the newest read not failed, the copy of every
\* backend is right about each store whose route it takes for live.
THEOREM SettledCopiesAreCurrent == BackendSpec => []Follow!SettledIsCurrent
  <1>1. Follow!FollowInv /\ [Follow!Next]_Follow!followVars => Follow!FollowInv'
    <2> SUFFICES ASSUME Follow!FollowInv, [Follow!Next]_Follow!followVars
                 PROVE  Follow!FollowInv'
      OBVIOUS
    <2>1. CASE Follow!Next
      BY <2>1, FollowerStoreStep, FollowerBackendStep DEF Follow!Next
    <2>2. CASE UNCHANGED Follow!followVars
      BY <2>2 DEF Follow!followVars, Follow!FollowInv, Follow!FollowTypeOK,
                  Follow!SettledIsCurrent
    <2> QED BY <2>1, <2>2
  <1>2. Follow!FollowInv => Follow!SettledIsCurrent
    BY DEF Follow!FollowInv
  <1> QED
    BY FollowerStarts, <1>1, <1>2, BackendsFollow, PTL DEF FollowsTheSettings, Follow!Spec
=============================================================================
