------------------------------ MODULE Backends ------------------------------
(***************************************************************************)
(* The backends whose notifications one thread reads: Windows, macOS, and  *)
(* Android with iOS.  The crate is built for one of them, which is chosen  *)
(* in the initial state; their variables of one name are one variable, and *)
(* the variables of the others stay as they are.                           *)
(*                                                                         *)
(* Each of them is to follow the settings as Follower does.                *)
(***************************************************************************)
EXTENDS WinWatch

CONSTANTS
    user, policy, machine,  \* the keys of the Windows registry
    settings,               \* what the others read, all of it at once
    MaxRetries              \* of macOS

AllKeys == <<user, policy, machine>>
Settings == {settings}

ASSUME SettingsAssumption == settings \notin Stores \cup {Nothing}
ASSUME RetriesAssumption == MaxRetries \in Nat

VARIABLES
    platform,       \* "windows", "macos" or "mobile"
    stop, pollRequested, asked, wake, notified, changed, attempt, subscribed,
    android, registered, announced, slot, sender, full

M == INSTANCE MacWatch WITH Stores <- Settings
P == INSTANCE PollWatch WITH Stores <- Settings

sharedVars == <<polling, owner, thread, fresh, behind, failed>>
winVars == <<policyWanted, toArm, constructed, live0, deleted, armed, shutdown, pollNow,
             signaled, woken, alive, fatal, owed, degraded, dark>>
macVars == <<stop, pollRequested, asked, wake, notified, changed, attempt, subscribed>>
mobileVars == <<android, registered, announced, slot, sender, full>>
allVars == <<platform, sharedVars, winVars, macVars, mobileVars>>

NoWindows ==
    /\ policyWanted = FALSE /\ toArm = {} /\ constructed = {} /\ live0 = FALSE
    /\ deleted = {} /\ armed = {} /\ shutdown = FALSE /\ pollNow = FALSE
    /\ signaled = {} /\ woken = Nothing /\ alive = {} /\ fatal = FALSE /\ owed = {}
    /\ degraded = {} /\ dark = FALSE

NoMacos ==
    /\ stop = FALSE /\ pollRequested = FALSE /\ asked = FALSE /\ wake = FALSE
    /\ notified = FALSE /\ changed = FALSE /\ attempt = 0 /\ subscribed = FALSE

NoMobile ==
    /\ android = FALSE /\ registered = FALSE /\ announced = FALSE /\ slot = FALSE
    /\ sender = FALSE /\ full = FALSE

BackendInit ==
    \/ platform = "windows" /\ Init /\ NoMacos /\ NoMobile
    \/ platform = "macos" /\ M!Init /\ NoWindows /\ NoMobile
    \/ platform = "mobile" /\ P!Init /\ NoWindows /\ NoMacos

OnWindows == platform = "windows" /\ UNCHANGED <<platform, macVars, mobileVars>>
OnMacos == platform = "macos" /\ UNCHANGED <<platform, winVars, mobileVars>>
OnMobile == platform = "mobile" /\ UNCHANGED <<platform, winVars, macVars>>

BackendNext ==
    \/ OnWindows /\ Next
    \/ OnMacos /\ M!Next
    \/ OnMobile /\ P!Next

BackendConstruct ==
    \/ OnWindows /\ Construct
    \/ OnMacos /\ M!Construct
    \/ OnMobile /\ P!Construct

\* A call of the owner that began goes on.
GoesOn ==
    \/ OnMacos /\ owner = "asking" /\ M!PollNow
    \/ OnMacos /\ owner \in {"give up", "stopping"} /\ M!Drop
    \/ OnMobile /\ P!Drop

BackendRun ==
    \/ OnWindows /\ Run
    \/ OnMacos /\ M!Run
    \/ OnMobile /\ P!Run

BackendWindowCloses ==
    \/ OnWindows /\ thread = "window" /\ WakeTimeout
    \/ OnMacos /\ M!WindowCloses
    \/ OnMobile /\ P!WindowCloses

\* Joined, or called back by the system.
Hears ==
    \/ OnWindows /\ Join
    \/ OnMacos /\ M!Join
    \/ OnMobile /\ P!Callback

\* The threads go on, a debounce window is a deadline, and the system calls back.
BackendFairness ==
    WF_allVars(BackendConstruct) /\ WF_allVars(GoesOn) /\ WF_allVars(BackendRun)
        /\ WF_allVars(BackendWindowCloses) /\ WF_allVars(Hears)

BackendSpec == BackendInit /\ [][BackendNext]_allVars /\ BackendFairness

-----------------------------------------------------------------------------
(* Properties.                                                             *)

BackendTypeOK ==
    CASE platform = "windows" -> TypeOK
      [] platform = "macos" -> M!TypeOK
      [] platform = "mobile" -> P!TypeOK

BackendLive ==
    CASE platform = "windows" -> LiveStores
      [] platform = "macos" -> M!LiveStores
      [] platform = "mobile" -> P!LiveStores

BackendNoticed ==
    CASE platform = "windows" -> Noticed
      [] platform = "macos" -> M!Noticed
      [] platform = "mobile" -> P!Noticed

\* Stores another platform has: never copied, and never live.
Absent == IF platform = "windows" THEN Settings ELSE Stores

\* Every backend follows its settings through the routes it takes for live: no
\* change is lost to a key that is deaf until it is armed again, to the time
\* between the first read and the subscription, to a read under way or to a
\* full channel.
Follow == INSTANCE Follower WITH
            Stores  <- Stores \cup Settings,
            behind  <- behind \cup Absent,
            live    <- BackendLive,
            noticed <- BackendNoticed
FollowsTheSettings == []BackendTypeOK /\ Follow!Spec

SystemWrites ==
    CASE platform = "windows" -> Environment
      [] platform = "macos" -> M!Write
      [] platform = "mobile" -> P!Write

BackendDue ==
    CASE platform = "windows" -> Due
      [] platform = "macos" -> M!Due
      [] platform = "mobile" -> P!Due

\* Once the system leaves the settings alone the copy is right in every store
\* that is due, or the newest read failed, though poll_now is called for ever
\* and wakes never pause.
CatchesUp ==
    <>[][~SystemWrites]_allVars => <>[](failed \/ behind \intersect BackendDue = {})

\* poll_now is answered by a read that began after it, also when it was called
\* while the thread was reading or in a window already (macOS).
RequestsAreServed == asked ~> ~asked \/ stop

BackendDropping ==
    CASE platform = "windows" -> Dropping
      [] platform = "macos" -> M!Dropping
      [] platform = "mobile" -> P!Dropping

\* Drop returns: the thread learns that it is to stop however busy the registry
\* is, cannot miss it, and no sender outlives Drop though callbacks do.
DropReturns == BackendDropping ~> owner = "dropped"

\* On Windows, while the thread waits, every key that was asked for and can no
\* longer notify is listed as degraded, and has_live_notifications says whether
\* one is left that can.
WindowsTellsRoutes == platform = "windows" => RoutesAreTold

\* "after one last read, since the notification that failed to re-arm had
\* already announced a change": a loop that ends over a re-arm has re-read
\* what was outdated then.
WindowsReadsLast == platform = "windows" => LastReadFirst
=============================================================================
