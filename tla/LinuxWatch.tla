----------------------------- MODULE LinuxWatch -----------------------------
(***************************************************************************)
(* The Linux backend: src/src/sys/linux/watcher.rs with the notification   *)
(* sources of kde/watch.rs and gnome.rs, from construction to Drop.        *)
(*                                                                         *)
(* Five threads: the owner (constructor, `poll_now`, `Drop`), the          *)
(* coordinator, notify's event loop, the GSettings loop and the poll       *)
(* timer.  All of them share one channel that holds a single wake, and the *)
(* coordinator learns of a lost `kioslaverc` directory only through the    *)
(* two atomics of `LossFlags`.  A store that one thread made to them is    *)
(* certain to be visible to the coordinator only after a send that         *)
(* succeeded (a refused `try_send` synchronizes nothing), so `known` keeps *)
(* what it is certain to see and Readable says what it may see.            *)
(***************************************************************************)
EXTENDS Integers, Sequences, FiniteSets, SequencesExt

CONSTANTS
    Cascade,        \* the directories that may hold kioslaverc, most specific first
    Within,         \* pairs <<d, e>>: directory d is an entry of directory e
    Leading,        \* the store is_leading_store answers for
    GSettings,      \* the other store
    Written,        \* the event "a kioslaverc was written"
    Nothing         \* an empty channel, an unset OnceLock

Directories == Range(Cascade)
Stores == Directories \union {GSettings}

ASSUME CascadeAssumption == Cascade \in Seq(Directories) /\ IsInjective(Cascade)
ASSUME WithinAssumption == Within \subseteq Directories \X Directories
ASSUME LeadingAssumption == Leading \in {"GSettings", "Kioslaverc"}
ASSUME StoreAssumption == GSettings \notin Directories
ASSUME EventAssumption == Written \notin Directories

\* The two atomics of LossFlags, as a thread may read them.
Flags == [lost : BOOLEAN, live : 0..Len(Cascade)]

ASSUME NothingAssumption == Nothing \notin Flags

Routes == {"portal", "gsettings", "stores"}

VARIABLES
    \* the caller's option, and what the machine has
    polling,        \* WatchOptions::poll_interval is set
    route,          \* the Route both the reads and the subscriptions take
    schema,         \* the GSettings schema is installed
    present,        \* the directories that exist (only removals are followed)
    \* the owner
    owner,          \* where the constructor or Drop is
    toRegister,     \* directories `watch` has yet to register with notify
    kde,            \* the KdeWatch
    gnome,          \* the GnomeWatch
    poll,           \* the poll thread runs
    construction,   \* the health recorded by the constructor
    \* the kernel and notify's event loop
    armed,          \* directories with an inotify watch on the path that is read
    events,         \* what notify has not handed to the callback yet
    notify,         \* where the callback is
    closing,        \* the watcher was dropped: the event loop is to end
    watched,        \* the callback's own list of directories
    lost,           \* LossFlags.lost
    liveCount,      \* LossFlags.live_directories
    created,        \* what the atomics were created with (history)
    countAtLoss,    \* liveCount when `lost` was first stored (history)
    \* the GSettings loop
    signal,         \* a changed signal has not been dispatched yet
    \* the coordinator
    pending,        \* the wake in the channel, with what its sender had stored
    coordinator,    \* where the coordinator is
    known,          \* what the coordinator is certain to see of the atomics
    reporting,      \* LossReport: what it still has to report
    lastLiveRoute,  \* LossReport.last_live_route
    \* the copy, and the health in Shared
    fresh,          \* stores not written since the read under way began
    behind,         \* stores written since they were last published
    failed,         \* the newest read failed
    degraded,       \* Shared: Kioslaverc is in runtime_degraded
    dark            \* Shared: runtime_no_live_notifications

machineVars == <<polling, route, schema>>
buildVars  == <<toRegister, kde, gnome, poll, construction>>
kernelVars == <<present, armed>>
lossVars   == <<watched, lost, liveCount, created, countAtLoss>>
loopVars   == <<events, notify, closing>>
readVars   == <<fresh, behind, failed>>
reportVars == <<reporting, lastLiveRoute, degraded, dark>>
vars == <<machineVars, owner, buildVars, kernelVars, lossVars, loopVars, signal,
          pending, coordinator, known, readVars, reportVars>>

-----------------------------------------------------------------------------
(* The channel.                                                            *)

Dropping == {"drop", "join"}
Gone == {"failed", "dropped"}

\* Every clone of the trigger: Watch's own, and one in each source's closure.
SenderLeft ==
    \/ owner \notin {"join"} \union Gone
    \/ gnome = "live"
    \/ notify # "none"
    \/ poll

ReceiverLeft == coordinator # "stopped" /\ ~(coordinator = "unborn" /\ owner \in Gone)

\* What a thread that never stored to the atomics publishes with its send.
Uninformed == [lost |-> FALSE, live |-> Len(Cascade)]

\* wake: a try_send.  Refused because a wake is pending, it publishes nothing.
Wake(flags) ==
    pending' = IF pending = Nothing /\ ReceiverLeft THEN flags ELSE pending

\* What a thread may read, given what it is certain of.  Reading the
\* flag with Acquire shows the count that preceded its first Release store.
Readable(certain) ==
    {flags \in Flags :
        /\ flags.lost \in {certain.lost, lost}
        /\ flags.live \in liveCount..certain.live
        /\ flags.lost => flags.live <= countAtLoss}

-----------------------------------------------------------------------------
Init ==
    /\ polling \in BOOLEAN
    /\ route \in Routes
    /\ schema \in BOOLEAN
    /\ present \in SUBSET Directories
    /\ owner = "arm"
    /\ toRegister = {}
    /\ kde = "none"
    /\ gnome = "none"
    /\ poll = FALSE
    /\ construction = Nothing
    /\ armed = {}
    /\ events = {}
    /\ notify = "none"
    /\ closing = FALSE
    /\ watched = {}
    /\ lost = FALSE
    /\ liveCount = Len(Cascade)
    /\ created = Uninformed
    /\ countAtLoss = Len(Cascade)
    /\ signal = FALSE
    /\ pending = Nothing
    /\ coordinator = "unborn"
    /\ known = Uninformed
    /\ reporting = "nothing"
    /\ lastLiveRoute = FALSE
    /\ fresh = Stores
    /\ behind = Stores
    /\ failed = FALSE
    /\ degraded = FALSE
    /\ dark = FALSE

-----------------------------------------------------------------------------
(* The settings change.                                                    *)

Reading == owner = "read" \/ coordinator = "read"

\* `s` no longer holds what was read or published.
Outdated(s) ==
    /\ behind' = behind \union {s}
    /\ fresh' = IF Reading THEN fresh \ {s} ELSE fresh
    /\ UNCHANGED failed

WriteGSettings ==
    /\ schema
    /\ Outdated(GSettings)
    /\ signal' = (signal \/ gnome = "live")
    /\ UNCHANGED <<machineVars, owner, buildVars, kernelVars, lossVars, loopVars,
                   pending, coordinator, known, reportVars>>

\* A kioslaverc is written; the directory may have been created for it.
WriteLayer(d) ==
    /\ Outdated(d)
    /\ events' = IF d \in armed THEN events \union {Written} ELSE events
    /\ UNCHANGED <<machineVars, owner, buildVars, kernelVars, lossVars, notify,
                   closing, signal, pending, coordinator, known, reportVars>>

\* A directory is removed or renamed, its entries first.  Its own watch says
\* so, and so does the watch of the directory it is an entry of.
RemoveDirectory(d) ==
    /\ d \in present
    /\ \A e \in present : <<e, d>> \notin Within
    /\ present' = present \ {d}
    /\ armed' = armed \ {d}
    /\ Outdated(d)
    /\ events' = IF d \in armed \/ \E e \in armed : <<d, e>> \in Within
                   THEN events \union {d}
                   ELSE events
    /\ UNCHANGED <<machineVars, owner, buildVars, lossVars, notify, closing,
                   signal, pending, coordinator, known, reportVars>>

-----------------------------------------------------------------------------
(* Construction: Watch::armed, the first read, Watch::spawn, Watch::health. *)

\* watch_fail_soft: a leading store's failure is fatal when nothing polls.
Fatal(store) == store = Leading /\ ~polling

\* armed reads no kioslaverc store on this route, or finds no directory.
ArmNothing ==
    /\ owner = "arm"
    /\ owner' = "read"
    /\ \/ route # "stores" /\ kde' = kde
       \/ route = "stores" /\ present = {} /\ kde' = "absent"
    /\ UNCHANGED <<machineVars, toRegister, gnome, poll, construction,
                   kernelVars, lossVars, loopVars, signal, pending, coordinator, known, readVars,
                   reportVars>>

\* Establishing the kioslaverc watch fails; notify's loop, if there is one, is
\* told to end.
EstablishFails ==
    /\ IF Fatal("Kioslaverc")
         THEN owner' = "failed" /\ kde' = kde
         ELSE owner' = "read" /\ kde' = "degraded"
    /\ toRegister' = {}
    /\ armed' = {}
    /\ closing' = (notify # "none")

\* watch_targets keeps the directories that exist; the callback gets its own
\* copy of the list.  A missing leading candidate counts as already lost.
CreateWatcher ==
    /\ owner = "arm"
    /\ route = "stores"
    /\ present # {}
    /\ \/ /\ owner' = "register"
          /\ toRegister' = present
          /\ watched' = present
          /\ liveCount' = Cardinality(present)
          /\ countAtLoss' = Cardinality(present)
          /\ lost' = (Cascade[1] \notin present)
          /\ created' = [lost |-> lost', live |-> liveCount']
          /\ known' = created'
          /\ notify' = "idle"
          /\ UNCHANGED <<kde, armed, closing>>
       \/ EstablishFails /\ UNCHANGED <<lossVars, known, notify>>
    /\ UNCHANGED <<machineVars, gnome, poll, construction, present, events,
                   signal, pending, coordinator, readVars, reportVars>>

\* Registering a directory waits for notify's event loop to answer, so not
\* while its callback runs.  A directory that has gone cannot be registered,
\* and the kernel may have no watch left for one that is there.
RegisterDirectory ==
    /\ owner = "register"
    /\ toRegister # {}
    /\ notify = "idle"
    /\ LET d == Cascade[Min({i \in DOMAIN Cascade : Cascade[i] \in toRegister})] IN
         \/ /\ d \in present
            /\ armed' = armed \union {d}
            /\ toRegister' = toRegister \ {d}
            /\ UNCHANGED <<owner, kde, closing>>
         \/ EstablishFails
    /\ UNCHANGED <<machineVars, gnome, poll, construction, present, lossVars,
                   events, notify, signal, pending, coordinator, known,
                   readVars, reportVars>>

Registered ==
    /\ owner = "register"
    /\ toRegister = {}
    /\ owner' = "read"
    /\ kde' = "live"
    /\ UNCHANGED <<machineVars, toRegister, gnome, poll, construction,
                   kernelVars, lossVars, loopVars, signal, pending,
                   coordinator, known, readVars, reportVars>>

\* read_config_in looks at one store after another: a store written since the
\* read began may have been looked at before the write or after it.
Copied(stores) == fresh \subseteq stores /\ behind' = behind \ stores

\* The constructor's own read_config_in; its failure drops the armed watch.
InitialRead ==
    /\ owner = "read"
    /\ \/ /\ owner' = "gnome"
          /\ failed' = FALSE
          /\ \E stores \in SUBSET Stores : Copied(stores)
       \/ owner' = "drop" /\ failed' = TRUE /\ behind' = behind
    /\ fresh' = Stores
    /\ UNCHANGED <<machineVars, buildVars, kernelVars, lossVars, loopVars,
                   signal, pending, coordinator, known, reportVars>>

\* gnome_start_fail_soft, once the subscription is live or is not.
StartGSettings ==
    /\ owner = "gnome"
    /\ \/ route = "portal" /\ gnome' = gnome /\ owner' = "spawn"
       \/ route # "portal" /\ ~schema /\ gnome' = "absent" /\ owner' = "spawn"
       \/ route # "portal" /\ schema /\ gnome' = "live" /\ owner' = "force"
       \/ /\ route # "portal"
          /\ schema
          /\ IF Fatal("GSettings")
               THEN owner' = "drop" /\ gnome' = gnome
               ELSE owner' = "spawn" /\ gnome' = "degraded"
    /\ UNCHANGED <<machineVars, toRegister, kde, poll, construction, kernelVars,
                   lossVars, loopVars, signal, pending, coordinator, known,
                   readVars, reportVars>>

\* A subscription that trusts its first signal to come.
TrustSubscription ==
    /\ owner = "force"
    /\ owner' = "spawn"
    /\ UNCHANGED <<machineVars, buildVars, kernelVars, lossVars, loopVars,
                   signal, pending, coordinator, known, readVars, reportVars>>

\* The subscription came after the first read: re-read once for the gap.
ForceRead ==
    /\ owner = "force"
    /\ Wake(Uninformed)
    /\ owner' = "spawn"
    /\ UNCHANGED <<machineVars, buildVars, kernelVars, lossVars, loopVars,
                   signal, coordinator, known, readVars, reportVars>>

\* The poll thread and the coordinator; either may fail to start.
SpawnThreads ==
    /\ owner = "spawn"
    /\ poll' \in {polling, FALSE}
    /\ \/ /\ poll' = polling
          /\ coordinator' = "recv"
          /\ owner' = "health"
          /\ reporting' = IF kde = "live" THEN "both" ELSE "nothing"
          /\ lastLiveRoute' = (gnome # "live")
       \/ owner' = "drop" /\ UNCHANGED <<coordinator, reporting, lastLiveRoute>>
    /\ UNCHANGED <<machineVars, toRegister, kde, gnome, construction,
                   kernelVars, lossVars, loopVars, signal, pending, known,
                   readVars, degraded, dark>>

\* Watch::health, and Shared's record of it.  The constructing thread is
\* certain of nothing but the values it created the atomics with.
RecordHealth ==
    /\ owner = "health"
    /\ \E flags \in Readable(created) :
         construction' =
            [gsettings  |-> gnome = "degraded",
             kioslaverc |-> kde = "degraded" \/ (kde = "live" /\ flags.lost),
             live       |-> gnome = "live" \/ (kde = "live" /\ flags.live > 0)]
    /\ owner' = "ready"
    /\ UNCHANGED <<machineVars, toRegister, kde, gnome, poll, kernelVars,
                   lossVars, loopVars, signal, pending, coordinator, known,
                   readVars, reportVars>>

-----------------------------------------------------------------------------
(* poll_now, the poll thread and the GSettings loop: they only wake.       *)

OnlyWake ==
    /\ Wake(Uninformed)
    /\ UNCHANGED <<machineVars, owner, toRegister, kde, gnome, construction,
                   kernelVars, lossVars, loopVars, coordinator, known,
                   readVars, reportVars>>

PollNow ==
    /\ owner = "ready"
    /\ OnlyWake
    /\ UNCHANGED <<poll, signal>>

\* A timer that takes a refused wake for a receiver that has gone.
PollTickOnce ==
    /\ poll
    /\ poll' = (ReceiverLeft /\ pending = Nothing)
    /\ OnlyWake
    /\ UNCHANGED signal

\* The thread returns when it finds the receiver gone.
PollTick ==
    /\ poll
    /\ poll' = ReceiverLeft
    /\ OnlyWake
    /\ UNCHANGED signal

DispatchSignal ==
    /\ signal
    /\ signal' = FALSE
    /\ OnlyWake
    /\ UNCHANGED poll

-----------------------------------------------------------------------------
(* loss_callback, on notify's event loop.                                  *)

OwnerOnlyLoop == UNCHANGED <<machineVars, owner, buildVars, kernelVars, created,
                             signal, coordinator, known, readVars, reportVars>>

\* The event concerns a kioslaverc.
SeeWrite ==
    /\ notify = "idle"
    /\ Written \in events
    /\ events' = events \ {Written}
    /\ notify' = "wake"
    /\ UNCHANGED <<closing, watched, lost, liveCount, countAtLoss, pending>>
    /\ OwnerOnlyLoop

\* The event names directories; drop_ended_directories counts those still on
\* the callback's list, and fetch_sub takes them off the count.
SeeEnd ==
    /\ notify = "idle"
    /\ \E named \in SUBSET (events \intersect Directories) \ {{}} :
         LET ended == named \intersect watched IN
         /\ events' = events \ named
         /\ watched' = watched \ ended
         /\ liveCount' = liveCount - Cardinality(ended)
         /\ notify' = IF ended # {} THEN "flag" ELSE "idle"
    /\ UNCHANGED <<closing, lost, countAtLoss, pending>>
    /\ OwnerOnlyLoop

\* A callback that leaves the last loss to a wake that may be refused.
StoreLostAndTry ==
    /\ notify = "flag"
    /\ lost' = TRUE
    /\ countAtLoss' = IF lost THEN countAtLoss ELSE liveCount
    /\ notify' = "wake"
    /\ UNCHANGED <<events, closing, watched, liveCount, pending>>
    /\ OwnerOnlyLoop

\* The Release store, and the choice of the wake.
StoreLost ==
    /\ notify = "flag"
    /\ lost' = TRUE
    /\ countAtLoss' = IF lost THEN countAtLoss ELSE liveCount
    /\ notify' = IF liveCount = 0 THEN "deliver" ELSE "wake"
    /\ UNCHANGED <<events, closing, watched, liveCount, pending>>
    /\ OwnerOnlyLoop

Stored == [lost |-> lost, live |-> liveCount]

CallbackWakes ==
    /\ notify = "wake"
    /\ Wake(Stored)
    /\ notify' = "idle"
    /\ UNCHANGED <<events, closing, watched, lost, liveCount, countAtLoss>>
    /\ OwnerOnlyLoop

\* wake_delivered: a send that blocks until it is taken, or the receiver goes.
CallbackDelivers ==
    /\ notify = "deliver"
    /\ pending = Nothing \/ ~ReceiverLeft
    /\ Wake(Stored)
    /\ notify' = "idle"
    /\ UNCHANGED <<events, closing, watched, lost, liveCount, countAtLoss>>
    /\ OwnerOnlyLoop

\* The loop ends between two callbacks, and drops the closure.
LoopEnds ==
    /\ closing
    /\ notify = "idle"
    /\ notify' = "none"
    /\ events' = {}
    /\ UNCHANGED <<closing, watched, lost, liveCount, countAtLoss, pending>>
    /\ OwnerOnlyLoop

-----------------------------------------------------------------------------
(* The coordinator.                                                        *)

CoordinatorOnly == UNCHANGED <<machineVars, owner, buildVars, kernelVars,
                               lossVars, loopVars, signal, lastLiveRoute>>

\* A received wake publishes what its sender had stored before.
Receive ==
    /\ pending # Nothing
    /\ pending' = Nothing
    /\ known' = [lost |-> known.lost \/ pending.lost,
                 live |-> Min({known.live, pending.live})]

\* A window that begins anew with every wake.
TakeWakeAnew ==
    /\ coordinator \in {"recv", "window", "due"}
    /\ Receive
    /\ coordinator' = "window"
    /\ UNCHANGED <<readVars, reporting, degraded, dark>>
    /\ CoordinatorOnly

\* recv, and every recv_timeout of the debounce window.
TakeWake ==
    /\ coordinator \in {"recv", "window"}
    /\ Receive
    /\ coordinator' = "window"
    /\ UNCHANGED <<readVars, reporting, degraded, dark>>
    /\ CoordinatorOnly

\* Every sender is gone: leave, from the window too, without publishing.
Disconnected ==
    /\ coordinator \in {"recv", "window"}
    /\ pending = Nothing
    /\ ~SenderLeft
    /\ coordinator' = "stopped"
    /\ UNCHANGED <<pending, known, readVars, reporting, degraded, dark>>
    /\ CoordinatorOnly

\* The deadline, fixed when the window opened, passes.
DeadlinePasses ==
    /\ coordinator = "window"
    /\ coordinator' = "due"
    /\ UNCHANGED <<pending, known, readVars, reporting, degraded, dark>>
    /\ CoordinatorOnly

\* Nothing remains of the window; a wake it has not consumed stays pending.
WindowCloses ==
    /\ coordinator = "due"
    /\ coordinator' = "loss"
    /\ UNCHANGED <<pending, known, readVars, reporting, degraded, dark>>
    /\ CoordinatorOnly

\* LossReport::check, before the read.  Each half is reported once.
CheckLoss ==
    /\ coordinator = "loss"
    /\ coordinator' = "read"
    /\ \E flags \in Readable(known) :
         /\ known' = flags
         /\ IF reporting = "nothing" \/ ~flags.lost
              THEN UNCHANGED <<reporting, degraded, dark>>
              ELSE /\ degraded' = TRUE
                   /\ dark' = (dark \/ (flags.live = 0 /\ lastLiveRoute))
                   /\ reporting' = IF flags.live = 0 THEN "nothing" ELSE "dark"
    /\ UNCHANGED <<pending, readVars>>
    /\ CoordinatorOnly

\* A coordinator that drains the channel again when it is done.
PublishAndDrain ==
    /\ coordinator = "read"
    /\ coordinator' = "recv"
    /\ \/ failed' = FALSE /\ \E stores \in SUBSET Stores : Copied(stores)
       \/ failed' = TRUE /\ behind' = behind
    /\ fresh' = Stores
    /\ pending' = Nothing
    /\ UNCHANGED <<known, reporting, degraded, dark>>
    /\ CoordinatorOnly

\* publish: emit what was read, or report the failure and keep the copy.
Publish ==
    /\ coordinator = "read"
    /\ coordinator' = "recv"
    /\ \/ failed' = FALSE /\ \E stores \in SUBSET Stores : Copied(stores)
       \/ failed' = TRUE /\ behind' = behind
    /\ fresh' = Stores
    /\ UNCHANGED <<pending, known, reporting, degraded, dark>>
    /\ CoordinatorOnly

-----------------------------------------------------------------------------
(* Drop: sources first, each of them owns a clone of the trigger.          *)

\* The GSettings loop is joined (its callback never blocks), notify's loop is
\* told to end but not waited for, the poll thread is joined (it never blocks
\* either), and then the owner's own trigger goes.  None of this waits for the
\* coordinator, so it is one step.
DropsSources(from) ==
    /\ owner = from
    /\ owner' = "join"
    /\ gnome' = IF gnome = "live" THEN "none" ELSE gnome
    /\ signal' = FALSE
    /\ poll' = FALSE
    /\ UNCHANGED <<machineVars, toRegister, kde, construction, present, lossVars,
                   events, notify, pending, coordinator, known, readVars,
                   reportVars>>

\* A Drop that leaves the notify watcher to the fields, dropped after the join.
DropMost(from) ==
    /\ DropsSources(from)
    /\ UNCHANGED <<armed, closing>>

DropSources(from) ==
    /\ DropsSources(from)
    /\ armed' = {}
    /\ closing' = (notify # "none")

Join ==
    /\ owner = "join"
    /\ coordinator \in {"unborn", "stopped"}
    /\ owner' = "dropped"
    /\ UNCHANGED <<machineVars, buildVars, kernelVars, lossVars, loopVars,
                   signal, pending, coordinator, known, readVars, reportVars>>

-----------------------------------------------------------------------------
Environment ==
    \/ WriteGSettings
    \/ \E d \in Directories : WriteLayer(d) \/ RemoveDirectory(d)

Construct ==
    \/ ArmNothing \/ CreateWatcher \/ RegisterDirectory \/ Registered
    \/ InitialRead \/ StartGSettings \/ ForceRead \/ SpawnThreads \/ RecordHealth

Loop == SeeWrite \/ SeeEnd \/ StoreLost \/ CallbackWakes \/ CallbackDelivers \/ LoopEnds

Coordinate == TakeWake \/ Disconnected \/ DeadlinePasses \/ WindowCloses \/ CheckLoss \/ Publish

Drop == DropSources("drop") \/ Join

Next ==
    \/ Environment
    \/ Construct
    \/ PollNow
    \/ PollTick
    \/ DispatchSignal
    \/ Loop
    \/ Coordinate
    \/ DropSources("ready")
    \/ Drop

\* Every thread that can take a step goes on; the timer keeps firing; notify's
\* loop gets round to a registration however many events it delivers; time
\* passes, so a deadline does, but nobody promises that a window closes.
Fairness ==
    /\ WF_vars(Construct)
    /\ SF_vars(RegisterDirectory)
    /\ WF_vars(PollTick)
    /\ WF_vars(DispatchSignal)
    /\ WF_vars(Loop)
    /\ WF_vars(DeadlinePasses)
    /\ WF_vars(Coordinate)
    /\ WF_vars(Drop)

Spec == Init /\ [][Next]_vars /\ Fairness

-----------------------------------------------------------------------------
(* Properties.                                                             *)

OwnerPlaces == {"arm", "register", "read", "gnome", "force", "spawn", "health",
                "ready"} \union Dropping \union Gone

ConstructionHealth == [gsettings : BOOLEAN, kioslaverc : BOOLEAN, live : BOOLEAN]

\* Every variable keeps the type of what it models.
TypeOK ==
    /\ polling \in BOOLEAN /\ route \in Routes /\ schema \in BOOLEAN
    /\ owner \in OwnerPlaces
    /\ kde \in {"none", "absent", "degraded", "live"}
    /\ gnome \in {"none", "absent", "degraded", "live"}
    /\ construction \in ConstructionHealth \union {Nothing}
    /\ present \in SUBSET Directories /\ armed \in SUBSET present
    /\ toRegister \in SUBSET Directories /\ watched \in SUBSET Directories
    /\ events \in SUBSET (Directories \union {Written})
    /\ notify \in {"none", "idle", "flag", "wake", "deliver"}
    /\ known \in Flags /\ created \in Flags
    /\ liveCount \in 0..Len(Cascade) /\ countAtLoss \in liveCount..Len(Cascade)
    /\ pending \in Flags \union {Nothing}
    /\ coordinator \in {"unborn", "recv", "window", "due", "loss", "read", "stopped"}
    /\ reporting \in {"nothing", "both", "dark"}
    /\ fresh \in SUBSET Stores /\ behind \in SUBSET Stores
    /\ \A flag \in {lost, poll, closing, signal, lastLiveRoute, failed, degraded, dark} :
          flag \in BOOLEAN

\* Something on its way to the coordinator, or being answered by it.
InFlight ==
    \/ pending # Nothing
    \/ signal
    \/ events # {}
    \/ notify \in {"flag", "wake", "deliver"}
    \/ coordinator \in {"window", "due", "loss", "read"}
    \/ owner \in {"arm", "register", "read", "force"}

LiveStores ==
    IF coordinator = "stopped" \/ owner \in Gone THEN {}
    ELSE armed \union IF gnome = "live" THEN {GSettings} ELSE {}

\* The watcher follows the settings: it never settles on a copy that a live
\* route has reported a newer write of; neither the gap between the first read
\* and the subscription, nor a refused wake, nor a write in the middle of a
\* read loses one.
Follow == INSTANCE Follower WITH live <- LiveStores, noticed <- InFlight
FollowsTheSettings == Follow!Spec

Health ==
    [degraded |-> degraded \/ construction.kioslaverc \/ construction.gsettings,
     live     |-> construction.live /\ ~dark]

\* While the coordinator has nothing to do, the health tells of every loss it
\* was told of, and of the last one in any case: once no directory is left
\* (and GSettings is not subscribed) no route is claimed to be live.
LossIsTold ==
    owner = "ready" /\ ~InFlight /\ kde = "live" =>
        /\ known.lost => Health.degraded
        /\ liveCount = 0 => Health.degraded /\ (gnome # "live" => ~Health.live)

\* The health never calls a watcher dark whose routes still deliver.
DarkIsTrue == owner = "ready" /\ ~Health.live => armed = {} /\ gnome # "live"

\* The health says of the routes what is true of them, neither less nor more
\* (watcher.rs: health, coordinate; kde/watch.rs: LossFlags).
HealthIsTrue == TypeOK /\ LossIsTold /\ DarkIsTrue

\* However the coordinator, the callbacks and the timer stand, Drop returns.
DropReturns == owner \in Dropping ~> owner = "dropped"

\* watcher.rs:189 on wake_delivered: "The wait is bounded by one coordinator
\* pass".  A wake that waits for a full channel is followed by a pass that
\* empties it (or returns because the receiver goes): whether another wake is
\* quicker to fill it again is not asked here, only whether anybody empties it.
DeliveryReturns == notify = "deliver" ~> notify # "deliver" \/ pending = Nothing

\* Without a write the copy ends up where the settings are, or the newest read
\* failed, whatever routes were lost, as long as the watcher polls.
PollingCatchesUp ==
    <>[][~Environment]_vars =>
        <>[](owner = "ready" /\ polling => behind = {} \/ failed)

\* Once the writes cease, what live routes reported is copied without polling.
RoutesCatchUp ==
    <>[][~Environment]_vars =>
        <>[](owner = "ready" => behind \intersect LiveStores = {} \/ failed)
=============================================================================
