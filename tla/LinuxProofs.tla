----------------------------- MODULE LinuxProofs -----------------------------
(***************************************************************************)
(* The Linux backend follows the settings and tells of the routes it lost, *)
(* for any cascade of directories and either leading store.                *)
(*                                                                         *)
(* The invariant is in parts: who is where (LinPlaces), which directories  *)
(* still notify (LinKernel), what is on its way to the coordinator         *)
(* (LinChased), what the atomics hold (LinCounts), who knows it (LinKnown, *)
(* LinLast) and what was made of it (LinReport, LinConstruction).          *)
(***************************************************************************)
EXTENDS LinuxWatch, FiniteSetTheorems, WellFoundedInduction, TLAPS

LinFlags ==
    /\ polling \in BOOLEAN /\ schema \in BOOLEAN /\ lost \in BOOLEAN /\ poll \in BOOLEAN
    /\ closing \in BOOLEAN /\ signal \in BOOLEAN /\ lastLiveRoute \in BOOLEAN
    /\ failed \in BOOLEAN /\ degraded \in BOOLEAN /\ dark \in BOOLEAN

LinSets ==
    /\ present \subseteq Directories /\ armed \subseteq present
    /\ toRegister \subseteq Directories /\ watched \subseteq Directories
    /\ events \subseteq Directories \cup {Written}
    /\ fresh \subseteq Stores /\ behind \subseteq Stores

LinStates ==
    /\ route \in Routes /\ owner \in OwnerPlaces
    /\ kde \in {"none", "absent", "degraded", "live"}
    /\ gnome \in {"none", "absent", "degraded", "live"}
    /\ notify \in {"none", "idle", "flag", "wake", "deliver"}
    /\ coordinator \in {"unborn", "recv", "window", "due", "loss", "read", "stopped"}
    /\ reporting \in {"nothing", "both", "dark"}

\* Who is where: sources come up one after another, the coordinator after them,
\* and it ends when every one of them is gone.
LinPlaces ==
    /\ owner \in {"arm", "register", "read", "gnome", "force", "spawn", "drop", "failed"} =>
          coordinator = "unborn"
    /\ owner \in {"health", "ready"} => coordinator \notin {"unborn", "stopped"}
    /\ owner \in {"arm", "register", "read", "gnome", "failed"} => gnome = "none"
    /\ gnome = "live" => owner \in {"force", "spawn", "health", "ready", "drop"}
    /\ signal => gnome = "live"
    /\ poll => owner \in {"health", "ready", "drop"}
    /\ owner = "arm" => notify = "none" /\ kde = "none" /\ pending = Nothing /\ ~closing
    /\ coordinator = "stopped" => owner \in {"join", "dropped"} /\ notify = "none"
    /\ owner = "dropped" => coordinator \in {"unborn", "stopped"}

\* While the constructor goes on, and until Drop, the watch is as it was left.
Standing == {"read", "gnome", "force", "spawn", "health", "ready"}

\* Which directories notify: those that were registered and are still there.
LinKernel ==
    /\ toRegister # {} => owner = "register"
    /\ toRegister \cap present \subseteq watched
    /\ armed \subseteq watched
    /\ armed # {} \/ owner = "register" => present \subseteq armed \cup toRegister
    /\ armed # {} => /\ owner \in Standing \cup {"register", "drop"}
                     /\ notify # "none" /\ ~closing
    /\ events \cap present = {}
    /\ kde # "live" /\ owner # "register" => armed = {}
    /\ kde = "live" => owner \notin {"arm", "register", "failed"}
    /\ kde = "live" /\ owner \in Standing => notify # "none" /\ ~closing
    /\ owner = "register" => notify # "none" /\ ~closing

\* What was written under a live route during a read is on its way.
LinReads ==
    /\ ~Reading => fresh = Stores
    /\ Reading /\ ~(armed \subseteq fresh) =>
          pending # Nothing \/ Written \in events \/ notify = "wake"
    /\ Reading /\ gnome = "live" /\ GSettings \notin fresh => pending # Nothing \/ signal

\* What the copy lacks in a store with a live route is on its way, or is read.
LinChased ==
    /\ armed \cap behind # {} =>
          \/ failed \/ pending # Nothing \/ Written \in events \/ notify = "wake"
          \/ coordinator \in {"window", "due", "loss", "read"} \/ owner \in {"register", "read"}
    /\ gnome = "live" /\ GSettings \in behind =>
          \/ failed \/ pending # Nothing \/ signal
          \/ coordinator \in {"window", "due", "loss", "read"} \/ owner = "force"

\* The atomics: as many directories are counted as the callback has on its list.
LinCounts ==
    /\ liveCount \in 0..Len(Cascade)
    /\ countAtLoss \in liveCount..Len(Cascade)
    /\ notify # "none" => liveCount = Cardinality(watched)
    /\ created \in Flags /\ known \in Flags /\ pending \in Flags \cup {Nothing}

\* Nobody knows of a loss that was not stored.
LinKnown ==
    /\ created.lost => lost
    /\ known.lost => lost
    /\ pending # Nothing /\ pending.lost => lost
    /\ coordinator = "unborn" => known = created
    /\ kde = "live" \/ owner = "register" => created.live # 0

Told(flags) == flags.lost /\ flags.live = 0

\* The last loss is delivered: it is being sent, in the channel, or known.
LinLast ==
    /\ notify = "deliver" => lost /\ liveCount = 0
    /\ owner = "register" \/ (kde = "live" /\ owner \in Standing) =>
         (liveCount = 0 => \/ notify \in {"flag", "deliver"}
                           \/ pending # Nothing /\ Told(pending)
                           \/ Told(known))

\* What the coordinator knew when it read last, it has reported.
LinReport ==
    /\ lastLiveRoute => gnome # "live" /\ coordinator # "unborn"
    /\ owner \in {"health", "ready"} /\ gnome # "live" => lastLiveRoute
    /\ dark => liveCount = 0 /\ lastLiveRoute
    /\ kde = "live" /\ coordinator # "unborn" =>
        /\ reporting # "both" => degraded
        /\ reporting = "nothing" /\ lastLiveRoute => dark
        /\ coordinator \in {"recv", "read"} /\ known.lost => degraded \/ created.lost
        /\ coordinator \in {"recv", "read"} /\ Told(known) =>
              degraded /\ (lastLiveRoute => dark)

\* What the constructor recorded.
LinConstruction ==
    /\ construction \in ConstructionHealth \cup {Nothing}
    /\ owner = "ready" =>
        /\ construction \in ConstructionHealth
        /\ kde = "live" /\ created.lost => construction.kioslaverc
        /\ ~construction.live => gnome # "live" /\ (kde # "live" \/ liveCount = 0)

LinInv ==
    /\ LinFlags /\ LinSets /\ LinStates /\ LinPlaces /\ LinKernel /\ LinReads /\ LinChased
    /\ LinCounts /\ LinKnown /\ LinLast /\ LinReport /\ LinConstruction

-----------------------------------------------------------------------------
(* Directories.                                                            *)

\* The most specific of some directories is one of them.
LEMMA MostSpecificIsOne ==
  ASSUME NEW some \in SUBSET Directories, some # {}
  PROVE  Cascade[Min({i \in DOMAIN Cascade : Cascade[i] \in some})] \in some
  <1> DEFINE places == {i \in DOMAIN Cascade : Cascade[i] \in some}
             less == OpToRel(<, Nat)
  <1>1. places \subseteq Nat /\ places # {}
    BY CascadeAssumption DEF Directories, Range
  <1>2. \E i \in places : \A j \in places : i <= j
    <2>1. IsWellFoundedOn(less, Nat)
      BY NatLessThanWellFounded
    <2>2. PICK i \in places : \A j \in places : <<j, i>> \notin less
      <3> HIDE DEF less, places
      <3> QED BY <1>1, <2>1, WFMin
    <2>3. \A j \in places : ~(j < i)
      BY <1>1, <2>2 DEF OpToRel
    <2>4. \A j \in places : i <= j
      <3> SUFFICES ASSUME NEW j \in places PROVE i <= j
        OBVIOUS
      <3>1. i \in Nat /\ j \in Nat BY <1>1
      <3>2. ~(j < i) BY <2>3
      <3> HIDE DEF places
      <3> QED BY <3>1, <3>2
    <2> QED BY <2>4, Zenon
  <1>3. Min(places) \in places
    BY <1>2 DEF Min
  <1> QED BY <1>3

\* There are no more directories than places in the cascade.
LEMMA DirectoriesAreFew ==
  ASSUME NEW some \in SUBSET Directories
  PROVE  IsFiniteSet(some) /\ Cardinality(some) \in 0..Len(Cascade)
  <1> DEFINE n == Len(Cascade)
  <1>1. n \in Nat /\ DOMAIN Cascade = 1..n
    BY CascadeAssumption
  <1>2. IsFiniteSet(1..n) /\ Cardinality(1..n) = n
    <2> HIDE DEF n
    <2>1. 1 \in Int /\ n \in Int BY <1>1
    <2>2. IsFiniteSet(1..n) /\ Cardinality(1..n) = IF 1 > n THEN 0 ELSE n - 1 + 1
      BY ONLY <2>1, FS_Interval
    <2> QED BY <1>1, <2>2
  <1>3. Cascade \in Surjection(1..n, Directories)
    <2>1. Cascade \in [1..n -> Directories]
      BY <1>1, CascadeAssumption DEF Directories, Range
    <2>2. \A d \in Directories : \E i \in 1..n : Cascade[i] = d
      BY <1>1 DEF Directories, Range
    <2> QED BY <2>1, <2>2 DEF Surjection
  <1>4. IsFiniteSet(Directories) /\ Cardinality(Directories) <= n
    <2> HIDE DEF n
    <2> QED BY <1>2, <1>3, FS_Surjection
  <1>5. IsFiniteSet(some) /\ Cardinality(some) <= Cardinality(Directories)
    BY <1>4, FS_Subset
  <1>6. Cardinality(some) \in Nat /\ Cardinality(Directories) \in Nat
    BY <1>4, <1>5, FS_CardinalityType
  <1> QED BY <1>1, <1>4, <1>5, <1>6

\* The smaller of two numbers is one of them.
LEMMA MinOfTwo ==
  ASSUME NEW a \in Nat, NEW b \in Nat
  PROVE  Min({a, b}) \in {a, b} /\ Min({a, b}) <= a /\ Min({a, b}) <= b
  <1>1. \E x \in {a, b} : \A y \in {a, b} : x <= y
    <2>1. CASE a <= b BY <2>1
    <2>2. CASE b <= a BY <2>2
    <2> QED BY <2>1, <2>2
  <1>2. Min({a, b}) \in {a, b} /\ \A y \in {a, b} : Min({a, b}) <= y
    BY <1>1 DEF Min
  <1> QED BY <1>2

-----------------------------------------------------------------------------
(* The channel.                                                            *)

\* What is sent are flags.
LEMMA SentAreFlags == LinInv => Uninformed \in Flags /\ Stored \in Flags
  <1> SUFFICES ASSUME LinInv PROVE Uninformed \in Flags /\ Stored \in Flags
    OBVIOUS
  <1>1. Len(Cascade) \in Nat BY CascadeAssumption
  <1>2. lost \in BOOLEAN /\ liveCount \in 0..Len(Cascade)
    BY Zenon DEF LinInv, LinFlags, LinCounts
  <1> QED BY <1>1, <1>2 DEF Uninformed, Stored, Flags

\* A wake is taken, or refused because one is pending, unless nobody is there to
\* receive it; and somebody is until Drop.
LEMMA Woken ==
  ASSUME LinInv, NEW flags \in Flags, Wake(flags)
  PROVE  /\ pending' = pending \/ (pending = Nothing /\ pending' = flags)
         /\ pending # Nothing => pending' # Nothing
         /\ owner \notin {"join"} \cup Gone => pending' # Nothing
         /\ pending' \in Flags \cup {Nothing}
  <1>1. flags # Nothing BY NothingAssumption
  <1>2. pending' = pending \/ (pending = Nothing /\ pending' = flags)
    BY DEF Wake
  <1>3. pending \in Flags \cup {Nothing} BY DEF LinInv, LinCounts
  <1>4. owner \notin {"join"} \cup Gone => ReceiverLeft
    BY DEF LinInv, LinPlaces, ReceiverLeft, Gone
  <1>5. ReceiverLeft /\ pending = Nothing => pending' = flags
    BY DEF Wake
  <1> QED BY <1>1, <1>2, <1>3, <1>4, <1>5

-----------------------------------------------------------------------------
(* Every step keeps the invariant.                                         *)

\* A key of GSettings is written.
LEMMA WriteGSettingsKeeps ==
  ASSUME LinInv, WriteGSettings
  PROVE  LinInv'
  <1> USE DEF LinInv, WriteGSettings, Outdated, Reading, machineVars, buildVars,
        kernelVars, lossVars, loopVars, reportVars
  <1>1. LinFlags'
    BY DEF LinFlags
  <1>2. LinSets'
    BY DEF LinSets, Stores
  <1>3. LinStates'
    BY DEF LinStates, OwnerPlaces, Dropping, Gone
  <1>4. LinPlaces'
    BY DEF LinPlaces
  <1>5. LinKernel'
    BY DEF LinKernel, Standing
  <1>6. LinReads'
    BY StoreAssumption DEF LinReads, LinSets, LinPlaces, Stores
  <1>7. LinChased'
    BY StoreAssumption DEF LinChased, LinSets, LinPlaces
  <1>8. LinCounts' /\ LinKnown' /\ LinLast' /\ LinReport' /\ LinConstruction'
    BY DEF LinCounts, LinKnown, LinLast, Told, Standing, LinReport, LinConstruction
  <1> QED BY <1>1, <1>2, <1>3, <1>4, <1>5, <1>6, <1>7, <1>8

\* A kioslaverc is written; its watch says so.
LEMMA WriteLayerKeeps ==
  ASSUME NEW d \in Directories, LinInv, WriteLayer(d)
  PROVE  LinInv'
  <1> USE DEF LinInv, WriteLayer, Outdated, Reading, machineVars, buildVars, kernelVars,
        lossVars, reportVars
  <1>1. events \subseteq events' /\ (d \in armed => Written \in events')
    OBVIOUS
  <1>2. events' \subseteq events \cup {Written} /\ Written \notin Directories
    BY EventAssumption
  <1>3. LinFlags'
    BY DEF LinFlags
  <1>4. LinSets' /\ LinStates' /\ LinPlaces'
    BY DEF LinSets, Stores, LinStates, OwnerPlaces, Dropping, Gone, LinPlaces
  <1>5. LinKernel'
    BY <1>2 DEF LinKernel, LinSets, Standing
  <1>6. LinReads'
    BY <1>1, StoreAssumption DEF LinReads, LinSets, Stores
  <1>7. LinChased'
    BY <1>1, StoreAssumption DEF LinChased, LinSets
  <1>8. LinCounts' /\ LinKnown' /\ LinLast' /\ LinReport' /\ LinConstruction'
    BY DEF LinCounts, LinKnown, LinLast, Told, Standing, LinReport, LinConstruction
  <1> QED BY <1>3, <1>4, <1>5, <1>6, <1>7, <1>8

\* A directory goes, and its watch with it.
LEMMA RemoveDirectoryKeeps ==
  ASSUME NEW d \in Directories, LinInv, RemoveDirectory(d)
  PROVE  LinInv'
  <1> USE DEF LinInv, RemoveDirectory, Outdated, Reading, machineVars, buildVars,
        lossVars, reportVars
  <1>1. events \subseteq events' /\ d # GSettings
    BY StoreAssumption
  <1>2. LinFlags'
    BY DEF LinFlags
  <1>3. LinSets' /\ LinStates' /\ LinPlaces' /\ LinKernel'
    BY DEF LinSets, Stores, LinStates, OwnerPlaces, Dropping, Gone, LinPlaces, LinKernel,
          Standing
  <1>4. LinReads'
    BY <1>1 DEF LinReads, LinSets, Stores
  <1>5. LinChased'
    BY <1>1 DEF LinChased, LinSets
  <1>6. LinCounts' /\ LinKnown' /\ LinLast' /\ LinReport' /\ LinConstruction'
    BY DEF LinCounts, LinKnown, LinLast, Told, Standing, LinReport, LinConstruction
  <1> QED BY <1>2, <1>3, <1>4, <1>5, <1>6

\* There is nothing to watch.
LEMMA ArmNothingKeeps ==
  ASSUME LinInv, ArmNothing
  PROVE  LinInv'
  <1> USE DEF LinInv, ArmNothing, machineVars, kernelVars, lossVars, loopVars, readVars,
        reportVars
  <1>1. LinFlags'
    BY DEF LinFlags
  <1>2. LinSets' /\ LinStates' /\ LinPlaces' /\ LinKernel'
    BY DEF LinSets, Stores, LinStates, OwnerPlaces, Dropping, Gone, LinPlaces, LinKernel,
          Standing
  <1>3. LinReads' /\ LinChased'
    BY DEF LinReads, Reading, LinPlaces, LinSets, LinStates, Stores, LinChased
  <1>4. LinCounts' /\ LinKnown' /\ LinReport' /\ LinConstruction'
    BY DEF LinCounts, LinKnown, LinReport, Told, LinConstruction
  <1>5. LinLast'
    BY DEF LinLast, LinPlaces, Standing
  <1> QED BY <1>1, <1>2, <1>3, <1>4, <1>5

\* The count begins with the directories there are, and there is one; before,
\* nothing was sent, lost or told.
LEMMA CreateWatcherKeeps ==
  ASSUME LinInv, CreateWatcher
  PROVE  LinInv'
  <1> USE DEF LinInv, CreateWatcher, EstablishFails, machineVars, lossVars, readVars,
        reportVars
  <1>1. /\ coordinator = "unborn" /\ notify = "none" /\ ~dark /\ ~lastLiveRoute
             /\ armed = {}
        /\ pending = Nothing /\ kde = "none" /\ ~closing
    BY DEF LinPlaces, LinReport, LinKernel, Standing
  <1>2. Cardinality(present) \in 0..Len(Cascade) /\ Cardinality(present) # 0
    BY DirectoriesAreFew, FS_EmptySet DEF LinSets
  <1>3. ASSUME EstablishFails /\ UNCHANGED <<lossVars, known, notify>>
         PROVE LinKernel' /\ LinCounts' /\ LinKnown' /\ LinLast' /\ LinReport'
   <2>1. LinKernel' BY <1>1, <1>3 DEF LinKernel, Standing
   <2>2. LinCounts' BY <1>3 DEF LinCounts
   <2>3. LinKnown' BY <1>1, <1>3 DEF LinKnown
   <2>4. LinLast' BY <1>1, <1>3 DEF LinLast
   <2>5. LinReport' BY <1>1, <1>3 DEF LinReport
   <2> QED BY <2>1, <2>2, <2>3, <2>4, <2>5
  <1>4. ASSUME owner' = "register" PROVE LinKernel' /\ LinCounts' /\ LinKnown' /\ LinLast'
          /\ LinReport'
   <2>0. /\ owner' = "register" /\ notify' = "idle" /\ liveCount' = Cardinality(present)
         /\ countAtLoss' = Cardinality(present) /\ watched' = present
              /\ toRegister' = present
         /\ lost' \in BOOLEAN /\ created' = [lost |-> lost', live |-> liveCount']
              /\ known' = created'
         /\ UNCHANGED <<kde, armed, closing, present, pending, coordinator, reportVars,
              events>>
     BY <1>4
   <2>1. LinKernel' BY <1>1, <2>0 DEF LinKernel, LinSets, Standing
   <2>2. LinCounts'
     <3>1. liveCount' \in 0..Len(Cascade) /\ countAtLoss' \in liveCount'..Len(Cascade)
       BY <1>2, <2>0
     <3>2. created' \in Flags BY <3>1, <2>0 DEF Flags
     <3> QED BY <3>1, <3>2, <2>0, <1>1 DEF LinCounts
   <2>3. LinKnown' BY <1>1, <1>2, <2>0 DEF LinKnown
   <2>4. LinLast' BY <1>1, <1>2, <2>0 DEF LinLast
   <2>5. LinReport' BY <1>1, <2>0 DEF LinReport
   <2> QED BY <2>1, <2>2, <2>3, <2>4, <2>5
  <1>5. LinKernel' /\ LinCounts' /\ LinKnown' /\ LinLast' /\ LinReport'
    BY <1>3, <1>4
  <1>6. LinFlags'
    BY DEF LinFlags
  <1>7. LinSets' /\ LinStates' /\ LinPlaces'
    BY DEF LinSets, Stores, LinStates, OwnerPlaces, Dropping, Gone, LinPlaces
  <1>8. LinReads' /\ LinChased'
    BY DEF LinReads, Reading, LinPlaces, LinSets, LinStates, Stores, LinChased
  <1>9. LinConstruction'
    BY DEF LinConstruction
  <1> QED BY <1>6, <1>7, <1>5, <1>8, <1>9

\* A directory is registered while it is there, or the watch is given up.
LEMMA RegisterDirectoryKeeps ==
  ASSUME LinInv, RegisterDirectory
  PROVE  LinInv'
  <1> USE DEF LinInv, RegisterDirectory, EstablishFails, machineVars, lossVars, readVars,
        reportVars
  <1>1. \/ EstablishFails
        \/ \E d \in toRegister \cap present : armed' = armed \cup {d}
             /\ toRegister' = toRegister \ {d} /\ UNCHANGED <<owner, kde, closing>>
    BY MostSpecificIsOne DEF LinSets
  <1>2. LinFlags'
    BY DEF LinFlags
  <1>3. LinSets' /\ LinStates' /\ LinPlaces'
    BY DEF LinSets, Stores, LinStates, OwnerPlaces, Dropping, Gone, LinPlaces
  <1>4. LinKernel'
    <2>1. notify = "idle" /\ owner = "register"
            /\ UNCHANGED <<present, events, watched, notify>>
      OBVIOUS
    <2>2. ASSUME EstablishFails PROVE LinKernel'
      <3>1. owner' \in {"failed", "read"} /\ (kde' = kde \/ kde' = "degraded")
              /\ toRegister' = {} /\ armed' = {}
        BY <2>2
      <3>2. owner' = "failed" \/ kde' = "degraded"
        BY <2>2
      <3>3. kde # "live" /\ kde' # "live" BY <2>1, <3>1 DEF LinKernel
      <3> QED BY <2>1, <3>1, <3>3 DEF LinKernel, Standing
    <2>3. ASSUME NEW d \in toRegister \cap present, armed' = armed \cup {d},
          toRegister' = toRegister \ {d}, UNCHANGED <<owner, kde, closing>>
          PROVE LinKernel'
      BY <2>1, <2>3 DEF LinKernel, LinSets, Standing
    <2> QED BY <1>1, <2>2, <2>3
  <1>5. LinReads' /\ LinChased'
    BY DEF LinReads, Reading, LinPlaces, LinSets, LinStates, Stores, LinChased
  <1>6. LinCounts' /\ LinKnown' /\ LinLast' /\ LinReport' /\ LinConstruction'
    BY DEF LinCounts, LinKnown, LinLast, Told, Standing, LinReport, LinConstruction
  <1> QED BY <1>2, <1>3, <1>4, <1>5, <1>6

\* Every directory that is left is registered.
LEMMA RegisteredKeeps ==
  ASSUME LinInv, Registered
  PROVE  LinInv'
  <1> USE DEF LinInv, Registered, machineVars, kernelVars, lossVars, loopVars, readVars,
        reportVars
  <1>1. LinFlags'
    BY DEF LinFlags
  <1>2. LinSets' /\ LinStates' /\ LinPlaces' /\ LinKernel'
    BY DEF LinSets, Stores, LinStates, OwnerPlaces, Dropping, Gone, LinPlaces, LinKernel,
          Standing
  <1>3. LinReads' /\ LinChased'
    BY DEF LinReads, Reading, LinPlaces, LinSets, LinStates, Stores, LinChased
  <1>4. LinCounts' /\ LinKnown' /\ LinLast' /\ LinConstruction'
    BY DEF LinCounts, LinKnown, LinLast, Told, Standing, LinConstruction
  <1>5. LinReport'
    BY DEF LinReport, LinPlaces, Told
  <1> QED BY <1>1, <1>2, <1>3, <1>4, <1>5

\* What the first read missed under a watch is on its way.
LEMMA InitialReadKeeps ==
  ASSUME LinInv, InitialRead
  PROVE  LinInv'
  <1> USE DEF LinInv, InitialRead, Copied, machineVars, buildVars, kernelVars, lossVars,
        loopVars, reportVars
  <1>1. LinFlags'
    BY DEF LinFlags
  <1>2. LinSets' /\ LinStates' /\ LinPlaces' /\ LinKernel'
    BY DEF LinSets, Stores, LinStates, OwnerPlaces, Dropping, Gone, LinPlaces, LinKernel,
          Standing
  <1>3. LinReads'
    BY DEF LinReads, Reading, LinPlaces, LinSets, LinStates, Stores
  <1>4. LinChased'
    BY DEF LinChased, LinReads, LinPlaces, Reading, LinSets
  <1>5. LinCounts' /\ LinKnown' /\ LinLast' /\ LinReport' /\ LinConstruction'
    BY DEF LinCounts, LinKnown, LinLast, Told, Standing, LinReport, LinConstruction
  <1> QED BY <1>1, <1>2, <1>3, <1>4, <1>5

\* A subscription comes up, and owes a read.
LEMMA StartGSettingsKeeps ==
  ASSUME LinInv, StartGSettings
  PROVE  LinInv'
  <1> USE DEF LinInv, StartGSettings, machineVars, kernelVars, lossVars, loopVars,
        readVars, reportVars
  <1>1. LinFlags'
    BY DEF LinFlags
  <1>2. LinSets' /\ LinStates' /\ LinPlaces' /\ LinKernel'
    BY DEF LinSets, Stores, LinStates, OwnerPlaces, Dropping, Gone, LinPlaces, LinKernel,
          Standing
  <1>3. LinReads' /\ LinChased'
    BY DEF LinReads, Reading, LinPlaces, LinSets, LinStates, Stores, LinChased
  <1>4. LinCounts' /\ LinKnown' /\ LinLast' /\ LinConstruction'
    BY DEF LinCounts, LinKnown, LinLast, Told, Standing, LinConstruction
  <1>5. LinReport'
    BY DEF LinReport, LinPlaces, Told
  <1> QED BY <1>1, <1>2, <1>3, <1>4, <1>5

\* The read it owes is a wake.
LEMMA ForceReadKeeps ==
  ASSUME LinInv, ForceRead
  PROVE  LinInv'
  <1> USE DEF LinInv, ForceRead, machineVars, buildVars, kernelVars, lossVars, loopVars,
        readVars, reportVars
  <1>1. Wake(Uninformed) BY DEF OnlyWake
  <1>2. /\ pending' = pending \/ (pending = Nothing /\ pending' = Uninformed)
        /\ pending # Nothing => pending' # Nothing
        /\ owner \notin {"join"} \cup Gone => pending' # Nothing
        /\ pending' \in Flags \cup {Nothing}
    BY <1>1, Woken, SentAreFlags
  <1>3. LinFlags'
    BY DEF LinFlags
  <1>4. LinSets' /\ LinStates' /\ LinKernel'
    BY DEF LinSets, Stores, LinStates, OwnerPlaces, Dropping, Gone, LinKernel, Standing
  <1>5. LinPlaces'
    BY <1>2 DEF LinPlaces
  <1>6. LinReads'
    BY <1>2 DEF LinReads, Reading, LinKernel, LinPlaces, Standing, Gone
  <1>7. LinChased'
    BY <1>2 DEF LinChased, LinKernel, LinPlaces, Standing, Gone
  <1>8. LinReport' /\ LinConstruction'
    BY DEF LinReport, Told, LinConstruction
  <1>9. LinCounts'
    BY <1>2 DEF LinCounts
  <1>10. LinKnown'
    BY <1>2, NothingAssumption DEF LinKnown, Stored, Uninformed
  <1>11. LinLast'
    BY <1>2 DEF LinLast, Standing, Told
  <1> QED BY <1>3, <1>4, <1>5, <1>6, <1>7, <1>8, <1>9, <1>10, <1>11

\* The coordinator starts out knowing what the atomics were created with.
LEMMA SpawnThreadsKeeps ==
  ASSUME LinInv, SpawnThreads
  PROVE  LinInv'
  <1> USE DEF LinInv, SpawnThreads, machineVars, kernelVars, lossVars, loopVars, readVars
  <1>1. LinFlags'
    BY DEF LinFlags
  <1>2. LinSets' /\ LinStates' /\ LinPlaces' /\ LinKernel'
    BY DEF LinSets, Stores, LinStates, OwnerPlaces, Dropping, Gone, LinPlaces, LinKernel,
          Standing
  <1>3. LinReads' /\ LinChased'
    BY DEF LinReads, Reading, LinPlaces, LinSets, LinStates, Stores, LinChased
  <1>4. LinCounts' /\ LinKnown' /\ LinLast' /\ LinConstruction'
    BY DEF LinCounts, LinKnown, LinLast, Told, Standing, LinConstruction
  <1>5. LinReport'
    <2>1. ~lastLiveRoute /\ ~dark /\ known = created /\ (kde = "live" => created.live # 0)
      BY DEF LinReport, LinPlaces, LinKnown
    <2>2. UNCHANGED <<kde, known, created, degraded, dark, gnome, liveCount>>
      OBVIOUS
    <2>3. CASE owner' = "drop" /\ UNCHANGED <<coordinator, reporting, lastLiveRoute>>
      BY <2>1, <2>2, <2>3 DEF LinReport, LinPlaces
    <2>4. CASE /\ coordinator' = "recv" /\ owner' = "health"
               /\ reporting' = IF kde = "live" THEN "both" ELSE "nothing"
               /\ lastLiveRoute' = (gnome # "live")
      <3>1. kde = "live" => reporting' = "both"
        BY <2>4
      <3>2. ~dark' /\ (kde = "live" => ~Told(known'))
        BY <2>1, <2>2 DEF Told
      <3>3. kde = "live" /\ known'.lost => created'.lost
        BY <2>1, <2>2
      <3>4. lastLiveRoute' = (gnome' # "live") /\ coordinator' # "unborn"
        BY <2>2, <2>4
      <3> QED BY <2>2, <3>1, <3>2, <3>3, <3>4 DEF LinReport
    <2> QED BY <2>3, <2>4
  <1> QED BY <1>1, <1>2, <1>3, <1>4, <1>5

\* The constructor reads the atomics, and no count is lower than the newest.
LEMMA RecordHealthKeeps ==
  ASSUME LinInv, RecordHealth
  PROVE  LinInv'
  <1> USE DEF LinInv, RecordHealth, machineVars, kernelVars, lossVars, loopVars,
        readVars, reportVars
  <1>1. LinFlags'
    BY DEF LinFlags
  <1>2. LinSets' /\ LinStates' /\ LinPlaces' /\ LinKernel'
    BY DEF LinSets, Stores, LinStates, OwnerPlaces, Dropping, Gone, LinPlaces, LinKernel,
          Standing
  <1>3. LinReads' /\ LinChased'
    BY DEF LinReads, Reading, LinPlaces, LinSets, LinStates, Stores, LinChased
  <1>4. LinCounts' /\ LinKnown' /\ LinLast' /\ LinReport'
    BY DEF LinCounts, LinKnown, LinLast, Told, Standing, LinReport
  <1>5. LinConstruction'
    <2>1. PICK flags \in Readable(created) : construction' =
            [gsettings  |-> gnome = "degraded",
             kioslaverc |-> kde = "degraded" \/ (kde = "live" /\ flags.lost),
             live       |-> gnome = "live" \/ (kde = "live" /\ flags.live > 0)]
      OBVIOUS
    <2>2. created.lost => flags.lost
      BY DEF Readable, LinKnown
    <2>3. flags.live = 0 => liveCount = 0
      BY CascadeAssumption DEF Readable, LinCounts, Flags
    <2>4. flags.lost \in BOOLEAN /\ flags.live \in Nat
      BY CascadeAssumption DEF Readable, LinCounts, Flags
    <2>6. flags.live > 0 <=> flags.live # 0
      BY <2>4
    <2>5. construction' \in ConstructionHealth
      BY <2>1, <2>4, <2>6 DEF ConstructionHealth
    <2> QED BY <2>1, <2>2, <2>3, <2>5, <2>6 DEF LinConstruction
  <1> QED BY <1>1, <1>2, <1>3, <1>4, <1>5

\* A wake.
LEMMA PollNowKeeps ==
  ASSUME LinInv, PollNow
  PROVE  LinInv'
  <1> USE DEF LinInv, PollNow, OnlyWake, machineVars, kernelVars, lossVars, loopVars,
        readVars, reportVars
  <1>1. Wake(Uninformed) BY DEF OnlyWake
  <1>2. /\ pending' = pending \/ (pending = Nothing /\ pending' = Uninformed)
        /\ pending # Nothing => pending' # Nothing
        /\ owner \notin {"join"} \cup Gone => pending' # Nothing
        /\ pending' \in Flags \cup {Nothing}
    BY <1>1, Woken, SentAreFlags
  <1>3. LinFlags'
    BY DEF LinFlags
  <1>4. LinSets' /\ LinStates' /\ LinKernel'
    BY DEF LinSets, Stores, LinStates, OwnerPlaces, Dropping, Gone, LinKernel, Standing
  <1>5. LinPlaces'
    BY <1>2 DEF LinPlaces
  <1>6. LinReads'
    BY <1>2 DEF LinReads, Reading, LinKernel, LinPlaces, Standing, Gone
  <1>7. LinChased'
    BY <1>2 DEF LinChased, LinKernel, LinPlaces, Standing, Gone
  <1>8. LinReport' /\ LinConstruction'
    BY DEF LinReport, Told, LinConstruction
  <1>9. LinCounts'
    BY <1>2 DEF LinCounts
  <1>10. LinKnown'
    BY <1>2, NothingAssumption DEF LinKnown, Stored, Uninformed
  <1>11. LinLast'
    BY <1>2 DEF LinLast, Standing, Told
  <1> QED BY <1>3, <1>4, <1>5, <1>6, <1>7, <1>8, <1>9, <1>10, <1>11

\* A wake of the timer, which ends with the receiver.
LEMMA PollTickKeeps ==
  ASSUME LinInv, PollTick
  PROVE  LinInv'
  <1> USE DEF LinInv, PollTick, OnlyWake, machineVars, kernelVars, lossVars, loopVars,
        readVars, reportVars
  <1>1. Wake(Uninformed) BY DEF OnlyWake
  <1>2. /\ pending' = pending \/ (pending = Nothing /\ pending' = Uninformed)
        /\ pending # Nothing => pending' # Nothing
        /\ owner \notin {"join"} \cup Gone => pending' # Nothing
        /\ pending' \in Flags \cup {Nothing}
    BY <1>1, Woken, SentAreFlags
  <1>3. LinFlags'
    <2>1. poll' \in BOOLEAN BY DEF ReceiverLeft
    <2> QED BY <2>1 DEF LinFlags
  <1>4. LinSets' /\ LinStates' /\ LinKernel'
    BY DEF LinSets, Stores, LinStates, OwnerPlaces, Dropping, Gone, LinKernel, Standing
  <1>5. LinPlaces'
    BY <1>2 DEF LinPlaces
  <1>6. LinReads'
    BY <1>2 DEF LinReads, Reading, LinKernel, LinPlaces, Standing, Gone
  <1>7. LinChased'
    BY <1>2 DEF LinChased, LinKernel, LinPlaces, Standing, Gone
  <1>8. LinReport' /\ LinConstruction'
    BY DEF LinReport, Told, LinConstruction
  <1>9. LinCounts'
    BY <1>2 DEF LinCounts
  <1>10. LinKnown'
    BY <1>2, NothingAssumption DEF LinKnown, Stored, Uninformed
  <1>11. LinLast'
    BY <1>2 DEF LinLast, Standing, Told
  <1> QED BY <1>3, <1>4, <1>5, <1>6, <1>7, <1>8, <1>9, <1>10, <1>11

\* A signal becomes a wake: the receiver is there as long as the subscription.
LEMMA DispatchSignalKeeps ==
  ASSUME LinInv, DispatchSignal
  PROVE  LinInv'
  <1> USE DEF LinInv, DispatchSignal, OnlyWake, machineVars, kernelVars, lossVars,
        loopVars, readVars, reportVars
  <1>1. Wake(Uninformed) BY DEF OnlyWake
  <1>2. /\ pending' = pending \/ (pending = Nothing /\ pending' = Uninformed)
        /\ pending # Nothing => pending' # Nothing
        /\ owner \notin {"join"} \cup Gone => pending' # Nothing
        /\ pending' \in Flags \cup {Nothing}
    BY <1>1, Woken, SentAreFlags
  <1>3. LinFlags'
    BY DEF LinFlags
  <1>4. LinSets' /\ LinStates' /\ LinKernel'
    BY DEF LinSets, Stores, LinStates, OwnerPlaces, Dropping, Gone, LinKernel, Standing
  <1>5. LinPlaces'
    BY <1>2 DEF LinPlaces
  <1>6. LinReads'
    BY <1>2 DEF LinReads, Reading, LinKernel, LinPlaces, Standing, Gone
  <1>7. LinChased'
    BY <1>2 DEF LinChased, LinKernel, LinPlaces, Standing, Gone
  <1>8. LinReport' /\ LinConstruction'
    BY DEF LinReport, Told, LinConstruction
  <1>9. LinCounts'
    BY <1>2 DEF LinCounts
  <1>10. LinKnown'
    BY <1>2, NothingAssumption DEF LinKnown, Stored, Uninformed
  <1>11. LinLast'
    BY <1>2 DEF LinLast, Standing, Told
  <1> QED BY <1>3, <1>4, <1>5, <1>6, <1>7, <1>8, <1>9, <1>10, <1>11

\* An event of a write becomes a wake to be sent.
LEMMA SeeWriteKeeps ==
  ASSUME LinInv, SeeWrite
  PROVE  LinInv'
  <1> USE DEF LinInv, SeeWrite, OwnerOnlyLoop, machineVars, buildVars, kernelVars,
        readVars, reportVars
  <1>1. LinFlags'
    BY DEF LinFlags
  <1>2. LinSets' /\ LinStates' /\ LinPlaces' /\ LinKernel'
    BY DEF LinSets, Stores, LinStates, OwnerPlaces, Dropping, Gone, LinPlaces, LinKernel,
          Standing
  <1>3. LinReads' /\ LinChased'
    BY DEF LinReads, Reading, LinPlaces, LinSets, LinStates, Stores, LinChased
  <1>4. LinCounts' /\ LinKnown' /\ LinLast' /\ LinReport' /\ LinConstruction'
    BY DEF LinCounts, LinKnown, LinLast, Told, Standing, LinReport, LinConstruction
  <1> QED BY <1>1, <1>2, <1>3, <1>4

\* Directories that ended are taken off the list and off the count; none of them
\* is armed, since none is there.
LEMMA SeeEndKeeps ==
  ASSUME LinInv, SeeEnd
  PROVE  LinInv'
  <1>1. PICK named \in SUBSET (events \cap Directories) :
         /\ events' = events \ named
         /\ watched' = watched \ (named \cap watched)
         /\ liveCount' = liveCount - Cardinality(named \cap watched)
         /\ notify' = IF (named \cap watched) # {} THEN "flag" ELSE "idle"
    BY Zenon DEF SeeEnd
  <1>2. notify = "idle" /\ UNCHANGED <<closing, lost, countAtLoss, pending>>
          /\ OwnerOnlyLoop
    BY DEF SeeEnd
  <1> DEFINE ended == named \cap watched
             n == Cardinality(ended)
  <1>3. ended \subseteq watched /\ ended \subseteq events /\ events' \subseteq events
          /\ watched' \subseteq watched
    BY <1>1
  <1>4. notify' = IF ended # {} THEN "flag" ELSE "idle"
    BY <1>1
  <1>5. liveCount' = liveCount - n
    BY <1>1
  <1>6. Written \in events => Written \in events'
    BY <1>1, EventAssumption
  <1>7. watched' = watched \ ended
    BY <1>1
  <1>8. watched \subseteq Directories /\ watched' \subseteq Directories
          /\ watched \cap ended = ended
    BY <1>1 DEF LinInv, LinSets
  <1> HIDE DEF ended
  <1>9. IsFiniteSet(watched) /\ n \in Nat /\ (ended = {} <=> n = 0)
    BY <1>3, <1>8, DirectoriesAreFew, FS_EmptySet, FS_Subset, FS_CardinalityType
  <1>10. Cardinality(watched') = Cardinality(watched) - n
    BY <1>8, <1>7, <1>9, FS_Difference
  <1> HIDE DEF n
  <1>11. Cardinality(watched') \in 0..Len(Cascade)
    BY <1>8, DirectoriesAreFew
  <1>12. notify # "none" => liveCount = Cardinality(watched)
    BY Zenon DEF LinInv, LinCounts
  <1>13. liveCount' = Cardinality(watched')
    BY <1>5, <1>10, <1>12, <1>2
  <1>14. countAtLoss \in liveCount..Len(Cascade) /\ liveCount \in 0..Len(Cascade)
    BY Zenon DEF LinInv, LinCounts
  <1>15. liveCount \in Nat /\ Len(Cascade) \in Nat
    BY <1>14, CascadeAssumption
  <1>16. countAtLoss' \in liveCount'..Len(Cascade)
    <2>1. countAtLoss' = countAtLoss BY <1>2
    <2> QED BY <1>5, <1>9, <1>11, <1>13, <1>15, <1>14, <2>1
  <1>17. liveCount = 0 => liveCount' = 0 BY <1>5, <1>9, <1>11, <1>13, <1>15
  <1>18. ended # {} \/ liveCount' = liveCount BY <1>5, <1>9, <1>15
  <1> USE DEF LinInv, OwnerOnlyLoop, machineVars, buildVars, kernelVars, readVars,
        reportVars
  <1> USE <1>2, <1>3, <1>4
  <1>19. LinFlags'
    BY DEF LinFlags
  <1>20. LinSets' /\ LinStates' /\ LinPlaces'
    BY DEF LinSets, Stores, LinStates, OwnerPlaces, Dropping, Gone, LinPlaces
  <1>21. LinKernel'
    <2>1. ended \cap present = {}
      BY DEF LinKernel
    <2>2. UNCHANGED <<owner, kde, toRegister, armed, present, closing>>
      OBVIOUS
    <2>3. notify = "idle" /\ notify' # "none" /\ events' \subseteq events
      OBVIOUS
    <2> QED BY ONLY LinInv, <2>1, <2>2, <2>3, <1>7 DEF LinInv, LinKernel, LinSets, Standing
  <1>22. LinReads'
    BY <1>6 DEF LinReads, Reading
  <1>23. LinChased'
    BY <1>6 DEF LinChased
  <1>24. LinKnown'
    BY DEF LinKnown
  <1>25. LinCounts'
    BY <1>6, <1>11, <1>13, <1>16 DEF LinCounts
  <1>26. LinLast'
    BY <1>18 DEF LinLast, Told, Standing
  <1>27. LinReport'
    BY <1>17 DEF LinReport, Told
  <1>28. LinConstruction'
    BY <1>17 DEF LinConstruction
  <1> QED BY <1>19, <1>20, <1>21, <1>22, <1>23, <1>24, <1>25, <1>26, <1>27, <1>28

\* The loss is stored, and the last one is to be delivered.
LEMMA StoreLostKeeps ==
  ASSUME LinInv, StoreLost
  PROVE  LinInv'
  <1> USE DEF LinInv, StoreLost, OwnerOnlyLoop, machineVars, buildVars, kernelVars,
        readVars, reportVars
  <1>1. LinFlags'
    BY DEF LinFlags
  <1>2. LinSets' /\ LinStates' /\ LinPlaces' /\ LinKernel'
    BY DEF LinSets, Stores, LinStates, OwnerPlaces, Dropping, Gone, LinPlaces, LinKernel,
          Standing
  <1>3. LinReads' /\ LinChased'
    BY DEF LinReads, Reading, LinPlaces, LinSets, LinStates, Stores, LinChased
  <1>4. LinCounts' /\ LinKnown' /\ LinLast' /\ LinReport' /\ LinConstruction'
    BY DEF LinCounts, LinKnown, LinLast, Told, Standing, LinReport, LinConstruction
  <1> QED BY <1>1, <1>2, <1>3, <1>4

\* The callback's wake is taken, or another one is pending.
LEMMA CallbackWakesKeeps ==
  ASSUME LinInv, CallbackWakes
  PROVE  LinInv'
  <1> USE DEF LinInv, CallbackWakes, OwnerOnlyLoop, machineVars, buildVars, kernelVars,
        readVars, reportVars
  <1>1. Wake(Stored) BY DEF OnlyWake
  <1>2. /\ pending' = pending \/ (pending = Nothing /\ pending' = Stored)
        /\ pending # Nothing => pending' # Nothing
        /\ owner \notin {"join"} \cup Gone => pending' # Nothing
        /\ pending' \in Flags \cup {Nothing}
    BY <1>1, Woken, SentAreFlags
  <1>3. LinFlags'
    BY DEF LinFlags
  <1>4. LinSets' /\ LinStates' /\ LinKernel'
    BY DEF LinSets, Stores, LinStates, OwnerPlaces, Dropping, Gone, LinKernel, Standing
  <1>5. LinPlaces'
    BY <1>2 DEF LinPlaces
  <1>6. LinReads'
    BY <1>2 DEF LinReads, Reading, LinKernel, LinPlaces, Standing, Gone
  <1>7. LinChased'
    BY <1>2 DEF LinChased, LinKernel, LinPlaces, Standing, Gone
  <1>8. LinReport' /\ LinConstruction'
    BY DEF LinReport, Told, LinConstruction
  <1>9. LinCounts'
    BY <1>2 DEF LinCounts
  <1>10. LinKnown'
    BY <1>2, NothingAssumption DEF LinKnown, Stored, Uninformed
  <1>11. LinLast'
    BY <1>2 DEF LinLast, Standing, Told
  <1> QED BY <1>3, <1>4, <1>5, <1>6, <1>7, <1>8, <1>9, <1>10, <1>11

\* The last loss is put into the channel, unless nobody listens any more.
LEMMA CallbackDeliversKeeps ==
  ASSUME LinInv, CallbackDelivers
  PROVE  LinInv'
  <1> USE DEF LinInv, CallbackDelivers, OwnerOnlyLoop, machineVars, buildVars,
        kernelVars, readVars, reportVars
  <1>1. Wake(Stored) BY DEF OnlyWake
  <1>2. /\ pending' = pending \/ (pending = Nothing /\ pending' = Stored)
        /\ pending # Nothing => pending' # Nothing
        /\ owner \notin {"join"} \cup Gone => pending' # Nothing
        /\ pending' \in Flags \cup {Nothing}
    BY <1>1, Woken, SentAreFlags
  <1>3. LinFlags'
    BY DEF LinFlags
  <1>4. LinSets' /\ LinStates' /\ LinKernel'
    BY DEF LinSets, Stores, LinStates, OwnerPlaces, Dropping, Gone, LinKernel, Standing
  <1>5. LinPlaces'
    BY <1>2 DEF LinPlaces
  <1>6. LinReads'
    BY <1>2 DEF LinReads, Reading, LinKernel, LinPlaces, Standing, Gone
  <1>7. LinChased'
    BY <1>2 DEF LinChased, LinKernel, LinPlaces, Standing, Gone
  <1>8. LinReport' /\ LinConstruction'
    BY DEF LinReport, Told, LinConstruction
  <1>9. LinCounts'
    BY <1>2 DEF LinCounts
  <1>10. LinKnown'
    BY <1>2, NothingAssumption DEF LinKnown, Stored, Uninformed
  <1>11. LinLast'
    <2>1. owner \notin {"join"} \cup Gone => pending' = Stored
      BY <1>1 DEF Wake, LinPlaces, ReceiverLeft, Gone
    <2>2. Told(Stored)
      BY DEF LinLast, Told, Stored
    <2>3. notify' = "idle" /\ Stored # Nothing
      BY NothingAssumption, SentAreFlags
    <2> QED BY <2>1, <2>2, <2>3 DEF LinLast, Standing, Told, Gone
  <1> QED BY <1>3, <1>4, <1>5, <1>6, <1>7, <1>8, <1>9, <1>10, <1>11

\* A loop that was told to end has no directory armed.
LEMMA LoopEndsKeeps ==
  ASSUME LinInv, LoopEnds
  PROVE  LinInv'
  <1> USE DEF LinInv, LoopEnds, OwnerOnlyLoop, machineVars, buildVars, kernelVars,
        readVars, reportVars
  <1>1. LinFlags'
    BY DEF LinFlags
  <1>2. LinSets' /\ LinStates' /\ LinPlaces' /\ LinKernel'
    BY DEF LinSets, Stores, LinStates, OwnerPlaces, Dropping, Gone, LinPlaces, LinKernel,
          Standing
  <1>3. LinReads'
    BY DEF LinReads, Reading, LinKernel
  <1>4. LinChased'
    BY DEF LinChased, LinKernel
  <1>5. LinCounts' /\ LinKnown' /\ LinLast' /\ LinReport' /\ LinConstruction'
    BY DEF LinCounts, LinKnown, LinLast, Told, Standing, LinReport, LinConstruction
  <1> QED BY <1>1, <1>2, <1>3, <1>4, <1>5

\* A wake told of the last loss makes the coordinator know it.
LEMMA TakeWakeKeeps ==
  ASSUME LinInv, TakeWake
  PROVE  LinInv'
  <1> USE DEF LinInv, TakeWake, Receive, CoordinatorOnly, machineVars, buildVars,
        kernelVars, lossVars, loopVars, readVars
  <1>1. LinFlags'
    BY DEF LinFlags
  <1>2. LinSets' /\ LinStates' /\ LinPlaces' /\ LinKernel'
    BY DEF LinSets, Stores, LinStates, OwnerPlaces, Dropping, Gone, LinPlaces, LinKernel,
          Standing
  <1>3. LinReads' /\ LinChased'
    BY DEF LinReads, Reading, LinPlaces, LinSets, LinStates, Stores, LinChased
  <1>4. LinKnown' /\ LinReport' /\ LinConstruction'
    BY DEF LinKnown, LinReport, Told, LinConstruction
  <1>5. LinCounts'
    <2>1. pending \in Flags /\ known \in Flags BY DEF LinCounts
    <2>2. Len(Cascade) \in Nat BY CascadeAssumption
    <2>3. Min({known.live, pending.live}) \in {known.live, pending.live}
      BY <2>1, <2>2, MinOfTwo DEF Flags
    <2>4. known' \in Flags
      BY <2>1, <2>3 DEF Flags
    <2> QED BY <2>4 DEF LinCounts
  <1>6. LinLast'
    <2>1. pending \in Flags /\ known \in Flags BY DEF LinCounts
    <2>2. Len(Cascade) \in Nat BY CascadeAssumption
    <2>3. known.live \in Nat /\ pending.live \in Nat
      BY <2>1, <2>2 DEF Flags
    <2>4. known.live = 0 \/ pending.live = 0 => Min({known.live, pending.live}) = 0
      BY <2>3, MinOfTwo
    <2>5. Told(known) \/ Told(pending) => Told(known')
      BY <2>4 DEF Told
    <2> QED BY <2>5 DEF LinLast
  <1> QED BY <1>1, <1>2, <1>3, <1>4, <1>5, <1>6

\* The coordinator ends after every sender.
LEMMA DisconnectedKeeps ==
  ASSUME LinInv, Disconnected
  PROVE  LinInv'
  <1> USE DEF LinInv, Disconnected, SenderLeft, CoordinatorOnly, machineVars, buildVars,
        kernelVars, lossVars, loopVars, readVars
  <1>1. LinFlags'
    BY DEF LinFlags
  <1>2. LinSets' /\ LinStates' /\ LinKernel'
    BY DEF LinSets, Stores, LinStates, OwnerPlaces, Dropping, Gone, LinKernel, Standing
  <1>3. LinPlaces'
    BY DEF LinPlaces, Gone
  <1>4. LinReads'
    BY DEF LinReads, Reading, LinPlaces, LinSets, LinStates, Stores
  <1>5. LinChased'
    BY DEF LinChased, LinKernel
  <1>6. LinCounts' /\ LinKnown' /\ LinLast' /\ LinReport' /\ LinConstruction'
    BY DEF LinCounts, LinKnown, LinLast, Told, Standing, LinReport, LinConstruction
  <1> QED BY <1>1, <1>2, <1>3, <1>4, <1>5, <1>6

\* The deadline of the window passes.
LEMMA DeadlinePassesKeeps ==
  ASSUME LinInv, DeadlinePasses
  PROVE  LinInv'
  <1> USE DEF LinInv, DeadlinePasses, CoordinatorOnly, machineVars, buildVars, kernelVars,
        lossVars, loopVars, readVars
  <1>1. LinFlags'
    BY DEF LinFlags
  <1>2. LinSets' /\ LinStates' /\ LinPlaces' /\ LinKernel'
    BY DEF LinSets, Stores, LinStates, OwnerPlaces, Dropping, Gone, LinPlaces, LinKernel,
          Standing
  <1>3. LinReads' /\ LinChased'
    BY DEF LinReads, Reading, LinPlaces, LinSets, LinStates, Stores, LinChased
  <1>4. LinCounts' /\ LinKnown' /\ LinLast' /\ LinReport' /\ LinConstruction'
    BY DEF LinCounts, LinKnown, LinLast, Told, Standing, LinReport, LinConstruction
  <1> QED BY <1>1, <1>2, <1>3, <1>4

\* The window closes.
LEMMA WindowClosesKeeps ==
  ASSUME LinInv, WindowCloses
  PROVE  LinInv'
  <1> USE DEF LinInv, WindowCloses, CoordinatorOnly, machineVars, buildVars, kernelVars,
        lossVars, loopVars, readVars
  <1>1. LinFlags'
    BY DEF LinFlags
  <1>2. LinSets' /\ LinStates' /\ LinPlaces' /\ LinKernel'
    BY DEF LinSets, Stores, LinStates, OwnerPlaces, Dropping, Gone, LinPlaces, LinKernel,
          Standing
  <1>3. LinReads' /\ LinChased'
    BY DEF LinReads, Reading, LinPlaces, LinSets, LinStates, Stores, LinChased
  <1>4. LinCounts' /\ LinKnown' /\ LinLast' /\ LinReport' /\ LinConstruction'
    BY DEF LinCounts, LinKnown, LinLast, Told, Standing, LinReport, LinConstruction
  <1> QED BY <1>1, <1>2, <1>3, <1>4

\* What the coordinator reads is no older than what it knows, and is reported.
LEMMA CheckLossKeeps ==
  ASSUME LinInv, CheckLoss
  PROVE  LinInv'
  <1>1. PICK flags \in Readable(known) :
         /\ known' = flags
         /\ IF reporting = "nothing" \/ ~flags.lost
              THEN UNCHANGED <<reporting, degraded, dark>>
              ELSE /\ degraded' = TRUE
                   /\ dark' = (dark \/ (flags.live = 0 /\ lastLiveRoute))
                   /\ reporting' = IF flags.live = 0 THEN "nothing" ELSE "dark"
    BY DEF CheckLoss
  <1>2. coordinator = "loss" /\ coordinator' = "read" /\ UNCHANGED <<pending, readVars>>
          /\ CoordinatorOnly
    BY DEF CheckLoss
  <1>3. flags \in Flags /\ (flags.lost => lost) /\ (known.lost => flags.lost)
    BY DEF Readable, LinInv, LinKnown
  <1>4. (flags.live = 0 => liveCount = 0) /\ (known.live = 0 => flags.live = 0)
    BY CascadeAssumption DEF Readable, Flags, LinInv, LinCounts
  <1>5. Told(known) => Told(flags)
    BY <1>3, <1>4 DEF Told
  <1> USE DEF LinInv, CoordinatorOnly, machineVars, buildVars, kernelVars, lossVars,
        loopVars, readVars, reportVars
  <1> USE <1>1, <1>2
  <1>6. LinFlags'
    BY DEF LinFlags
  <1>7. LinSets' /\ LinStates' /\ LinPlaces' /\ LinKernel'
    BY DEF LinSets, Stores, LinStates, OwnerPlaces, Dropping, Gone, LinPlaces, LinKernel,
          Standing
  <1>8. LinReads' /\ LinChased'
    BY DEF LinReads, Reading, LinPlaces, LinSets, LinStates, Stores, LinChased
  <1>9. LinConstruction'
    BY DEF LinConstruction
  <1>10. LinCounts'
    BY <1>3 DEF LinCounts
  <1>11. LinKnown'
    BY <1>3 DEF LinKnown
  <1>12. LinLast'
    BY <1>5 DEF LinLast
  <1>13. LinReport'
    BY <1>3, <1>4 DEF LinReport, LinPlaces, Told
  <1> QED BY <1>6, <1>7, <1>8, <1>9, <1>10, <1>11, <1>12, <1>13

\* What the read missed under a live route is on its way.
LEMMA PublishKeeps ==
  ASSUME LinInv, Publish
  PROVE  LinInv'
  <1> USE DEF LinInv, Publish, Copied, CoordinatorOnly, machineVars, buildVars,
        kernelVars, lossVars, loopVars
  <1>1. LinFlags'
    BY DEF LinFlags
  <1>2. LinSets' /\ LinStates' /\ LinPlaces' /\ LinKernel'
    BY DEF LinSets, Stores, LinStates, OwnerPlaces, Dropping, Gone, LinPlaces, LinKernel,
          Standing
  <1>3. LinReads'
    BY DEF LinReads, Reading, LinPlaces, LinSets, LinStates, Stores
  <1>4. LinChased'
    BY DEF LinChased, LinReads, LinPlaces, Reading, LinSets
  <1>5. LinCounts' /\ LinKnown' /\ LinLast' /\ LinReport' /\ LinConstruction'
    BY DEF LinCounts, LinKnown, LinLast, Told, Standing, LinReport, LinConstruction
  <1> QED BY <1>1, <1>2, <1>3, <1>4, <1>5

\* The sources go.
LEMMA DropSourcesKeeps ==
  ASSUME NEW from \in {"ready", "drop"}, LinInv, DropSources(from)
  PROVE  LinInv'
  <1> USE DEF LinInv, DropSources, DropsSources, machineVars, lossVars, readVars, reportVars
  <1>1. LinFlags'
    BY DEF LinFlags
  <1>2. LinSets' /\ LinStates' /\ LinPlaces' /\ LinKernel'
    BY DEF LinSets, Stores, LinStates, OwnerPlaces, Dropping, Gone, LinPlaces, LinKernel,
          Standing
  <1>3. LinReads' /\ LinChased'
    BY DEF LinReads, Reading, LinPlaces, LinSets, LinStates, Stores, LinChased
  <1>4. LinCounts' /\ LinKnown' /\ LinLast' /\ LinReport' /\ LinConstruction'
    BY DEF LinCounts, LinKnown, LinLast, Told, Standing, LinReport, LinConstruction
  <1> QED BY <1>1, <1>2, <1>3, <1>4

\* The coordinator has ended, or was never there.
LEMMA JoinKeeps ==
  ASSUME LinInv, Join
  PROVE  LinInv'
  <1> USE DEF LinInv, Join, machineVars, buildVars, kernelVars, lossVars, loopVars,
        readVars, reportVars
  <1>1. LinFlags'
    BY DEF LinFlags
  <1>2. LinSets' /\ LinStates' /\ LinPlaces' /\ LinKernel'
    BY DEF LinSets, Stores, LinStates, OwnerPlaces, Dropping, Gone, LinPlaces, LinKernel,
          Standing
  <1>3. LinReads' /\ LinChased'
    BY DEF LinReads, Reading, LinPlaces, LinSets, LinStates, Stores, LinChased
  <1>4. LinCounts' /\ LinKnown' /\ LinLast' /\ LinReport' /\ LinConstruction'
    BY DEF LinCounts, LinKnown, LinLast, Told, Standing, LinReport, LinConstruction
  <1> QED BY <1>1, <1>2, <1>3, <1>4

\* A step that changes nothing keeps it.
LEMMA StutterKeeps ==
  ASSUME LinInv, UNCHANGED vars
  PROVE  LinInv'
  <1> USE DEF LinInv, vars, machineVars, buildVars, kernelVars, lossVars, loopVars,
        readVars,
              reportVars
  <1>1. LinFlags' /\ LinSets' /\ LinStates' /\ LinPlaces' /\ LinKernel'
    BY DEF LinFlags, LinSets, LinStates, LinPlaces, LinKernel
  <1>2. LinReads' /\ LinChased' /\ LinCounts' /\ LinKnown' /\ LinLast'
    BY DEF LinReads, Reading, LinChased, LinCounts, LinKnown, LinLast, Told
  <1>3. LinReport' /\ LinConstruction'
    BY DEF LinReport, Told, LinConstruction
  <1> QED BY <1>1, <1>2, <1>3

\* Before the first step there is only what the machine has.
LEMMA InitKeeps == Init => LinInv
  <1> SUFFICES ASSUME Init PROVE LinInv
    OBVIOUS
  <1>1. LinFlags BY DEF Init, LinFlags
  <1>2. LinSets /\ LinStates
    BY DEF Init, LinSets, LinStates, OwnerPlaces, Stores
  <1>3. LinPlaces /\ LinKernel /\ LinReads /\ LinChased
    BY DEF Init, LinPlaces, LinKernel, LinReads, LinChased, Reading, Standing
  <1>4. LinCounts
    <2>1. Len(Cascade) \in Nat BY CascadeAssumption
    <2>2. Uninformed \in Flags BY <2>1 DEF Uninformed, Flags
    <2>3. liveCount = Len(Cascade) /\ countAtLoss = Len(Cascade) /\ notify = "none"
          /\ created = Uninformed /\ known = Uninformed /\ pending = Nothing
      BY DEF Init
    <2>4. liveCount \in 0..Len(Cascade) /\ countAtLoss \in liveCount..Len(Cascade)
      BY <2>1, <2>3
    <2> QED BY <2>2, <2>3, <2>4 DEF LinCounts
  <1>5. LinKnown /\ LinLast
    BY DEF Init, LinKnown, LinLast, Uninformed
  <1>6. LinReport /\ LinConstruction
    BY DEF Init, LinReport, LinConstruction
  <1> QED BY <1>1, <1>2, <1>3, <1>4, <1>5, <1>6 DEF LinInv

\* Every step keeps it.
LEMMA StepKeeps == LinInv /\ [Next]_vars => LinInv'
  <1> SUFFICES ASSUME LinInv, [Next]_vars PROVE LinInv'
    OBVIOUS
  <1>1. CASE Environment
    BY <1>1, WriteGSettingsKeeps, WriteLayerKeeps, RemoveDirectoryKeeps DEF Environment
  <1>2. CASE Construct
    BY <1>2, ArmNothingKeeps, CreateWatcherKeeps, RegisterDirectoryKeeps, RegisteredKeeps,
       InitialReadKeeps, StartGSettingsKeeps, ForceReadKeeps, SpawnThreadsKeeps,
       RecordHealthKeeps DEF Construct
  <1>3. CASE PollNow \/ PollTick \/ DispatchSignal
    BY <1>3, PollNowKeeps, PollTickKeeps, DispatchSignalKeeps
  <1>4. CASE Loop
    BY <1>4, SeeWriteKeeps, SeeEndKeeps, StoreLostKeeps, CallbackWakesKeeps,
       CallbackDeliversKeeps, LoopEndsKeeps DEF Loop
  <1>5. CASE Coordinate
    BY <1>5, TakeWakeKeeps, DisconnectedKeeps, DeadlinePassesKeeps, WindowClosesKeeps,
          CheckLossKeeps, PublishKeeps
    DEF Coordinate
  <1>6. CASE DropSources("ready") \/ Drop
    BY <1>6, DropSourcesKeeps, JoinKeeps DEF Drop
  <1>7. CASE UNCHANGED vars
    BY <1>7, StutterKeeps
  <1> QED BY <1>1, <1>2, <1>3, <1>4, <1>5, <1>6, <1>7 DEF Next

\* The invariant of the specification.
LEMMA LinuxInvariant == Spec => []LinInv
  BY InitKeeps, StepKeeps, PTL DEF Spec

-----------------------------------------------------------------------------
(* The health.                                                             *)

\* The type invariant follows.
LEMMA TypeFollows == LinInv => TypeOK
  <1> SUFFICES ASSUME LinInv PROVE TypeOK
    OBVIOUS
  <1>1. \A flag \in {lost, poll, closing, signal, lastLiveRoute, failed, degraded, dark} :
           flag \in BOOLEAN
    BY Zenon DEF LinInv, LinFlags
  <1>2. polling \in BOOLEAN /\ schema \in BOOLEAN
    BY Zenon DEF LinInv, LinFlags
  <1>3. /\ present \in SUBSET Directories /\ armed \in SUBSET present
        /\ toRegister \in SUBSET Directories /\ watched \in SUBSET Directories
        /\ events \in SUBSET (Directories \union {Written})
        /\ fresh \in SUBSET Stores /\ behind \in SUBSET Stores
    BY DEF LinInv, LinSets
  <1>4. construction \in ConstructionHealth \union {Nothing}
    BY Zenon DEF LinInv, LinConstruction
  <1>5. /\ known \in Flags /\ created \in Flags /\ pending \in Flags \union {Nothing}
        /\ liveCount \in 0..Len(Cascade) /\ countAtLoss \in liveCount..Len(Cascade)
    BY Zenon DEF LinInv, LinCounts
  <1> QED BY <1>1, <1>2, <1>3, <1>4, <1>5, Zenon DEF LinInv, LinStates, TypeOK

\* No directory is counted, so none is armed.
LEMMA NoneCounted == LinInv /\ liveCount = 0 => armed = {}
  <1> SUFFICES ASSUME LinInv, liveCount = 0, armed # {} PROVE FALSE
    OBVIOUS
  <1>1. Cardinality(watched) = 0 /\ armed \subseteq watched /\ watched \subseteq Directories
    BY DEF LinInv, LinCounts, LinKernel, LinSets
  <1>2. watched = {}
    BY <1>1, DirectoriesAreFew, FS_EmptySet
  <1> QED BY <1>1, <1>2

\* While the coordinator has nothing to do, the health tells of every loss it
\* was told of, and of the last one in any case.
LEMMA LossesTold == LinInv => LossIsTold
  <1> SUFFICES ASSUME LinInv, owner = "ready", ~InFlight, kde = "live"
               PROVE  /\ known.lost => Health.degraded
                      /\ liveCount = 0 => Health.degraded
                           /\ (gnome # "live" => ~Health.live)
    BY DEF LossIsTold
  <1>1. coordinator = "recv" /\ pending = Nothing /\ notify \notin {"flag", "deliver"}
    BY DEF InFlight, LinInv, LinPlaces, LinStates
  <1>2. construction.kioslaverc => Health.degraded
    BY DEF Health
  <1>3. degraded => Health.degraded
    BY DEF Health
  <1>4. dark => ~Health.live
    BY DEF Health
  <1>5. known.lost => degraded \/ created.lost
    BY <1>1 DEF LinInv, LinReport
  <1>6. created.lost => construction.kioslaverc
    BY DEF LinInv, LinConstruction
  <1>7. liveCount = 0 => Told(known)
    BY <1>1 DEF LinInv, LinLast, Standing
  <1>8. Told(known) => degraded /\ (lastLiveRoute => dark)
    BY <1>1 DEF LinInv, LinReport
  <1>9. gnome # "live" => lastLiveRoute
    BY DEF LinInv, LinReport
  <1> QED BY <1>2, <1>3, <1>4, <1>5, <1>6, <1>7, <1>8, <1>9

\* A watcher that is called dark has no route that delivers.
LEMMA DarkIsDark == LinInv => DarkIsTrue
  <1> SUFFICES ASSUME LinInv, owner = "ready", ~Health.live
               PROVE  armed = {} /\ gnome # "live"
    BY DEF DarkIsTrue
  <1>1. ~construction.live \/ dark
    BY DEF Health
  <1>2. CASE dark
    BY <1>2, NoneCounted DEF LinInv, LinReport
  <1>3. CASE ~construction.live
    <2>1. gnome # "live" /\ (kde # "live" \/ liveCount = 0)
      BY <1>3 DEF LinInv, LinConstruction
    <2>2. kde # "live" => armed = {}
      BY DEF LinInv, LinKernel
    <2> QED BY <2>1, <2>2, NoneCounted
  <1> QED BY <1>1, <1>2, <1>3

\* In every state the health says of the routes what is true of them: a loss the
\* coordinator was told of, and the last one in any case, is reported once it is
\* at rest, and no watcher is called dark that still has a live route.
THEOREM LinuxHealthIsTrue == Spec => []HealthIsTrue
  <1>1. LinInv => HealthIsTrue
    BY TypeFollows, LossesTold, DarkIsDark DEF HealthIsTrue
  <1> QED BY <1>1, LinuxInvariant, PTL

-----------------------------------------------------------------------------
(* The settings are followed.                                              *)

Follows == Follow!Next \/ UNCHANGED Follow!followVars

\* As long as a route is up the coordinator and the owner have not ended.
LEMMA LiveAre ==
  LinInv => LiveStores = armed \cup (IF gnome = "live" THEN {GSettings} ELSE {})
  BY DEF LinInv, LinKernel, LinPlaces, LiveStores, Standing, Gone

\* So in the next state.
LEMMA LiveWillBe ==
  LinInv' => LiveStores' = armed' \cup (IF gnome' = "live" THEN {GSettings} ELSE {})
  <1>1. (LinInv => LiveStores = armed \cup (IF gnome = "live" THEN {GSettings} ELSE {}))'
    BY LiveAre, PTL
  <1> QED BY <1>1

\* At rest the copy is right about every store with a live route.
LEMMA AtRest ==
  LinInv => InFlight \/ behind \cap LiveStores = {} \/ failed
  <1> SUFFICES ASSUME LinInv, ~InFlight, ~failed
               PROVE  behind \cap LiveStores = {}
    OBVIOUS
  <1>1. armed \cap behind = {}
    BY DEF LinInv, LinChased, InFlight
  <1>2. ~(gnome = "live" /\ GSettings \in behind)
    BY DEF LinInv, LinChased, InFlight
  <1> QED BY <1>1, <1>2, LiveAre

\* So in the next state.
LEMMA WillBeAtRest ==
  LinInv' => InFlight' \/ behind' \cap LiveStores' = {} \/ failed'
  <1>1. (LinInv => InFlight \/ behind \cap LiveStores = {} \/ failed)'
    BY AtRest, PTL
  <1> QED BY <1>1

\* A step that touches neither the copy nor a route stutters, owes a read, or
\* comes to rest.
LEMMA Quiet ==
  ASSUME LinInv, LinInv', UNCHANGED <<behind, failed, armed, gnome>>
  PROVE  Follows
  <1>1. LiveStores' = LiveStores
    BY LiveAre, LiveWillBe
  <1>2. CASE InFlight' = InFlight
    BY <1>1, <1>2 DEF Follows, Follow!followVars
  <1>3. CASE InFlight' = TRUE
    BY <1>1, <1>3 DEF Follows, Follow!Next, Follow!Ask, Follow!Owed
  <1>4. CASE InFlight' = FALSE
    <2>1. behind \cap LiveStores = {} \/ failed
      BY <1>1, <1>4, WillBeAtRest
    <2> QED BY <1>1, <1>4, <2>1 DEF Follows, Follow!Next, Follow!Settle
  <1>5. InFlight' \in BOOLEAN /\ InFlight \in BOOLEAN
    BY DEF InFlight, LinInv, LinFlags
  <1> QED BY <1>2, <1>3, <1>4, <1>5

\* A step that takes routes down owes no read that was not owed before.
LEMMA Detaches ==
  ASSUME LinInv, LinInv', UNCHANGED <<behind, failed>>, LiveStores' \subseteq LiveStores,
         InFlight' => InFlight
  PROVE  Follows
  <1>1. InFlight' \in BOOLEAN /\ InFlight \in BOOLEAN
    BY DEF InFlight, LinInv, LinFlags
  <1>2. CASE InFlight' = InFlight
    BY <1>2 DEF Follows, Follow!Next, Follow!Detach
  <1>3. CASE InFlight' = FALSE
    <2>1. behind \cap LiveStores' = {} \/ failed
      BY <1>3, WillBeAtRest
    <2> QED BY <1>3, <2>1 DEF Follows, Follow!Next, Follow!Detach
  <1> QED BY <1>1, <1>2, <1>3

\* A store is written, and its live route says so.
LEMMA WritesFollow ==
  ASSUME LinInv, LinInv',
         WriteGSettings \/ \E d \in Directories : WriteLayer(d)
  PROVE  Follows
  <1> USE DEF Outdated, machineVars, buildVars, kernelVars, lossVars, loopVars, readVars,
              reportVars
  <1>1. ASSUME NEW s \in Stores, behind' = behind \cup {s}, UNCHANGED <<failed, armed,
        gnome>>,
               s \in LiveStores => InFlight',
               s \notin LiveStores => InFlight' = InFlight
        PROVE  Follows
    <2>1. LiveStores' = LiveStores
      BY <1>1, LiveAre, LiveWillBe
    <2>2. InFlight' \in BOOLEAN
      BY DEF InFlight, LinInv, LinFlags
    <2>3. Follow!Write(s)
      BY <1>1, <2>1, <2>2 DEF Follow!Write, Follow!Owed
    <2> QED BY <2>3 DEF Follows, Follow!Next
  <1>2. CASE WriteGSettings
    <2> USE <1>2 DEF WriteGSettings
    <2>1. GSettings \in LiveStores <=> gnome = "live"
      BY LiveAre, LiveWillBe, StoreAssumption DEF LinInv, LinSets
    <2>2. gnome = "live" => InFlight'
      BY DEF InFlight
    <2>3. gnome # "live" => signal' = signal
      BY DEF LinInv, LinFlags
    <2>4. gnome # "live" => InFlight' = InFlight
      BY <2>3 DEF InFlight
    <2>5. /\ GSettings \in Stores /\ behind' = behind \cup {GSettings}
          /\ UNCHANGED <<failed, armed, gnome>>
      BY DEF Stores
    <2> HIDE <1>2
    <2> QED BY <1>1, <2>1, <2>2, <2>4, <2>5
  <1>3. ASSUME NEW d \in Directories, WriteLayer(d) PROVE Follows
    <2> USE <1>3 DEF WriteLayer
    <2>1. d \in LiveStores <=> d \in armed
      BY LiveAre, LiveWillBe, StoreAssumption
    <2>2. d \in armed => InFlight'
      BY DEF InFlight
    <2>3. d \notin armed => InFlight' = InFlight
      BY DEF InFlight
    <2>4. d \in Stores /\ behind' = behind \cup {d} /\ UNCHANGED <<failed, armed, gnome>>
      BY DEF Stores
    <2> HIDE <1>3
    <2> QED BY <1>1, <2>1, <2>2, <2>3, <2>4
  <1> QED BY <1>2, <1>3

\* A directory goes.  Its own watch tells, or it has none; the watch of the
\* directory above tells as well, but then it was still to be registered.
LEMMA RemovalFollows ==
  ASSUME LinInv, LinInv', NEW d \in Directories, RemoveDirectory(d)
  PROVE  Follows
  <1> USE DEF RemoveDirectory, Outdated, machineVars, buildVars, lossVars, reportVars
  <1>1. d \in LiveStores <=> d \in armed
    BY LiveAre, LiveWillBe, StoreAssumption
  <1>2. LiveStores' = LiveStores \ {d}
    BY LiveAre, LiveWillBe, StoreAssumption
  <1>3. d \in armed => InFlight'
    BY DEF InFlight
  <1>4. d \notin armed => InFlight' = InFlight
    <2>1. CASE owner = "register"
      BY <2>1 DEF InFlight
    <2>2. CASE owner # "register"
      <3>1. toRegister = {} /\ d \in present
        BY <2>2 DEF LinInv, LinKernel
      <3>2. d \notin armed => armed = {}
        BY <3>1 DEF LinInv, LinKernel
      <3>3. d \notin armed => events' = events
        BY <3>2
      <3> QED BY <3>3 DEF InFlight
    <2> QED BY <2>1, <2>2
  <1>5. InFlight' \in BOOLEAN
    BY DEF InFlight, LinInv, LinFlags
  <1>6. d \in Stores /\ behind' = behind \cup {d} /\ failed' = failed
    BY DEF Stores
  <1>7. Follow!Lose(d)
    BY <1>1, <1>2, <1>3, <1>4, <1>5, <1>6 DEF Follow!Lose, Follow!Owed
  <1> QED BY <1>6, <1>7 DEF Follows, Follow!Next

\* The constructor brings routes up and takes them down while it owes a read.
LEMMA ConstructionFollows ==
  ASSUME LinInv, LinInv', Construct, ~InitialRead
  PROVE  Follows
  <1> USE DEF machineVars, buildVars, kernelVars, lossVars, loopVars, readVars, reportVars
  <1>1. CASE ArmNothing
    BY <1>1, Quiet DEF ArmNothing
  <1>2. CASE CreateWatcher
    <2>1. armed = {}
      BY <1>2 DEF CreateWatcher, LinInv, LinKernel, Standing
    <2>2. UNCHANGED <<behind, failed, armed, gnome>>
      BY <1>2, <2>1 DEF CreateWatcher, EstablishFails
    <2> QED BY <2>2, Quiet
  <1>3. CASE RegisterDirectory
    <2>1. InFlight /\ gnome = "none" /\ UNCHANGED <<behind, failed, gnome>>
      BY <1>3 DEF RegisterDirectory, InFlight, LinInv, LinPlaces
    <2>2. CASE EstablishFails
      <3>1. LiveStores' \subseteq LiveStores
        BY <2>1, <2>2, LiveAre, LiveWillBe DEF EstablishFails
      <3> QED BY <2>1, <3>1, Detaches
    <2>3. CASE ~EstablishFails
      <3>1. PICK d \in toRegister : armed' = armed \cup {d} /\ owner' = owner
        BY <1>3, <2>3, MostSpecificIsOne DEF RegisterDirectory, LinInv, LinSets
      <3>2. LiveStores' = LiveStores \cup {d} /\ d \in Stores
        BY <2>1, <3>1, LiveAre, LiveWillBe DEF LinInv, LinSets, Stores
      <3>3. InFlight' = TRUE
        BY <1>3, <3>1 DEF InFlight, RegisterDirectory
      <3>4. Follow!Attach(d)
        BY <2>1, <3>2, <3>3 DEF Follow!Attach, Follow!Owed
      <3> QED BY <3>2, <3>4 DEF Follows, Follow!Next
    <2> QED BY <2>2, <2>3
  <1>4. CASE Registered
    BY <1>4, Quiet DEF Registered
  <1>5. CASE StartGSettings
    <2>1. gnome = "none" /\ UNCHANGED <<behind, failed, armed>>
      BY <1>5 DEF StartGSettings, LinInv, LinPlaces
    <2>2. CASE gnome' = "live"
      <3>1. owner' = "force"
        BY <1>5, <2>1, <2>2 DEF StartGSettings
      <3>2. InFlight' = TRUE
        BY <3>1 DEF InFlight
      <3>3. LiveStores' = LiveStores \cup {GSettings}
        BY <2>1, <2>2, LiveAre, LiveWillBe
      <3>4. Follow!Attach(GSettings)
        BY <2>1, <3>2, <3>3 DEF Follow!Attach, Follow!Owed
      <3> QED BY <3>4 DEF Follows, Follow!Next, Stores
    <2>3. CASE gnome' # "live"
      <3>1. LiveStores' = LiveStores
        BY <2>1, <2>3, LiveAre, LiveWillBe
      <3>2. InFlight' => InFlight
        BY <1>5, <2>1, <2>3 DEF StartGSettings, InFlight
      <3> QED BY <2>1, <3>1, <3>2, Detaches
    <2> QED BY <2>2, <2>3
  <1>6. CASE ForceRead
    BY <1>6, Quiet DEF ForceRead
  <1>7. CASE SpawnThreads
    BY <1>7, Quiet DEF SpawnThreads
  <1>8. CASE RecordHealth
    BY <1>8, Quiet DEF RecordHealth
  <1> QED BY <1>1, <1>2, <1>3, <1>4, <1>5, <1>6, <1>7, <1>8 DEF Construct

\* What is read is published.
LEMMA ReadsFollow ==
  ASSUME LinInv, LinInv', InitialRead \/ Publish
  PROVE  Follows
  <1> USE DEF InitialRead, Publish, CoordinatorOnly, machineVars, buildVars, kernelVars,
              lossVars, loopVars, reportVars
  <1>1. InFlight /\ InFlight' \in BOOLEAN
    BY DEF InFlight, LinInv, LinFlags
  <1>2. UNCHANGED <<armed, gnome>>
    OBVIOUS
  <1>3. LiveStores' = LiveStores
    BY <1>2, LiveAre, LiveWillBe
  <1>4. CASE failed' = TRUE
    <2>1. behind' = behind
      BY <1>4
    <2> QED BY <1>1, <1>3, <1>4, <2>1 DEF Follows, Follow!Next, Follow!PublishFailure
  <1>5. CASE failed' = FALSE
    <2>1. behind' \subseteq behind
      BY <1>5 DEF Copied
    <2>2. ~InFlight' => behind' \cap LiveStores = {}
      BY <1>3, <1>5, WillBeAtRest
    <2> QED BY <1>1, <1>3, <1>5, <2>1, <2>2 DEF Follows, Follow!Next, Follow!Publish
  <1> QED BY <1>4, <1>5

\* The threads take and answer wakes, and touch no route.
LEMMA ThreadsFollow ==
  ASSUME LinInv, LinInv',
         \/ PollNow \/ PollTick \/ DispatchSignal \/ Loop \/ Join
         \/ TakeWake \/ Disconnected \/ DeadlinePasses \/ WindowCloses \/ CheckLoss
  PROVE  Follows
  <1> USE DEF machineVars, buildVars, kernelVars, lossVars, loopVars, readVars, reportVars
  <1>1. CASE PollNow \/ PollTick \/ DispatchSignal \/ Join
    BY <1>1, Quiet DEF PollNow, PollTick, DispatchSignal, OnlyWake, Join
  <1>2. CASE Loop
    <2>1. OwnerOnlyLoop
      BY <1>2 DEF Loop, SeeWrite, SeeEnd, StoreLost, CallbackWakes, CallbackDelivers,
            LoopEnds
    <2> QED BY <2>1, Quiet DEF OwnerOnlyLoop
  <1>3. CASE TakeWake \/ Disconnected \/ DeadlinePasses \/ WindowCloses \/ CheckLoss
    <2>1. CoordinatorOnly /\ UNCHANGED readVars
      BY <1>3 DEF TakeWake, Disconnected, DeadlinePasses, WindowCloses, CheckLoss
    <2> QED BY <2>1, Quiet DEF CoordinatorOnly
  <1> QED BY <1>1, <1>2, <1>3

\* Drop takes every route down.
LEMMA DropFollows ==
  ASSUME LinInv, LinInv', NEW from \in {"ready", "drop"}, DropSources(from)
  PROVE  Follows
  <1> USE DEF DropSources, DropsSources, machineVars, lossVars, readVars, reportVars
  <1>1. armed' = {} /\ gnome' # "live" /\ UNCHANGED <<behind, failed>>
    OBVIOUS
  <1>2. LiveStores' \subseteq LiveStores
    BY <1>1, LiveAre, LiveWillBe
  <1>3. InFlight' => InFlight
    BY DEF InFlight
  <1> QED BY <1>1, <1>2, <1>3, Detaches

\* The Linux backend implements Follower, for any cascade of directories: what a
\* live route reports is copied, or a read is owed for it, or the newest failed.
THEOREM LinuxFollows == Spec => FollowsTheSettings
  <1>1. Init => Follow!Init
    <2> SUFFICES ASSUME Init PROVE Follow!Init
      OBVIOUS
    <2>1. LiveStores = {} BY DEF Init, LiveStores, Gone
    <2>2. InFlight = TRUE BY DEF Init, InFlight
    <2>3. behind = Stores /\ failed = FALSE BY DEF Init
    <2> QED BY <2>1, <2>2, <2>3 DEF Follow!Init
  <1>2. LinInv /\ LinInv' /\ [Next]_vars => [Follow!Next]_Follow!followVars
    <2> SUFFICES ASSUME LinInv, LinInv', [Next]_vars PROVE Follows
      BY DEF Follows
    <2>1. CASE Next
      BY <2>1, WritesFollow, RemovalFollows, ConstructionFollows, ReadsFollow,
            ThreadsFollow,
         DropFollows
      DEF Next, Environment, Construct, Coordinate, Drop
    <2>2. CASE UNCHANGED vars
      BY <2>2, Quiet DEF vars, buildVars, kernelVars, readVars
    <2> QED BY <2>1, <2>2
  <1> QED BY <1>1, <1>2, LinuxInvariant, PTL DEF Spec, FollowsTheSettings, Follow!Spec

\* With nothing in flight and the newest read not failed, the copy is right about
\* each store whose route the backend takes for live.
THEOREM LinuxCopyIsCurrent == Spec => []Follow!SettledIsCurrent
  <1>1. LinInv => Follow!SettledIsCurrent
    BY AtRest DEF Follow!SettledIsCurrent
  <1> QED BY <1>1, LinuxInvariant, PTL

=============================================================================
