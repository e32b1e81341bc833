# A TLA+ model of proxy-watch

proxy-watch is a Rust library that reads the proxy configuration of the
operating system and watches it: a caller gets the current `ProxyConfig`, a
stream of changes, and a `WatchHealth` that says through which routes later
changes would be noticed. This directory holds TLA+ modules translated from its
source, TLC configurations that check them on small instances, and proofs that
TLAPS checks for every value of the constants. Paths below are relative to the
repository (`src/watch.rs` is the crate's own `src` directory).

`PROJECT.json` lists every component, run, hazard and theorem, for each property
a plausible bug that breaks it, and for each definition the lines it models.

## The system

```
   operating system                    one backend thread                    caller
  registry | dynamic store | inotify,   waits, debounces, re-reads          polls the
  GSettings | broadcast  ──notifies──▶  every store, calls         ──wakes─▶ stream, reads
        ▲                               Shared::emit / fail /                current()
        └──────────── reads ─────────── degrade / mark_no_live...   health(), poll_now()

   caller ── a request and a ProxyConfig ──▶ bypass list ─▶ mode ─▶ proxy | direct
                                                             └─▶ PAC: QuickJS thread,
                                                 worker process, WinHTTP or CFNetwork
```

| component | code | state | operations | what makes it correct |
|---|---|---|---|---|
| stream core | `watch.rs`: `Shared`, `ThreadGuard` | current configuration, queue, waker, `closed`, `dirty`, runtime health, construction health | `emit`, `fail`, `degrade`, `mark_no_live_notifications`, `close`, `poll_next` | no lost wake-up; the newest state is never lost, at a full queue either; a change follows the failures before it; the end comes last |
| Linux watcher | `sys/linux/watcher.rs`, `kde/watch.rs`, `gnome.rs` | a one-slot channel, the inotify watch with its loss counters, the GSettings thread, the timer, the coordinator | `armed`, `spawn`, callbacks, `coordinate`, `poll_now`, `Drop` | no change a live route reported is lost; the loss of a route is reported; `Drop` returns |
| Windows watcher | `sys/win/notify.rs` | events, key registrations, `alive` | `armed`, `spawn`, `run`, `rearm`, `Drop` | the same, with keys that are deaf between a notification and the re-arm |
| macOS watcher | `sys/mac/notify.rs` | run loop sources, three flags | registration with retries, `run`, `poll_now`, `Drop` | the same; a request is served by a later read |
| Android and iOS | `sys/poll.rs`, `android/receiver.rs`, `ios.rs` | a one-slot channel, a global table of wake slots | `armed`, callbacks, the poll thread, `Drop` | the same; a late callback harms nobody |
| tokio bridge | `bridge.rs` | a task, tokio's watch channel | `watch_channel`, forwarding | receivers hold the current configuration; the last one releases the watcher |
| language bindings | `bindings/shared`, `bindings/c`, `bindings/node`, `bindings/python` | the pump thread, two locks, the flag of a close, posted calls, the GIL | `start`, the pump, `stop`, `close`, `current`, `route` | nothing is called after `close`; `close` returns; changes arrive in order |
| Linux read path | `sys/linux/*` | none: a function of the stores | `read_config` | the right store decides; one that cannot be read does not silence the others; locks of a layer hold |
| Windows read path | `sys/win/mod.rs`, `parse.rs` | none | `read_config` | policy, user and machine in that order; a value that was lost is no direct connection |
| Apple and Android read paths | `sys/proxy_dict.rs`, `sys/mac/mod.rs`, `sys/proxy_info.rs` | none | `read_config` | a flag that is on beside nothing is not "direct" |
| configuration model | `config.rs`, `mode.rs`, `env.rs` | none | `from_ordered_sources`, `with_env` | the environment decides only where it may; what was dropped stays an error |
| decisions | `bypass.rs`, `resolve.rs` | none | `parse_in`, `matches`, `resolve` | a list never lets through more than it says |
| PAC | `pac/budget.rs`, `quickjs.rs`, `subprocess.rs`, `dispatch.rs`, `hostfn.rs`, `result.rs`, `time.rs` | slots, a list of idle threads, a child process with a deadline | evaluation | slots are neither leaked nor forged; it returns at its deadline; a script is told the truth, and no more |
| PAC over the system | `pac/winhttp.rs`, `pac/cfnetwork.rs` | reference counts, handles, a run loop source | `resolve_config` | no callback writes through something freed; only a failed discovery becomes "direct" |
| errors, logs, utilities | `error.rs`, `trace.rs`, `debug_masking.rs`, `util.rs` | none | | wording, not modelled |

What is hard here is concurrency and time: a change that lands between the
first read and the subscription, during a re-read, or while a key is not armed;
a wake-up that a full channel refuses; a thread that parks while another
publishes; routes that die one after another while the health is being
recorded; a `Drop` that joins a thread which waits for clones held elsewhere;
a debounce window that never closes under a storm; a callback that comes after
the resolution it belongs to was given up; a slot that two callers, a killed
worker and an abandoned script pass on; a `close` called from the callback it
is to stop. And it is the number of cases: six stores with four states each,
five dialects of one list, keys that are on beside keys that are blank, where
a wrong turn sends a request past the proxy it was meant for. `hazards` in
`PROJECT.json` lists each at its line, with the properties that cover it.

## The modules

### The stream and the watchers

Every backend promises the same thing, so there are two abstract specifications
and one module for each implementation.

* **`LevelStream`** (abstract): a subscriber and a source. Publications, health
  transitions and the end; what is delivered is the newest state, and
  intermediate states may be skipped.
* **`Shared`** implements it (`ImplementsLevelStream`: what the subscriber was told
  and `ended` against the state in the core). One action per method, since each
  takes the mutex once; the wake after the unlock is an action of its own
  (`Wake`), and the backend does nothing else before it. The queue is a sequence
  of `Snapshot` and failures; the failure carries the configuration it followed
  as a history, for `ChangeFollowsFailure`. `ThreadGuard` is the sequence
  `Return`/`Panic`, `GuardMarks`, `GuardFails`, `Close`. `poll_next` is
  `PollQueued`, `PollDirty`, `PollEnd` or `PollPending`. The constructor's
  `SetConstructionHealth` may come after the backend has started to publish;
  polling may not (the watcher has not been returned yet). `dropped` counts to
  `DroppedCap`, because only 0, 1 and more are told apart (in a log line).
* **`Follower`** (abstract): stores written since they were copied (`behind`),
  the stores whose next write will be noticed (`live`), whether a re-read is
  owed (`noticed`) and whether the newest one failed. A write through a live
  route owes a read; nothing settles while a live route has reported something
  that was not copied.
* **`LinuxWatch`**, **`WinWatch`**, **`MacWatch`**, **`PollWatch`** implement it
  (`FollowsTheSettings`: `live` is what the backend takes for live, `noticed`
  is everything on its way or being answered). In each, the owner walks through
  the constructor, calls `poll_now` and drops the watcher; the thread waits,
  debounces and re-reads; the environment writes, deletes and notifies. A
  store's value is abstracted to whether it was written since the copy: a
  re-read takes time, and a store written meanwhile may have been looked at
  before the write or after it (`fresh`, `Copied`). The equality skip of `emit`
  is `Shared`'s business.
  * `LinuxWatch` keeps the clones of the trigger apart (they decide when the
    coordinator ends), splits the callback's loss into the flag, the wake and
    the blocking delivery, and keeps what the coordinator is *certain* to see of
    the counters (`known`) apart from what was stored: a refused `try_send` has
    no happens-before. The two atomics are read by the coordinator within what
    acquire and release permit (`Readable`).
  * `WinWatch` uses up a registration with the first change, gives `wait` its
    order of handles, and lets a fatal re-arm finish the window. The group
    policy key and the ancestor it falls back to are one key.
  * `MacWatch` has run loop sources that stay signalled, the two steps of
    `poll_now` and `Drop` in their order, and the retries of the registration.
    Both keys of the dynamic store are one store.
  * `PollWatch` is `poll.rs` with either of its users: Android (a broadcast that
    is a notification) and iOS (hints that promise nothing, a timer that does).
* **`Backends`** puts the three watchers of one thread side by side: the crate is
  built for one of them, which the initial state chooses, and each is to follow
  the settings.
* **`Bridge`** composes `Shared` with the task of `bridge.rs`: the task is the
  subscriber, and tokio's channel is what was published last and how many
  receivers there are.
* **`Pump`** composes `Shared` with `Watch` of the bindings: the pump is the
  subscriber, and threads of the host call `stop` and `close`, any number at a
  time and from `on_change` too. `deliver` is the host's: C calls, Python needs
  the GIL its own threads hold, Node posts to the JavaScript thread.
* **`MCLinuxWatch`** gives the cascades of directories.

### PAC

* **`PacSlots`**: `Slots::acquire` and its `notify_one`, the in-process evaluator
  that pops an idle thread or spawns one and walks away at the deadline, the
  thread that lists itself as idle, lingers and leaves, and the worker process
  with its conversation, its name lookups and its kill. The child of a fork
  inherits the counters and the list but none of the threads (`lost`, `Foreign`).
* **`WinHttp`**: one operation per resolution with its handle, its two strings,
  the reference the callback owns and the event; the discovery without a script
  and what lies beneath it in the registry. **`CfNetwork`**: threads that pump
  their own run loop, a source whose callback writes into a frame, a chain of
  scripts. **`OsPac`** composes them: the crate has one of the two.
* **`Routing`**: which engine answers (`route` of the bindings, `PacResolver`,
  the three `resolve_config`), as an operator from a question to what ran and how
  it ended.
* **`PacFunctions`**, **`PacLookups`**: what a script can ask and learn.
  `wildcard_match` is its loop, walked one turn per step, because its budget of
  turns is the point; the calendar is `civil_from_days` as it is written.

### What is decided

Pure functions are operators with the names of the source, beside an operator
that says what the inputs *ask for*, written from the meaning of the store and
not from the code (`GnomeAsks`, `KdeMeans`, `Grants`, `Fits`, ...).
**`Decisions`** chooses a topic and its inputs, lets the code's operator answer
in one step (or a step per turn) and compares.

* **`Modes`**: `ProxyMode`, the filing of rejected values, `resolve` of a mode.
* **`LinuxStores`**, **`WindowsStores`**, **`AppleStores`**, **`AndroidStores`**: what
  the keys of each store mean.
* **`KConfig`**: the cascade of kioslaverc with `$i`, `$d`, locked groups and files.
* **`Reads`**: which store is in effect, fail-soft, with the environment folded in.
* **`Bypass`**: the patterns, the order of the list, subtraction, repeats, entries
  that were lost. **`BypassEntries`**: what the text of an entry becomes in each
  dialect, and what its reader makes of the same text; the lists of GNOME and of
  macOS are walked entry by entry. **`BypassLists`**: the lists and the destinations
  that are asked about.

A text is abstracted to what decides: a key is blank, good or bad; an entry is
labels, marks and a port; a host is one of a few that the rules tell apart.

### Proofs

**`StreamProofs`** is about the stream and what reads it, **`BackendProofs`** and
**`LinuxProofs`** about the watchers, **`OsPacProofs`** and **`PacSlotsProofs`**
about the evaluation of scripts, **`FunctionProofs`** about the functions of
`PacFunctions`, `Bypass` and `BypassEntries`, **`StoreProofs`** and
**`DecisionProofs`** about `Decisions`.

### External

Modelled from its use: notify 8's event loop (a registration is handled by the
loop that runs the callback; removing a directory ends it),
`RegNotifyChangeKeyValue` (one signal per registration), the dynamic store's run
loop source, Android's broadcasts, iOS' hints, tokio's watch channel, WinHTTP's
operations (one callback each), CFNetwork's executions (signalled once), the GIL
and Node's queue of calls, the scripts themselves and the resolver of names.

## The runs

| run | instance | shows |
|---|---|---|
| `shared` | two configurations, one source, one error, a queue of 3 | every promise of the core, `QueueIsBounded` (with the types) and the refinement of `LevelStream`; a queue of 3 is the shortest that holds a snapshot in the middle, which is when a fold moves it, and overflows with failures |
| `first_item` | the same | **violated**: the first item may be a failure (see below) |
| `linux_watch` | two directories apart, GSettings, with and without a timer | `HealthIsTrue`: a loss that the coordinator was told of is reported, the last one in any case, and a dark watcher says so; `FollowsTheSettings` |
| `linux_progress` | one directory | `DropReturns`, `RoutesCatchUp` (under endless wakes as well, since the window does not begin anew), `PollingCatchesUp` |
| `linux_delivery` | two nested directories | **violated**: the blocking wake need not return (see below) |
| `backends` | Windows with three keys, macOS with two retries, Android and iOS; each with and without a timer | `WindowsTellsRoutes`, `WindowsReadsLast`, and of all of them `FollowsTheSettings`, `CatchesUp`, `DropReturns`, and `RequestsAreServed`, which is about the `poll_now` of macOS; with three keys one dies while one fires and one is deaf |
| `bridge` | a queue of 2, two receivers, no source | `ReceiversAreCurrent`, `ReceiversCatchUp`, `LastReceiverReleases` |
| `pump` | C, Python and Node; two threads that stop; a queue of 1 | `NothingAfterClose`, `DeliversTheStream`, `CloseReturns` |
| `stop_told` | one thread that stops | **violated**: a watch may end without saying that it stopped (see below) |
| `pac_slots` | two in-process calls and one worker, all with a deadline, two slots, three threads | `SlotsAreCounted`, `NoSleepBesideAFreeSlot`, `JobsFindAThread`, `EvaluationsReturn` |
| `pac_os` | two resolutions of WinHTTP; two threads of CFNetwork, lists of up to two entries | `CallbacksAreSafe`, `DirectIsEarned` |
| `decisions` | some 380,000 questions on 26 topics | the eight promises of the pure part, next to reference definitions |

Deadlock is checked but in `bridge`, `pump` and `stop_told`, where the whole
system stops: without a receiver, and after the last close.

Bounds. `MaxQueued` (1024 in the code) is 3, 2 or 1; nothing in the queue's code
depends on the number, and the proofs are for any. `MaxRetries` (5 in the code)
is 2. `DroppedCap`, `MaxReceivers` and `MaxPosted` are named in the modules.
Stores have no values, so nothing else grows. Two directories are needed for the
loss of one to differ from the loss of the last. The liveness runs use the
smaller instances because TLC keeps the behaviour graph. In `pump` there are no
errors, and a change, a panic and the stop fill the stream. In `pac_slots` the
third caller is the one who waits, and the third thread is one that is spawned
while a slot's former holder is still on its way out. `MaxEntries` is 2: one
script that fails and one that is reached after it, for two threads at once; the
theorem is for any. `MaxMatchSteps` (2^24 in the code) is 12, so that patterns
of four characters over texts of four do exhaust it; `MaxChain` (64) is 2. The
inputs of `decisions` are all combinations of what each topic tells apart, with
the sets named in the module: a list of two entries shows every order and repeat,
a cascade of three layers every pair around a missing one, and 400 years and a
day the whole Gregorian period.

Fairness. Weak fairness of each thread's steps: a runnable thread runs, which is
what the operating system's scheduler gives. A woken task is polled, as an
executor does. Time passes: in `LinuxWatch` the deadline of the debounce window
does (`DeadlinePasses`), and that the window closes although wakes keep arriving
follows from its being computed once; a window that began anew with every wake is
the mutant of `RoutesCatchUp`. `WakeTimeout` is weakly fair in `WinWatch`. The
poll timer keeps firing while it exists. `RegisterDirectory` is strongly fair: it
waits for notify's loop to come back to its queue of
requests, which it does between any two events. In `PacSlots` the code's own
threads run and deadlines pass, and neither a script, a worker nor a name lookup
need ever end. In `Pump` the threads run, `on_change` returns (strongly fair
where it needs the GIL, which is handed around among threads that hold it for a
time each), and a platform thread that was told to stop does; nobody need stop
the watch. `LinuxWatch`, `Backends` and `Bridge` assume nothing of the
environment, of the caller (who need not call anything) or of the operating
system's notifications beyond the routes the model calls live. Properties of
catching up assume that the settings are left alone from some time on, as any
statement about reaching the current value must.

## What the code does against its documentation

* `src/watch.rs:797`: a full queue discards from the front, and as long as the
  subscriber has taken nothing the front is the initial snapshot. When failures
  alternate with changes often enough before the first poll, the first item of
  the stream is a failure. `README.md:107` promises the current configuration.
  (The state the failure is stamped with is the current one, so nothing but the
  kind of the first item is wrong.)
* `src/sys/linux/watcher.rs:195`: `wake_delivered` blocks while the channel is
  full; "the wait is bounded by one coordinator pass" (line 189) takes a
  coordinator for granted. During construction there is none. In TLC's behaviour
  both directories are there, the first is registered, a write in it fills the
  channel, and both directories go before the second is registered: the callback
  waits for room in the channel, the constructor waits for the loop that runs the
  callback to register the second directory, and the coordinator that would make
  room is spawned only after that. Nobody calls `poll_now`, which has no watcher
  to be called on yet; the behaviour ends with both waiting for each other.
* `bindings/shared/src/lib.rs:595`: `start` polls once and discards the item, the
  snapshot the caller has already. When the platform thread has closed the stream
  before that, the item was stamped with the end and clears `dirty`; the pump
  hears `None` and ends, and nobody is told. Line 904 says that "a watch that
  stopped on its own says so once".

## The proofs

Each theorem holds for every value of the constants that satisfies the named
`ASSUME`s of its module. They share one argument: an invariant that says more than
the property and that every step preserves, with a lemma per part and a case per
action.

**`StreamProofs`**, of `Shared`, for every set of configurations, sources and
errors and every capacity: `WakeupsAreNotLost`, `NeverStale`,
`QueueKeepsItsPromises` (`Bounded` and `ChangeFollowsFailure`), `QueueStaysBounded`
(the bound with the types), `PanicLeavesNoRouteLive` and `NoneComesLast`, which
are the safety invariants of the run `shared`, and `ImplementsSafety`: initial
states and steps map to those of `LevelStream`. None of the invariants is inductive alone. `IInv` joins the type
invariant with `WakerInv` (a registered waker means nothing to say, and a task
that parks leaves one or is about to be woken), `OwedInv` (no snapshot queued or
owed means the newest delivery is the current state; before the constructor is
done its snapshot is still queued), `QueueInv` (the bound, and what follows a
failure), `ThreadInv` (where the guard is, and what it has already done) and
`EndedInv`. `Folded` and `Trimmed` have lemmas of their own: folding adds at most
one entry and ends in a snapshot, trimming keeps the newest entries. Assumed: the
initial configuration is one, the markers are none of the values they stand
beside, the capacity is positive.

**`StreamProofs`**, of the two readers, for any number of threads of the host and
of receivers. A step of the bindings is a step or a stutter of `Shared`, so its
type carries over. `ClosedIsQuiet`: nobody has the watch before `start` returned
(`StartInv`); the handle is there, or with the one thread that waits for it, or
the pump has ended (`HandleInv`); whoever got past the pump has seen it end
(`PastInv`); a close from `on_change` itself is seen before the pump delivers
again (`InsideInv`); Node's gate is shut before the close is told to anybody
(`GateInv`); the stop is delivered once and nothing after it (`SaidInv`), which is
`TheStopIsLast`. `ReceiversStayCurrent`: what the receivers hold is what the task
was given last, or a snapshot is queued. There the invariant is the type of
`Shared` with the property; the steps of the backend need only that `emit` leaves
a snapshot in the queue and that taking a failure off it leaves the snapshots.
Assumed: the markers are no threads, and `MaxPosted` is positive.

**`PacSlotsProofs`**: `NoJobIsLost`, `AFreeSlotWakes`, `EverySlotIsHeld`, for any
finite sets of callers and threads and any limit. `CallsInv`: who is notified is
parked, and who has an answer awaits it. `JobsInv`: a job belongs to one thread
and unless it was abandoned its caller awaits an answer it does not have.
`ListInv` and `TakenInv`: the idle list has no repeats, and a thread of this
process that is off it was taken off or has a job. `WakeInv`: as many callers as
there are free slots have been notified, or all that are parked. `CountInv`: the
counter is the size of the set of holders (a caller that hands over, a queued job,
a script, a conversation with a worker), so no slot is released twice or lost
across a timeout. `ThreadsInv`: there are never more threads than slots. It is
kept when a caller finds the list empty and spawns: every thread alive then
belongs to a slot other than the caller's. Assumed besides finiteness: distinct
markers and a positive limit.

**`OsPacProofs`**: `CallbacksStaySafe` and `DirectStaysEarned`, for any threads
and any length of a chain of scripts. `WinInv` says of each operation of WinHTTP
who owns its handle, its strings and its references, in which order they are let
go, and what the resolution knows of its answer; `AppleInv` says of each thread of
CFNetwork where its frame and its source are and why the entries before the one it
is at were passed over. `NativeInv` joins them: the part of the other platform
stays in its initial state. Assumed: `Nobody` is no thread and `MaxEntries` is a
number.

**`BackendProofs`**: `BackendsFollow` (Windows, macOS and mobile implement
`Follower`, for any keys and any number of retries), `SettledCopiesAreCurrent`,
which is proved of `Follower` (whatever implements it and owes no read holds the
current value of every store with a live route: `FollowInv` is its type with the
property) and carried over by the mapping, `LostRoutesAreTold` and
`TheLastReadComesFirst`. The invariant is one per platform. On Windows, `WinKeys`:
unless a fatal failure is pending, a key that is watched is armed, or its event is
set, or it is being re-armed; `WinReads`: what was written under a watched key
during a read is signalled; `WinHealth`: a key that is not watched has been told,
and the recorded liveness says whether one is. On macOS, `MacChased`: what the
copy lacks under a subscription is announced, or a read is on its way. On mobile,
`MobileChased`: what a read misses under a broadcast is announced to the slot, or
has become a wake. `Stutters`, `Writes`, `Attaches`, `Detaches`, `Asks`,
`Publishes` and `Fails` state the kinds of steps `Follower` knows in terms of the
mapping, and each action of a platform is shown to be of one kind. Assumed:
`settings` is none of the keys, `Nothing` is no key, the keys are distinct.

**`LinuxProofs`**: `LinuxFollows` (the Linux backend implements `Follower`, for
any cascade of directories), `LinuxCopyIsCurrent`, and `LinuxHealthIsTrue`, which
is the type, the losses that are told and the truth of "dark". `LinKernel`: an
armed directory exists, is on the callback's list and is watched by a loop that
was not told to end. `LinReads` and `LinChased`: what a read misses under a live
route, or the copy lacks, has an event, a wake or a read on its way. `LinCounts`:
the atomic count is the length of the callback's list. `LinKnown` and `LinLast`:
nobody knows of a loss that was not stored, and once the count is zero the last
loss is being stored, being delivered, in the channel or known. `LinReport` and
`LinConstruction`: what was known at the last read is in the health, or was when
the constructor recorded it. The relaxed reads enter through two facts: a read is
never below the count, and what is certain stays certain. Assumed: the `ASSUME`s
of `LinuxWatch` (the cascade has no repeats, `GSettings` and `Written` are no
directories, `Nothing` is no pair of flags).

**`FunctionProofs`**, of what a script calls, for any patterns and texts, any day
and any limit of a chain, and of bypass lists, for any list. A fold has no theorem
of its own to cite: its lemmas name the values it runs through (`RunExists`) and
climb them one by one (`Climbs`), by the least counterexample. `TurnIsTrue`: a
turn of `wildcard_match` keeps `Standing`, or ends with a true answer. The text
before `resume` is cut by the pattern up to the last star, the text from there on
has met the characters behind it, and a text that fits at all can be cut with that
star ending no earlier: so a star that is taken up again has lost nothing.
`GlobIsFit`: the quick matcher, which looks for one part after the other, finds
each at the first place that is left (`Reached`), so it says `Fits` of any pattern
without a question mark. `TheNextDayIsNext`: eras, centuries, spans of four years
and years that begin in March cut every number of days in one way (`Parted`), and
the day after is the next of the calendar in each of the cases; `ErasAreAlike` and
`WeekdaysFollow` stand beside it. `ChainsAreAsked`: by the steps kept before each
place, the chain is the first `MaxChain` steps that differ, in the order they were
named.

Of bypass lists: `RepeatsChangeNothing`, for a list of any length, in any dialect:
the matcher's verdict is that of its last subtraction or first fit, and the
repeats that are left out, which are those since the last subtraction, can be
neither. `DropsFailClosed`: a list without one of its entries, recorded as
dropped, sends nothing direct that the whole list would not.
`EntriesSendWhatTheyGrant`: an entry that becomes a rule sends around the proxy
what its own store grants by it, no more and no less, for entries of any number of
any labels, with any port, mark, edge or block, in each of the five dialects. The
proof takes the entry through `trim`, the tokens, the guards and the readings of a
name in their order, to an entry that grants the same and one of five forms of
rule: everything, an address, a name or a domain, a star, a block (`MadeOf`). Each
form is then compared with what the meaning says of it (`SentByAddress`,
`SentByName`, `SentByDomain`, `SentByStar`, `SentByNet`).
`GnomeListsSendWhatTheyGrant` and `MacListsSendWhatTheyGrant` say it of lists of
any length. The invariant of the walk: a rule that is kept comes from an entry
read so far, what such an entry grants is sent by a kept rule unless an entry was
recorded as lost, and the walk over GNOME's list takes names no longer once GLib
has stopped at one. Assumed of the inputs: a block is nothing but a block, an
entry outside GNOME's lists is not one of the tokens `<local>` and `<-loopback>`
(`Ordinary`), and a destination is an address, or a name in which no reader sees a
number (`MetHosts`); a list whose reader folds an IPv4 address mapped into IPv6 is
asked about the folded one. A star in an entry is the set of hosts it stands for
among the destinations, so entries with one are compared over those.

**`StoreProofs`**: `StoresStayObeyed`, for GSettings, kioslaverc, the portal, the
environment, the registry, the dictionaries of macOS and iOS and Android's
`ProxyInfo`. A question never changes and is answered in one step, so the
invariant is that it is one of its topic with the property; the work is one lemma
per store, which compares what the code makes of the keys with what they mean. The
slots are folded over in the code and are quantified over in the meaning: the
lemmas on folds say that one takes the last or the first of them, as it is
written.

**`DecisionProofs`** has the same invariant and, of each topic, what the answer
is. `EffectiveStaysMeasured`, `RoutesStayEarned`, `ScriptsKeepToTheirShare` and
`LayersStayMeant` state a property of the run each. `ListsStayClosed` follows from
`RepeatsChangeNothing` and `DropsFailClosed`, and `EntriesStayClosed` from the
three theorems on what is sent around, which say more than TLC can look at; what
is left is that the entries and lists of the questions are of the kinds the
theorems speak of, and that a rule of theirs that is no star reaches some
destination (`AloneReaches`). `ReadingIsMeant` says of any number of layers, each
with any number of lines, that reading them one by one gives the entry KConfig's
rules name when they are stated of all lines at once. `ScriptsStayTrue` carries
the matcher through its turns (`WalkIsTrue`) and takes the rest from
`FunctionProofs`. Assumed: the budget of the matcher is a number, and the limit of
the chain a positive one.

Out of the prover's reach and left to TLC: every liveness property (`ENABLED`,
fairness). `ImplementsSafety` is the safety half of `ImplementsLevelStream`, and
the theorem on `FollowsTheSettings` is whole, because `Follower` has no fairness.
Every property of a passing run that speaks of safety alone is a theorem.

## Not modelled

* Text: parsing an endpoint, an entry of a list, a `ProxyServer` value or a file
  of KConfig character by character (`endpoint.rs`, `util.rs`, `parse.rs`,
  the scanning part of `bypass.rs` and `kioslaverc.rs`). What the text *means* is
  modelled, its spelling is not. Punycode and percent decoding go with it.
* Wording: `error.rs`, `trace.rs`, `Display` and `Debug`, and `debug_masking.rs`,
  which is tests about how credentials are printed.
* `kde.rs` where it searches for the directories of the cascade (environment
  variables and defaults): the model takes the layers as they are found.
* The interpreter in `quickjs.rs`, its memory limit and its interrupt handler: a
  script is a step that ends in time or does not.
* Foreign calls and the conversion of foreign values: `gio_dl.rs`, `ffi.rs`, JNI,
  Core Foundation, and in the bindings what a configuration becomes in C,
  JavaScript and Python.
* In `Pump`: an operating system without a watcher, a pump thread that cannot be
  spawned, the box Node's teardown hook keeps, a Python that is finalizing.
* In `PacSlots`: a fork between a lock and its unlock, calls without a deadline.
  Deadlines are steps that may come at any time, not durations.
* Two properties of macOS' matching are left out of `EntriesFailClosed` because the
  code records them as divergences from the system: `<local>` and `name.*` on the
  bare host.
* GSettings' keys are read one by one and a writer may come between: the watcher
  reads again, a one-time read returns the mixture. The creation of a middle
  layer of the cascade raises no event. Both are hazards without a property.

About a third of the non-test code lines is translated. What remains is mostly
parsing, conversion and wording, which have no behaviour of the kind checked
here.

## What is left

A star as a pattern over labels instead of a set of sampled hosts, which would
take the samples out of the theorems on entries. Larger instances for the liveness
runs, which no theorem stands beside.
