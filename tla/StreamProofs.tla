---------------------------- MODULE StreamProofs ----------------------------
(***************************************************************************)
(* What a stream and its two readers promise.  Of Shared, for every set of *)
(* configurations, stores, failures and every capacity of the queue: its   *)
(* inductive invariant, and the properties Shared.cfg checks on a small    *)
(* instance.  Of the pump of the bindings, for any number of threads that  *)
(* close it and stop it at once, in each of the three hosts: when `close`  *)
(* has returned, on_change is not running and is not called again.  Of the *)
(* task of watch_channel, for any number of receivers: what they hold is   *)
(* current, or is on its way.  The steps of Shared keep what is proved of  *)
(* them first; those of the readers are added after.                       *)
(***************************************************************************)
EXTENDS Bridge, Pump, SequenceTheorems, WellFoundedInduction, TLAPS

-----------------------------------------------------------------------------
(* The inductive invariant, by concern.                                    *)

\* No route is live, whatever construction reported or will report.
Dark == runtimeNoLive \/ (Established /\ ~construction.live)

PanicQueued ==
    \E i \in DOMAIN queue : queue[i] # Snapshot /\ queue[i].error = Panicked

\* The waker is in place only while the stream has nothing to say, and a
\* parked task has a waker in place or on its way.
WakerInv ==
    /\ waker => queue = <<>> /\ ~dirty /\ ~closed
    /\ task = "parked" => waking \/ waker

\* A snapshot is owed until the newest one delivered is up to date; the first
\* one stays queued as long as the constructor has the watcher.
OwedInv ==
    /\ ~Established => SnapshotQueued
    /\ OwedOrCurrent

\* The bound of the queue, and what its entries are owed.
QueueInv == Bounded /\ ChangeFollowsFailure

\* How far the thread got, and what the guard did by then.
ThreadInv ==
    /\ closed <=> backend = "done"
    /\ backend = "running" => ~panicking
    /\ backend \in {"mark", "fail"} => panicking
    /\ panicking /\ backend # "mark" => Dark
    /\ panicking /\ backend \in {"close", "done"} => heardPanic \/ PanicQueued
    /\ heardPanic \/ PanicQueued => panicking /\ backend \in {"close", "done"}

EndedInv == ended => Established /\ closed /\ queue = <<>> /\ ~dirty

IInv == TypeOK /\ WakerInv /\ OwedInv /\ QueueInv /\ ThreadInv /\ EndedInv
-----------------------------------------------------------------------------
(* The queue operators.                                                    *)

\* A non-empty bounded set of naturals has a maximum, and Max finds it.
LEMMA MaxOfBounded ==
    ASSUME NEW n \in Nat, NEW S, S \subseteq 0..n, S # {}
    PROVE  Max(S) \in S /\ \A y \in S : y <= Max(S)
<1> DEFINE T == {n - x : x \in S}
<1>1. T \subseteq Nat /\ T # {}
  <2>1. \A x \in S : n - x \in Nat
    OBVIOUS
  <2> QED  BY <2>1
<1>2. PICK m \in T : \A y \in T : ~(<<y, m>> \in OpToRel(<, Nat))
  BY <1>1, NatLessThanWellFounded, WFMin, Zenon
<1>3. PICK x \in S : m = n - x
  OBVIOUS
<1>4. \A y \in S : x >= y
  <2> TAKE y \in S
  <2>1. n - y \in T
    OBVIOUS
  <2>2. ~(n - y < m)
    BY <2>1, <1>1, <1>2 DEF OpToRel
  <2> QED  BY <2>2, <1>3
<1>5. Max(S) \in S /\ \A y \in S : Max(S) >= y
  BY <1>3, <1>4 DEF Max
<1> QED  BY <1>5

\* The newest queued snapshot is the last one, if there is one.
LEMMA LastSnapshotFacts ==
    ASSUME NEW q \in Seq(Item)
    PROVE  /\ LastSnapshot(q) \in 0..Len(q)
           /\ LastSnapshot(q) > 0 => q[LastSnapshot(q)] = Snapshot
           /\ \A i \in 1..Len(q) : q[i] = Snapshot => i <= LastSnapshot(q)
<1> DEFINE S == {0} \union {i \in DOMAIN q : q[i] = Snapshot}
<1>1. Len(q) \in Nat /\ S \subseteq 0..Len(q) /\ S # {}
  OBVIOUS
<1>2. Max(S) \in S /\ \A y \in S : y <= Max(S)
  BY <1>1, MaxOfBounded
<1>3. LastSnapshot(q) = Max(S)
  BY DEF LastSnapshot
<1> HIDE DEF S
<1>4. /\ Max(S) \in 0..Len(q)
      /\ Max(S) > 0 => q[Max(S)] = Snapshot
      /\ \A i \in 1..Len(q) : q[i] = Snapshot => i <= Max(S)
  BY <1>1, <1>2 DEF S
<1> QED  BY <1>3, <1>4

\* Of two snapshots the earlier one is the front entry.
FrontThenBack(q) ==
    \A i, j \in 1..Len(q) : q[i] = Snapshot /\ q[j] = Snapshot /\ i < j => i = 1

\* What follows a fold: the queue ends with a snapshot, is one entry longer at
\* most, holds nothing that was not queued, and at most two snapshots.
LEMMA FoldedFacts ==
    ASSUME NEW q \in Seq(Item)
    PROVE  /\ Folded(q) \in Seq(Item)
           /\ Len(Folded(q)) \in 1..Len(q) + 1
           /\ Folded(q)[Len(Folded(q))] = Snapshot
           /\ \A i \in 1..Len(Folded(q)) :
                 Folded(q)[i] = Snapshot \/ \E j \in 1..Len(q) : Folded(q)[i] = q[j]
           /\ FrontThenBack(q) => FrontThenBack(Folded(q))
<1> DEFINE newest == LastSnapshot(q)
<1>1. /\ newest \in 0..Len(q)
      /\ newest > 0 => q[newest] = Snapshot
      /\ \A i \in 1..Len(q) : q[i] = Snapshot => i <= newest
  BY LastSnapshotFacts
<1>2. Snapshot \in Item /\ Len(q) \in Nat
  BY DEF Item
<1>3. CASE newest > 0 /\ newest = Len(q)
  BY <1>1, <1>2, <1>3 DEF Folded
<1>4. CASE newest > 1 /\ newest # Len(q)
  <2> DEFINE before == SubSeq(q, 1, newest - 1)
             after  == SubSeq(q, newest + 1, Len(q))
             rest   == before \o after
  <2>1. /\ before \in Seq(Item)
        /\ Len(before) = newest - 1
        /\ \A i \in 1..newest - 1 : before[i] = q[i]
    BY <1>1, <1>2, <1>4, SubSeqProperties
  <2>2. /\ after \in Seq(Item)
        /\ Len(after) = Len(q) - newest
        /\ \A i \in 1..Len(q) - newest : after[i] = q[newest + i]
    BY <1>1, <1>2, <1>4, SubSeqProperties
  <2> HIDE DEF before, after
  <2>3. /\ rest \in Seq(Item)
        /\ Len(rest) = Len(q) - 1
        /\ \A i \in 1..Len(q) - 1 : \E j \in 1..Len(q) : rest[i] = q[j]
        /\ FrontThenBack(q) => \A i \in 1..Len(q) - 1 : rest[i] = Snapshot => i = 1
    <3>1. /\ rest \in Seq(Item)
          /\ Len(rest) = Len(before) + Len(after)
          /\ \A i \in 1..Len(before) + Len(after) :
                rest[i] = IF i <= Len(before) THEN before[i] ELSE after[i - Len(before)]
      BY <2>1, <2>2, ConcatProperties
    <3> HIDE DEF rest
    <3>2. Len(rest) = Len(q) - 1
      BY <3>1, <2>1, <2>2, <1>1, <1>2
    <3>3. ASSUME NEW i \in 1..newest - 1
          PROVE  rest[i] = q[i]
      BY <3>1, <2>1, <2>2, <1>1, <1>2
    <3>4. ASSUME NEW i \in newest..Len(q) - 1
          PROVE  rest[i] = q[i + 1]
      <4>1. i \in 1..Len(before) + Len(after) /\ ~(i <= Len(before))
        BY <2>1, <2>2, <1>1, <1>2, <1>4
      <4>2. rest[i] = after[i - (newest - 1)]
        BY <4>1, <3>1, <2>1
      <4>3. i - (newest - 1) \in 1..Len(q) - newest
        BY <1>1, <1>2, <1>4
      <4>4. newest + (i - (newest - 1)) = i + 1
        BY <1>1, <1>2
      <4> QED  BY <4>2, <4>3, <4>4, <2>2
    <3>5. ASSUME NEW i \in 1..Len(q) - 1
          PROVE  \E j \in 1..Len(q) : rest[i] = q[j]
      <4>1. CASE i \in 1..newest - 1
        BY <4>1, <3>3, <1>1, <1>2
      <4>2. CASE i \in newest..Len(q) - 1
        <5>1. i + 1 \in 1..Len(q)
          BY <1>1, <1>2
        <5> QED  BY <4>2, <3>4, <5>1
      <4> QED  BY <4>1, <4>2, <1>1, <1>2
    <3>6. ASSUME FrontThenBack(q), NEW i \in 1..Len(q) - 1, rest[i] = Snapshot
          PROVE  i = 1
      <4>1. CASE i \in 1..newest - 1
        BY <4>1, <3>3, <3>6, <1>1, <1>2, <1>4 DEF FrontThenBack
      <4>2. CASE i \in newest..Len(q) - 1
        <5>1. i + 1 \in 1..Len(q) /\ ~(i + 1 <= newest)
          BY <4>2, <1>1, <1>2
        <5>2. q[i + 1] = Snapshot
          BY <4>2, <3>4, <3>6
        <5> QED  BY <5>1, <5>2, <1>1
      <4> QED  BY <4>1, <4>2, <1>1, <1>2
    <3> QED  BY <3>1, <3>2, <3>5, <3>6
  <2>4. Folded(q) = Append(rest, Snapshot)
    BY <1>4, <1>1 DEF Folded, RemoveAt, before, after
  <2> HIDE DEF rest
  <2>5. /\ Folded(q) \in Seq(Item)
        /\ Len(Folded(q)) = Len(q)
        /\ \A i \in 1..Len(q) - 1 : Folded(q)[i] = rest[i]
        /\ Folded(q)[Len(q)] = Snapshot
    BY <2>3, <2>4, <1>2, AppendProperties
  <2>6. FrontThenBack(q) => FrontThenBack(Folded(q))
    <3>1. ASSUME FrontThenBack(q), NEW i \in 1..Len(q), NEW j \in 1..Len(q),
                 Folded(q)[i] = Snapshot, i < j
          PROVE  i = 1
      <4>1. i \in 1..Len(q) - 1
        BY <3>1, <1>2
      <4>2. rest[i] = Snapshot
        BY <4>1, <3>1, <2>5
      <4> QED  BY <4>1, <4>2, <3>1, <2>3
    <3> QED  BY <3>1, <2>5 DEF FrontThenBack
  <2> QED  BY <2>3, <2>5, <2>6, <1>1, <1>2, <1>4
<1>5. CASE newest <= 1 /\ newest # Len(q)
  <2>1. Folded(q) = Append(q, Snapshot)
    BY <1>5, <1>1 DEF Folded
  <2>2. /\ Folded(q) \in Seq(Item)
        /\ Len(Folded(q)) = Len(q) + 1
        /\ \A i \in 1..Len(q) : Folded(q)[i] = q[i]
        /\ Folded(q)[Len(q) + 1] = Snapshot
    BY <2>1, <1>2, AppendProperties
  <2>3. FrontThenBack(q) => FrontThenBack(Folded(q))
    BY <2>2, <1>1, <1>2, <1>5 DEF FrontThenBack
  <2> QED  BY <2>2, <2>3, <1>2
<1>6. CASE newest = 0 /\ newest = Len(q)
  <2>1. Folded(q) = Append(q, Snapshot)
    BY <1>6, <1>1 DEF Folded
  <2>2. /\ Folded(q) \in Seq(Item)
        /\ Len(Folded(q)) = Len(q) + 1
        /\ \A i \in 1..Len(q) : Folded(q)[i] = q[i]
        /\ Folded(q)[Len(q) + 1] = Snapshot
    BY <2>1, <1>2, AppendProperties
  <2>3. FrontThenBack(q) => FrontThenBack(Folded(q))
    BY <2>2, <1>1, <1>2, <1>6 DEF FrontThenBack
  <2> QED  BY <2>2, <2>3, <1>2
<1> QED  BY <1>1, <1>2, <1>3, <1>4, <1>5, <1>6

\* A trim keeps the end of the queue, and brings it back to its capacity.
LEMMA TrimmedFacts ==
    ASSUME NEW q \in Seq(Item), q # <<>>
    PROVE  /\ Trimmed(q) \in Seq(Item)
           /\ Len(Trimmed(q)) \in 1..MaxQueued
           /\ Trimmed(q)[Len(Trimmed(q))] = q[Len(q)]
           /\ \A i \in 1..Len(Trimmed(q)) : \E j \in 1..Len(q) : Trimmed(q)[i] = q[j]
           /\ Excess(q) \in Nat
           /\ FrontThenBack(q) => FrontThenBack(Trimmed(q))
<1>1. Len(q) \in Nat \ {0} /\ MaxQueued \in Nat \ {0}
  BY CapacityAssumption
<1>2. Excess(q) \in 0..Len(q) - 1 /\ Len(q) - Excess(q) <= MaxQueued
  BY <1>1 DEF Excess
<1>3. /\ Trimmed(q) \in Seq(Item)
      /\ Len(Trimmed(q)) = Len(q) - Excess(q)
      /\ \A i \in 1..Len(q) - Excess(q) : Trimmed(q)[i] = q[Excess(q) + i]
  <2> DEFINE e == Excess(q)
  <2>1. e + 1 \in Int /\ Len(q) \in Int /\ \A i \in e + 1..Len(q) : q[i] \in Item
    BY <1>1, <1>2
  <2>2. Trimmed(q) = SubSeq(q, e + 1, Len(q))
    BY DEF Trimmed
  <2> HIDE DEF e
  <2>3. /\ SubSeq(q, e + 1, Len(q)) \in Seq(Item)
        /\ Len(SubSeq(q, e + 1, Len(q))) =
              IF e + 1 <= Len(q) THEN Len(q) - (e + 1) + 1 ELSE 0
        /\ \A i \in 1..Len(q) - (e + 1) + 1 :
              SubSeq(q, e + 1, Len(q))[i] = q[(e + 1) + i - 1]
    BY <2>1, SubSeqProperties
  <2> QED  BY <2>2, <2>3, <1>1, <1>2 DEF e
<1>4. FrontThenBack(q) => FrontThenBack(Trimmed(q))
  <2>1. ASSUME FrontThenBack(q), NEW i \in 1..Len(Trimmed(q)), NEW j \in 1..Len(Trimmed(q)),
               Trimmed(q)[i] = Snapshot, Trimmed(q)[j] = Snapshot, i < j
        PROVE  i = 1
    <3>1. /\ Excess(q) + i \in 1..Len(q) /\ q[Excess(q) + i] = Snapshot
          /\ Excess(q) + j \in 1..Len(q) /\ q[Excess(q) + j] = Snapshot
      BY <1>1, <1>2, <1>3, <2>1
    <3>2. Excess(q) + i = 1
      BY <3>1, <2>1, <1>1, <1>2, <1>3 DEF FrontThenBack
    <3> QED  BY <3>2, <1>1, <1>2, <1>3
  <2> QED  BY <2>1 DEF FrontThenBack
<1> QED
  <2>1. Trimmed(q)[Len(Trimmed(q))] = q[Len(q)]
    BY <1>1, <1>2, <1>3
  <2>2. \A i \in 1..Len(Trimmed(q)) : \E j \in 1..Len(q) : Trimmed(q)[i] = q[j]
    BY <1>1, <1>2, <1>3
  <2> QED  BY <2>1, <2>2, <1>1, <1>2, <1>3, <1>4
-----------------------------------------------------------------------------
(* Type correctness.                                                       *)

\* A stamp is a state of the watch.
LEMMA StampType == QueueTypeOK /\ StateTypeOK => Stamp \in WatchState
BY DEF QueueTypeOK, StateTypeOK, Stamp, MergedHealth, WatchState, Health,
       BackendHealth, Established

\* What `fail` leaves in the queue: the failure last, everything else in place.
LEMMA FailingFacts ==
    ASSUME QueueTypeOK, NEW error \in Failures, Failing(error),
           NEW item, item = [error |-> error, since |-> current]
    PROVE  /\ item # Snapshot
           /\ queue' \in Seq(Item)
           /\ Len(queue') >= 1 /\ Len(queue') \in {Len(queue), Len(queue) + 1}
           /\ queue'[Len(queue')] = item
           /\ \A i \in 1..Len(queue') : i # Len(queue') => queue'[i] = queue[i]
           /\ \A i \in 1..Len(queue) : queue[i] = Snapshot => queue'[i] = Snapshot
<1>1. item \in QueuedError /\ item \in Item /\ item # Snapshot
  BY ItemAssumption DEF QueueTypeOK, QueuedError, Item
<1>2. queue \in Seq(Item) /\ Len(queue) \in Nat
  BY DEF QueueTypeOK
<1>3. CASE LastIsFailure
  <2>1. /\ queue' = [queue EXCEPT ![Len(queue)] = item]
        /\ Len(queue) \in 1..Len(queue) /\ queue[Len(queue)] # Snapshot
    BY <1>2, <1>3 DEF Failing, LastIsFailure, Last
  <2>2. /\ queue' \in Seq(Item)
        /\ Len(queue') = Len(queue)
        /\ \A j \in 1..Len(queue) : queue'[j] = IF j = Len(queue) THEN item ELSE queue[j]
    BY <1>1, <1>2, <2>1, ExceptSeq
  <2>3. \A i \in 1..Len(queue) : queue[i] = Snapshot => queue'[i] = Snapshot
    BY <2>1, <2>2
  <2>4. queue'[Len(queue')] = item /\ Len(queue') >= 1
    BY <1>2, <2>1, <2>2
  <2>5. \A i \in 1..Len(queue') : i # Len(queue') => queue'[i] = queue[i]
    BY <2>2
  <2> QED  BY <1>1, <2>2, <2>3, <2>4, <2>5
<1>4. CASE ~LastIsFailure
  <2>1. queue' = Append(queue, item)
    BY <1>4 DEF Failing
  <2>2. /\ queue' \in Seq(Item)
        /\ Len(queue') = Len(queue) + 1
        /\ \A i \in 1..Len(queue) : queue'[i] = queue[i]
        /\ queue'[Len(queue) + 1] = item
    BY <1>1, <1>2, <2>1, AppendProperties
  <2> QED  BY <1>1, <1>2, <2>2
<1> QED  BY <1>3, <1>4

\* The types hold at the start.
LEMMA TypeInit == Init => TypeOK
<1> SUFFICES ASSUME Init PROVE TypeOK
  OBVIOUS
<1>1. <<Snapshot>> \in Seq(Item) /\ 0 \in 0..DroppedCap
  BY CapacityAssumption DEF Item
<1>2. QueueTypeOK
  BY <1>1, ConfigAssumption DEF Init, QueueTypeOK
<1>3. StateTypeOK /\ HeardTypeOK
  BY DEF Init, StateTypeOK, HeardTypeOK
<1> QED  BY <1>2, <1>3 DEF TypeOK

\* The queue: only Emit, the two failures and PollQueued touch it.
LEMMA QueueTypeStep == TypeOK /\ [Next]_vars => QueueTypeOK'
<1> SUFFICES ASSUME TypeOK, [Next]_vars PROVE QueueTypeOK'
  OBVIOUS
<1>t. QueueTypeOK
  BY DEF TypeOK
<1>1. CASE UNCHANGED <<current, queueVars>>
  BY <1>t, <1>1 DEF QueueTypeOK, queueVars
<1>2. ASSUME NEW config \in Configs, Emit(config)
      PROVE  QueueTypeOK'
  <2>1. Folded(queue) \in Seq(Item) /\ Folded(queue) # <<>>
    BY <1>t, FoldedFacts DEF QueueTypeOK
  <2>2. queue' \in Seq(Item) /\ Excess(Folded(queue)) \in Nat
    BY <1>2, <2>1, TrimmedFacts DEF Emit
  <2>3. dropped' \in 0..DroppedCap
    BY <1>t, <1>2, <2>2, CapacityAssumption DEF Emit, Saturated, QueueTypeOK
  <2> QED  BY <1>2, <2>2, <2>3 DEF QueueTypeOK, Emit
<1>3. ASSUME NEW error \in Failures, Failing(error)
      PROVE  QueueTypeOK'
  <2>1. queue' \in Seq(Item)
    BY <1>t, <1>3, FailingFacts
  <2> QED  BY <1>t, <1>3, <2>1 DEF QueueTypeOK, Failing
<1>4. CASE PollQueued
  <2>1. queue' \in Seq(Item)
    BY <1>t, <1>4, HeadTailProperties DEF PollQueued, QueueTypeOK
  <2> QED  BY <1>t, <1>4, <2>1, CapacityAssumption DEF PollQueued, QueueTypeOK
<1>5. ASSUME NEW health \in BackendHealth, SetConstructionHealth(health)
      PROVE  QueueTypeOK'
  BY <1>1, <1>5 DEF SetConstructionHealth
<1>6. ASSUME NEW source \in Sources, Degrade(source)
      PROVE  QueueTypeOK'
  BY <1>1, <1>6 DEF Degrade
<1>7. CASE MarkNoLiveNotifications \/ GuardMarks \/ Close
  BY <1>1, <1>7 DEF MarkNoLiveNotifications, GuardMarks, MarkingNoLive, Close
<1>8. CASE Return \/ Panic \/ Wake
  BY <1>1, <1>8 DEF Return, Panic, Wake
<1>9. CASE PollDirty \/ PollEnd \/ PollPending
  BY <1>1, <1>9 DEF PollDirty, PollEnd, PollPending
<1>10. ASSUME NEW error \in Errors, Fail(error)
       PROVE  QueueTypeOK'
  BY <1>3, <1>10 DEF Fail, Failures
<1>11. CASE GuardFails
  BY <1>3, <1>11 DEF GuardFails, Failures
<1>12. CASE UNCHANGED vars
  BY <1>1, <1>12 DEF vars
<1> QED
  BY <1>2, <1>4, <1>5, <1>6, <1>7, <1>8, <1>9, <1>10, <1>11, <1>12
     DEF Next, Publish, Unwind, PollNext

\* The flags, the two threads and the task.
LEMMA StateTypeStep == TypeOK /\ [Next]_vars => StateTypeOK'
<1> SUFFICES ASSUME StateTypeOK, [Next]_vars PROVE StateTypeOK'
  BY DEF TypeOK
<1> USE DEF StateTypeOK, healthVars, threadVars, wakeVars
<1>1. ASSUME NEW health \in BackendHealth, SetConstructionHealth(health)
      PROVE  StateTypeOK'
  BY <1>1 DEF SetConstructionHealth
<1>2. ASSUME NEW config \in Configs, Emit(config)
      PROVE  StateTypeOK'
  BY <1>2 DEF Emit, TakeWaker
<1>3. ASSUME NEW error \in Errors, Fail(error)
      PROVE  StateTypeOK'
  BY <1>3 DEF Fail, Failing, TakeWaker, KeepWaker
<1>4. ASSUME NEW source \in Sources, Degrade(source)
      PROVE  StateTypeOK'
  BY <1>4 DEF Degrade, OweSnapshot, TakeWaker
<1>5. CASE MarkNoLiveNotifications
  BY <1>5 DEF MarkNoLiveNotifications, MarkingNoLive, OweSnapshot, TakeWaker
<1>6. CASE Return
  BY <1>6 DEF Return
<1>7. CASE Panic
  BY <1>7 DEF Panic
<1>8. CASE GuardMarks
  BY <1>8 DEF GuardMarks, MarkingNoLive, OweSnapshot, TakeWaker
<1>9. CASE GuardFails
  BY <1>9 DEF GuardFails, Failing, TakeWaker, KeepWaker
<1>10. CASE Close
  BY <1>10 DEF Close, OweSnapshot, TakeWaker
<1>11. CASE Wake
  BY <1>11 DEF Wake
<1>12. CASE PollQueued
  BY <1>12 DEF PollQueued, DeliverSnapshot, DeliverError
<1>13. CASE PollDirty
  BY <1>13 DEF PollDirty, DeliverSnapshot
<1>14. CASE PollEnd
  BY <1>14 DEF PollEnd
<1>15. CASE PollPending
  BY <1>15 DEF PollPending
<1>16. CASE UNCHANGED vars
  BY <1>16 DEF vars
<1> QED
  BY <1>1, <1>2, <1>3, <1>4, <1>5, <1>6, <1>7, <1>8, <1>9, <1>10, <1>11, <1>12,
     <1>13, <1>14, <1>15, <1>16 DEF Next, Publish, Unwind, PollNext

\* What was delivered: only a poll adds to it.
LEMMA HeardTypeStep == TypeOK /\ [Next]_vars => HeardTypeOK'
<1> SUFFICES ASSUME TypeOK, [Next]_vars PROVE HeardTypeOK'
  OBVIOUS
<1>t. HeardTypeOK /\ Stamp \in WatchState
  BY StampType DEF TypeOK
<1>1. CASE UNCHANGED heardVars
  BY <1>t, <1>1 DEF HeardTypeOK, heardVars
<1>2. CASE DeliverSnapshot
  BY <1>t, <1>2 DEF HeardTypeOK, DeliverSnapshot, Delivered
<1>3. CASE DeliverError(Head(queue))
  BY <1>t, <1>3 DEF HeardTypeOK, DeliverError, Delivered
<1>4. CASE PollEnd
  BY <1>t, <1>4 DEF HeardTypeOK, PollEnd
<1>5. CASE PollQueued \/ PollDirty
  BY <1>2, <1>3, <1>5 DEF PollQueued, PollDirty
<1>6. ASSUME NEW health \in BackendHealth, SetConstructionHealth(health)
      PROVE  HeardTypeOK'
  BY <1>1, <1>6 DEF SetConstructionHealth
<1>7. CASE Publish
  BY <1>1, <1>7 DEF Publish, Emit, Fail, Failing, Degrade, MarkNoLiveNotifications,
                    MarkingNoLive
<1>8. CASE Return \/ Panic \/ Unwind
  BY <1>1, <1>8 DEF Return, Panic, Unwind, GuardMarks, GuardFails, MarkingNoLive,
                    Failing, Close
<1>9. CASE Wake \/ PollPending \/ UNCHANGED vars
  BY <1>1, <1>9 DEF Wake, PollPending, vars
<1> QED
  BY <1>4, <1>5, <1>6, <1>7, <1>8, <1>9 DEF Next, PollNext

\* No step leaves the types.
LEMMA TypeStep == TypeOK /\ [Next]_vars => TypeOK'
BY QueueTypeStep, StateTypeStep, HeardTypeStep DEF TypeOK

\* Every field of the shared state keeps its type, at any capacity.
THEOREM TypeCorrect == Spec => []TypeOK
BY TypeInit, TypeStep, PTL DEF Spec

-----------------------------------------------------------------------------
(* The waker.                                                              *)

\* Taking the waker turns one that is in place into a wake on its way.
LEMMA TakenWaker ==
    ASSUME StateTypeOK, WakerInv, ~waking, TakeWaker, task' = task
    PROVE  WakerInv'
BY DEF StateTypeOK, WakerInv, TakeWaker

\* Every step keeps the waker.
LEMMA WakerStep == TypeOK /\ WakerInv /\ [Next]_vars => WakerInv'
<1> SUFFICES ASSUME TypeOK, WakerInv, [Next]_vars PROVE WakerInv'
  OBVIOUS
<1>t. StateTypeOK
  BY DEF TypeOK
<1>1. CASE UNCHANGED <<queueVars, wakeVars, dirty, closed, task>>
  BY <1>1 DEF WakerInv, queueVars, wakeVars
<1>2. ASSUME NEW error \in Failures, Failing(error), ~waking
      PROVE  WakerInv'
  <2>1. CASE LastIsFailure
    BY <1>2, <2>1 DEF Failing, LastIsFailure, KeepWaker, wakeVars, WakerInv
  <2>2. CASE ~LastIsFailure
    BY <1>t, <1>2, <2>2, TakenWaker DEF Failing
  <2> QED  BY <2>1, <2>2
<1>3. ASSUME NEW health \in BackendHealth, SetConstructionHealth(health)
      PROVE  WakerInv'
  BY <1>1, <1>3 DEF SetConstructionHealth
<1>4. ASSUME NEW config \in Configs, Emit(config)
      PROVE  WakerInv'
  BY <1>t, <1>4, TakenWaker DEF Emit, BackendAt
<1>5. ASSUME NEW error \in Errors, Fail(error)
      PROVE  WakerInv'
  BY <1>2, <1>5 DEF Fail, BackendAt, Failures
<1>6. ASSUME NEW source \in Sources, Degrade(source)
      PROVE  WakerInv'
  BY <1>t, <1>6, TakenWaker DEF Degrade, OweSnapshot, BackendAt
<1>7. CASE (MarkNoLiveNotifications \/ GuardMarks) /\ AlreadyDark
  BY <1>1, <1>7 DEF MarkNoLiveNotifications, GuardMarks, MarkingNoLive
<1>8. CASE (MarkNoLiveNotifications \/ GuardMarks) /\ ~AlreadyDark
  BY <1>t, <1>8, TakenWaker DEF MarkNoLiveNotifications, GuardMarks, MarkingNoLive,
                                OweSnapshot, BackendAt
<1>9. CASE GuardFails
  BY <1>2, <1>9 DEF GuardFails, BackendAt, Failures
<1>10. CASE Close
  BY <1>t, <1>10, TakenWaker DEF Close, OweSnapshot, BackendAt
<1>11. CASE Return \/ Panic
  BY <1>1, <1>11 DEF Return, Panic
<1>12. CASE Wake
  BY <1>12 DEF Wake, WakerInv, queueVars
<1>13. CASE PollQueued \/ PollDirty \/ PollEnd
  <2>1. task' = "ready" /\ UNCHANGED wakeVars /\ ~waker
    BY <1>13 DEF PollQueued, PollDirty, PollEnd, WakerInv
  <2> QED  BY <2>1 DEF WakerInv, wakeVars
<1>14. CASE PollPending
  BY <1>14 DEF PollPending, WakerInv, queueVars
<1>15. CASE UNCHANGED vars
  BY <1>1, <1>15 DEF vars
<1> QED
  BY <1>3, <1>4, <1>5, <1>6, <1>7, <1>8, <1>9, <1>10, <1>11, <1>12, <1>13, <1>14,
     <1>15 DEF Next, Publish, Unwind, PollNext

-----------------------------------------------------------------------------
(* What the subscriber is owed.                                            *)

\* A step that moves nothing a stamp is made of leaves it alone.
LEMMA SameStamp ==
    ASSUME UNCHANGED <<current, healthVars, construction, closed>>
    PROVE  Stamp' = Stamp /\ Established' = Established
BY DEF Stamp, MergedHealth, Established, healthVars

\* A failure adds to the queue and moves nothing the stamp is made of.
LEMMA FailingOwes ==
    ASSUME QueueTypeOK, OwedInv, NEW error \in Failures, Failing(error)
    PROVE  OwedInv'
<1>1. Stamp' = Stamp /\ Established' = Established
  BY SameStamp DEF Failing
<1>2. SnapshotQueued => SnapshotQueued'
  <2>1. /\ queue \in Seq(Item) /\ queue' \in Seq(Item)
        /\ Len(queue') \in {Len(queue), Len(queue) + 1}
        /\ \A i \in 1..Len(queue) : queue[i] = Snapshot => queue'[i] = Snapshot
    BY FailingFacts DEF QueueTypeOK
  <2> QED  BY <2>1 DEF SnapshotQueued
<1>3. UNCHANGED <<dirty, seen, told>>
  BY DEF Failing, heardVars
<1> QED  BY <1>1, <1>2, <1>3 DEF OwedInv, OwedOrCurrent

\* Every step keeps what is owed to the caller.
LEMMA OwedStep == TypeOK /\ OwedInv /\ [Next]_vars => OwedInv'
<1> SUFFICES ASSUME TypeOK, OwedInv, [Next]_vars PROVE OwedInv'
  OBVIOUS
<1>t. QueueTypeOK /\ queue \in Seq(Item)
  BY DEF TypeOK, QueueTypeOK
<1>1. CASE UNCHANGED <<current, queueVars, healthVars, construction, closed, dirty, heardVars>>
  <2>1. Stamp' = Stamp /\ Established' = Established
    BY <1>1, SameStamp
  <2> QED  BY <1>1, <2>1 DEF OwedInv, OwedOrCurrent, SnapshotQueued, queueVars, heardVars
<1>2. CASE OweSnapshot /\ UNCHANGED <<queueVars, construction>>
  BY <1>2 DEF OwedInv, OwedOrCurrent, SnapshotQueued, queueVars, OweSnapshot, Established
<1>3. ASSUME NEW health \in BackendHealth, SetConstructionHealth(health)
      PROVE  OwedInv'
  BY <1>3 DEF SetConstructionHealth, OwedInv, OwedOrCurrent, SnapshotQueued, queueVars
<1>4. ASSUME NEW config \in Configs, Emit(config)
      PROVE  OwedInv'
  <2>1. /\ Folded(queue) \in Seq(Item) /\ Folded(queue) # <<>>
        /\ Folded(queue)[Len(Folded(queue))] = Snapshot
    BY <1>t, FoldedFacts
  <2>2. /\ queue' \in Seq(Item)
        /\ Len(queue') \in 1..MaxQueued
        /\ queue'[Len(queue')] = Snapshot
    BY <1>4, <2>1, TrimmedFacts DEF Emit
  <2>3. SnapshotQueued'
    BY <2>2 DEF SnapshotQueued
  <2> QED  BY <2>3 DEF OwedInv, OwedOrCurrent
<1>5. ASSUME NEW error \in Errors, Fail(error)
      PROVE  OwedInv'
  BY <1>t, <1>5, FailingOwes DEF Fail, Failures
<1>6. ASSUME NEW source \in Sources, Degrade(source)
      PROVE  OwedInv'
  BY <1>2, <1>6 DEF Degrade
<1>7. CASE (MarkNoLiveNotifications \/ GuardMarks) /\ AlreadyDark
  BY <1>1, <1>7 DEF MarkNoLiveNotifications, GuardMarks, MarkingNoLive, healthVars
<1>8. CASE (MarkNoLiveNotifications \/ GuardMarks) /\ ~AlreadyDark
  BY <1>2, <1>8 DEF MarkNoLiveNotifications, GuardMarks, MarkingNoLive
<1>9. CASE GuardFails
  BY <1>t, <1>9, FailingOwes DEF GuardFails, Failures
<1>10. CASE Close
  BY <1>2, <1>10 DEF Close
<1>11. CASE Return \/ Panic \/ Wake
  BY <1>1, <1>11 DEF Return, Panic, Wake
<1>12. CASE PollQueued
  <2>1. Stamp' = Stamp /\ Established' = Established /\ Established
    BY <1>12, SameStamp DEF PollQueued
  <2>2. CASE Head(queue) = Snapshot
    BY <1>12, <2>1, <2>2 DEF PollQueued, DeliverSnapshot, Delivered, OwedInv, OwedOrCurrent
  <2>3. CASE Head(queue) # Snapshot
    <3>1. SnapshotQueued => SnapshotQueued'
      <4>1. /\ queue' \in Seq(Item) /\ Len(queue') = Len(queue) - 1
            /\ \A i \in 1..Len(queue') : queue'[i] = queue[i + 1]
            /\ Head(queue) = queue[1]
        BY <1>t, <1>12, HeadTailProperties DEF PollQueued
      <4>2. ASSUME NEW i \in 1..Len(queue), queue[i] = Snapshot
            PROVE  \E j \in 1..Len(queue') : queue'[j] = Snapshot
        <5>1. i # 1
          BY <2>3, <4>1, <4>2
        <5>2. i - 1 \in 1..Len(queue') /\ (i - 1) + 1 = i
          BY <1>t, <4>1, <5>1
        <5> QED  BY <4>1, <4>2, <5>2
      <4> QED  BY <1>t, <4>1, <4>2 DEF SnapshotQueued
    <3>2. told' = Stamp /\ UNCHANGED <<seen, dirty>>
      BY <1>12, <2>3 DEF PollQueued, DeliverError, Delivered
    <3> QED  BY <2>1, <3>1, <3>2 DEF OwedInv, OwedOrCurrent
  <2> QED  BY <2>2, <2>3
<1>13. CASE PollDirty
  <2>1. Stamp' = Stamp /\ Established' = Established /\ Established
    BY <1>13, SameStamp DEF PollDirty
  <2> QED  BY <1>13, <2>1 DEF PollDirty, DeliverSnapshot, Delivered, OwedInv, OwedOrCurrent
<1>14. CASE PollEnd \/ PollPending
  <2>1. Stamp' = Stamp /\ Established' = Established
    BY <1>14, SameStamp DEF PollEnd, PollPending
  <2>2. UNCHANGED <<queue, dirty, seen, told>>
    BY <1>14 DEF PollEnd, PollPending, queueVars, heardVars
  <2> QED  BY <2>1, <2>2 DEF OwedInv, OwedOrCurrent, SnapshotQueued
<1>15. CASE UNCHANGED vars
  BY <1>1, <1>15 DEF vars
<1> QED
  BY <1>3, <1>4, <1>5, <1>6, <1>7, <1>8, <1>9, <1>10, <1>11, <1>12, <1>13, <1>14,
     <1>15 DEF Next, Publish, Unwind, PollNext

-----------------------------------------------------------------------------
(* The queue.                                                              *)

\* A failure behind everything queued keeps every promise made before it.
LEMMA FailingKeepsQueue ==
    ASSUME QueueTypeOK, QueueInv, NEW error \in Failures, Failing(error)
    PROVE  QueueInv'
<1> DEFINE item == [error |-> error, since |-> current]
<1>1. /\ queue \in Seq(Item) /\ Len(queue) \in Nat
      /\ dropped' = dropped /\ current' = current /\ item.since = current
  BY DEF QueueTypeOK, Failing
<1>2. /\ item # Snapshot
      /\ queue' \in Seq(Item)
      /\ Len(queue') >= 1 /\ Len(queue') \in {Len(queue), Len(queue) + 1}
      /\ queue'[Len(queue')] = item
      /\ \A i \in 1..Len(queue') : i # Len(queue') => queue'[i] = queue[i]
      /\ \A i \in 1..Len(queue) : queue[i] = Snapshot => queue'[i] = Snapshot
  BY FailingFacts
<1> HIDE DEF item
<1>3. Len(queue') = Len(queue) + 1 => ~LastIsFailure
  <2>1. CASE LastIsFailure
    <3>1. Len(queue) \in 1..Len(queue) /\ queue' = [queue EXCEPT ![Len(queue)] = item]
      BY <1>1, <2>1 DEF Failing, LastIsFailure, item
    <3>2. item \in Item
      BY DEF QueueTypeOK, item, Item, QueuedError
    <3> QED  BY <1>1, <3>1, <3>2, ExceptSeq
  <2> QED  BY <2>1
<1>4. LastIsFailure'
  BY <1>2 DEF LastIsFailure, Last
<1>5. Len(queue') <= MaxQueued + 1
  <2>1. Len(queue) <= MaxQueued + 1 /\ (Len(queue) = MaxQueued + 1 => LastIsFailure)
    BY DEF QueueInv, Bounded
  <2> QED  BY <1>1, <1>2, <1>3, <2>1, CapacityAssumption
<1>6. ASSUME NEW i \in 1..Len(queue'), NEW j \in 1..Len(queue'),
             queue'[i] = Snapshot, queue'[j] = Snapshot, i < j
      PROVE  i = 1
  <2>1. i # Len(queue') /\ j # Len(queue') /\ i \in 1..Len(queue) /\ j \in 1..Len(queue)
    BY <1>1, <1>2, <1>6
  <2>2. queue[i] = Snapshot /\ queue[j] = Snapshot
    BY <1>2, <1>6, <2>1
  <2> QED  BY <1>1, <1>6, <2>1, <2>2 DEF QueueInv, Bounded
<1>7. ASSUME NEW i \in 1..Len(queue'), queue'[i] # Snapshot, queue'[i].since # current
      PROVE  \E j \in i + 1..Len(queue') : queue'[j] = Snapshot
  <2>1. i # Len(queue') /\ queue'[i] = queue[i] /\ i \in 1..Len(queue)
    BY <1>1, <1>2, <1>7
  <2>2. PICK j \in i + 1..Len(queue) : queue[j] = Snapshot
    BY <1>1, <1>7, <2>1 DEF QueueInv, ChangeFollowsFailure
  <2>3. j \in 1..Len(queue) /\ j \in i + 1..Len(queue')
    BY <1>1, <1>2, <2>1
  <2> QED  BY <1>2, <2>2, <2>3
<1>8. Bounded'
  <2>1. dropped' > 0 => queue' # <<>>
    BY <1>2
  <2> QED  BY <1>2, <1>4, <1>5, <1>6, <2>1 DEF Bounded
<1>9. ChangeFollowsFailure'
  BY <1>1, <1>2, <1>7 DEF ChangeFollowsFailure
<1> QED  BY <1>8, <1>9 DEF QueueInv

\* Every step keeps the order of the queue.
LEMMA QueueStep == TypeOK /\ QueueInv /\ [Next]_vars => QueueInv'
<1> SUFFICES ASSUME TypeOK, QueueInv, [Next]_vars PROVE QueueInv'
  OBVIOUS
<1>t. QueueTypeOK /\ queue \in Seq(Item) /\ Len(queue) \in Nat
  BY DEF TypeOK, QueueTypeOK
<1>1. CASE UNCHANGED <<current, queueVars>>
  BY <1>1 DEF QueueInv, Bounded, ChangeFollowsFailure, LastIsFailure, queueVars
<1>2. ASSUME NEW config \in Configs, Emit(config)
      PROVE  QueueInv'
  <2>1. /\ Folded(queue) \in Seq(Item) /\ Folded(queue) # <<>>
        /\ Folded(queue)[Len(Folded(queue))] = Snapshot
        /\ FrontThenBack(Folded(queue))
    BY <1>t, FoldedFacts DEF QueueInv, Bounded, FrontThenBack
  <2>2. /\ queue' \in Seq(Item)
        /\ Len(queue') \in 1..MaxQueued
        /\ queue'[Len(queue')] = Snapshot
        /\ FrontThenBack(queue')
    BY <1>2, <2>1, TrimmedFacts DEF Emit
  <2>3. Bounded'
    BY <2>2, CapacityAssumption DEF Bounded, FrontThenBack
  <2>4. ASSUME NEW i \in 1..Len(queue'), queue'[i] # Snapshot
        PROVE  \E j \in i + 1..Len(queue') : queue'[j] = Snapshot
    <3>1. Len(queue') \in i + 1..Len(queue')
      BY <2>2, <2>4
    <3> QED  BY <2>2, <3>1
  <2> QED  BY <2>2, <2>3, <2>4 DEF QueueInv, ChangeFollowsFailure
<1>3. CASE PollQueued
  <2>1. /\ queue' \in Seq(Item) /\ Len(queue') = Len(queue) - 1
        /\ \A i \in 1..Len(queue') : queue'[i] = queue[i + 1]
        /\ current' = current
    BY <1>t, <1>3, HeadTailProperties DEF PollQueued
  <2>2. Len(queue') <= MaxQueued
    BY <1>t, <2>1, CapacityAssumption DEF QueueInv, Bounded
  <2>3. ASSUME NEW i \in 1..Len(queue'), NEW j \in 1..Len(queue'),
               queue'[i] = Snapshot, queue'[j] = Snapshot, i < j
        PROVE  i = 1
    <3>1. /\ i + 1 \in 1..Len(queue) /\ queue[i + 1] = Snapshot
          /\ j + 1 \in 1..Len(queue) /\ queue[j + 1] = Snapshot
      BY <1>t, <2>1, <2>3
    <3>2. i + 1 = 1
      BY <1>t, <2>3, <3>1 DEF QueueInv, Bounded
    <3> QED  BY <3>2
  <2>4. dropped' > 0 => queue' # <<>>
    <3>1. dropped' > 0 => Len(queue) # 1
      BY <1>3 DEF PollQueued
    <3>2. queue' = <<>> => Len(queue') = 0
      OBVIOUS
    <3> QED  BY <1>t, <2>1, <3>1, <3>2
  <2>5. Bounded'
    BY <2>1, <2>2, <2>3, <2>4, CapacityAssumption DEF Bounded
  <2>6. ASSUME NEW i \in 1..Len(queue'), queue'[i] # Snapshot, queue'[i].since # current
        PROVE  \E j \in i + 1..Len(queue') : queue'[j] = Snapshot
    <3>1. i + 1 \in 1..Len(queue) /\ queue[i + 1] = queue'[i]
      BY <1>t, <2>1
    <3>2. PICK j \in (i + 1) + 1..Len(queue) : queue[j] = Snapshot
      BY <1>t, <2>6, <3>1 DEF QueueInv, ChangeFollowsFailure
    <3>3. j - 1 \in i + 1..Len(queue') /\ j - 1 \in 1..Len(queue') /\ (j - 1) + 1 = j
      BY <1>t, <2>1, <3>1
    <3> QED  BY <2>1, <3>2, <3>3
  <2> QED  BY <2>1, <2>5, <2>6 DEF QueueInv, ChangeFollowsFailure
<1>4. ASSUME NEW error \in Errors, Fail(error)
      PROVE  QueueInv'
  BY <1>t, <1>4, FailingKeepsQueue DEF Fail, Failures
<1>5. CASE GuardFails
  BY <1>t, <1>5, FailingKeepsQueue DEF GuardFails, Failures
<1>6. ASSUME NEW health \in BackendHealth, SetConstructionHealth(health)
      PROVE  QueueInv'
  BY <1>1, <1>6 DEF SetConstructionHealth
<1>7. ASSUME NEW source \in Sources, Degrade(source)
      PROVE  QueueInv'
  BY <1>1, <1>7 DEF Degrade
<1>8. CASE MarkNoLiveNotifications \/ GuardMarks \/ Close
  BY <1>1, <1>8 DEF MarkNoLiveNotifications, GuardMarks, MarkingNoLive, Close
<1>9. CASE Return \/ Panic \/ Wake
  BY <1>1, <1>9 DEF Return, Panic, Wake
<1>10. CASE PollDirty \/ PollEnd \/ PollPending
  BY <1>1, <1>10 DEF PollDirty, PollEnd, PollPending
<1>11. CASE UNCHANGED vars
  BY <1>1, <1>11 DEF vars
<1> QED
  BY <1>2, <1>3, <1>4, <1>5, <1>6, <1>7, <1>8, <1>9, <1>10, <1>11
     DEF Next, Publish, Unwind, PollNext

-----------------------------------------------------------------------------
(* The thread and its guard.                                               *)

\* A step that neither queues nor delivers a failure.
LEMMA SameThread ==
    ASSUME ThreadInv, UNCHANGED <<queueVars, closed, threadVars, heardVars>>,
           Dark => Dark'
    PROVE  ThreadInv'
BY DEF ThreadInv, PanicQueued, queueVars, threadVars, heardVars

\* Darkness is for ever: nothing clears the flag, and the record is set once.
LEMMA DarkStep == TypeOK /\ [Next]_vars => (Dark => Dark')
<1> SUFFICES ASSUME TypeOK, [Next]_vars, Dark PROVE Dark'
  OBVIOUS
<1> USE DEF Dark, Established
<1>1. CASE UNCHANGED <<runtimeNoLive, construction>>
  BY <1>1
<1>2. ASSUME NEW health \in BackendHealth, SetConstructionHealth(health)
      PROVE  Dark'
  BY <1>2 DEF SetConstructionHealth, healthVars
<1>3. CASE Publish
  BY <1>1, <1>3 DEF Publish, Emit, Fail, Failing, Degrade, MarkNoLiveNotifications,
                    MarkingNoLive, AlreadyDark, healthVars
<1>4. CASE Unwind \/ Return \/ Panic
  BY <1>1, <1>4 DEF Unwind, GuardMarks, MarkingNoLive, AlreadyDark, GuardFails, Failing,
                    Close, Return, Panic, healthVars
<1>5. CASE Wake \/ PollNext \/ UNCHANGED vars
  BY <1>1, <1>5 DEF Wake, PollNext, PollQueued, PollDirty, PollEnd, PollPending, vars,
                    healthVars
<1> QED  BY <1>2, <1>3, <1>4, <1>5 DEF Next

\* What a failure adds to the queue, as far as a panic is concerned.
LEMMA FailingPanic ==
    ASSUME QueueTypeOK, NEW error \in Failures, Failing(error)
    PROVE  PanicQueued' =>  error = Panicked \/ PanicQueued
<1> DEFINE item == [error |-> error, since |-> current]
<1>1. /\ item # Snapshot
      /\ queue' \in Seq(Item)
      /\ Len(queue') \in {Len(queue), Len(queue) + 1}
      /\ queue'[Len(queue')] = item
      /\ \A i \in 1..Len(queue') : i # Len(queue') => queue'[i] = queue[i]
  BY FailingFacts
<1>2. item.error = error /\ queue \in Seq(Item) /\ Len(queue) \in Nat
  BY DEF QueueTypeOK
<1> HIDE DEF item
<1>3. ASSUME NEW i \in 1..Len(queue'), queue'[i] # Snapshot, queue'[i].error = Panicked
      PROVE  error = Panicked \/ PanicQueued
  <2>1. CASE i = Len(queue')
    BY <1>1, <1>2, <1>3, <2>1
  <2>2. CASE i # Len(queue')
    <3>1. i \in 1..Len(queue) /\ queue[i] = queue'[i]
      BY <1>1, <1>2, <2>2
    <3> QED  BY <1>2, <1>3, <3>1 DEF PanicQueued
  <2> QED  BY <2>1, <2>2
<1> QED  BY <1>1, <1>3 DEF PanicQueued

\* Every step keeps the thread's end and the stream's together.
LEMMA ThreadStep == TypeOK /\ ThreadInv /\ [Next]_vars => ThreadInv'
<1> SUFFICES ASSUME TypeOK, ThreadInv, [Next]_vars PROVE ThreadInv'
  OBVIOUS
<1>t. /\ QueueTypeOK /\ StateTypeOK /\ HeardTypeOK
      /\ queue \in Seq(Item) /\ Len(queue) \in Nat
      /\ Dark => Dark'
  BY DarkStep DEF TypeOK, QueueTypeOK
<1>1. ASSUME NEW health \in BackendHealth, SetConstructionHealth(health)
      PROVE  ThreadInv'
  BY <1>t, <1>1, SameThread DEF SetConstructionHealth
<1>2. ASSUME NEW config \in Configs, Emit(config)
      PROVE  ThreadInv'
  <2>1. /\ Folded(queue) \in Seq(Item) /\ Folded(queue) # <<>>
        /\ \A i \in 1..Len(Folded(queue)) :
              Folded(queue)[i] = Snapshot
                \/ \E j \in 1..Len(queue) : Folded(queue)[i] = queue[j]
    BY <1>t, FoldedFacts
  <2>2. /\ queue' \in Seq(Item)
        /\ \A i \in 1..Len(queue') :
              \E j \in 1..Len(Folded(queue)) : queue'[i] = Folded(queue)[j]
    BY <1>2, <2>1, TrimmedFacts DEF Emit
  <2>3. PanicQueued' => PanicQueued
    <3>1. ASSUME NEW i \in 1..Len(queue'), queue'[i] # Snapshot, queue'[i].error = Panicked
          PROVE  PanicQueued
      <4>1. PICK j \in 1..Len(Folded(queue)) : queue'[i] = Folded(queue)[j]
        BY <2>2
      <4>2. PICK k \in 1..Len(queue) : Folded(queue)[j] = queue[k]
        BY <2>1, <3>1, <4>1
      <4> QED  BY <1>t, <3>1, <4>1, <4>2 DEF PanicQueued
    <3> QED  BY <2>2, <3>1 DEF PanicQueued
  <2>4. /\ backend = "running" /\ backend' = backend /\ closed' = closed
        /\ panicking' = panicking /\ heardPanic' = heardPanic
    BY <1>2 DEF Emit, BackendAt, threadVars, heardVars
  <2> QED  BY <2>3, <2>4 DEF ThreadInv
<1>3. ASSUME NEW error \in Errors, Fail(error)
      PROVE  ThreadInv'
  <2>1. PanicQueued' => PanicQueued
    BY <1>t, <1>3, FailingPanic, ErrorAssumption DEF Fail, Failures
  <2>2. /\ backend = "running" /\ backend' = backend /\ closed' = closed
        /\ panicking' = panicking /\ heardPanic' = heardPanic
    BY <1>3 DEF Fail, Failing, BackendAt, threadVars, heardVars
  <2> QED  BY <2>1, <2>2 DEF ThreadInv
<1>4. ASSUME NEW source \in Sources, Degrade(source)
      PROVE  ThreadInv'
  BY <1>t, <1>4, SameThread DEF Degrade
<1>5. CASE MarkNoLiveNotifications
  BY <1>t, <1>5, SameThread DEF MarkNoLiveNotifications, MarkingNoLive
<1>6. CASE Return \/ Panic
  <2>1. PanicQueued' = PanicQueued /\ heardPanic' = heardPanic /\ closed' = closed
    BY <1>6 DEF Return, Panic, PanicQueued, queueVars, heardVars
  <2>2. /\ backend = "running"
        /\ \/ backend' = "close" /\ panicking' = panicking
           \/ backend' = "mark" /\ panicking' = TRUE
    BY <1>6 DEF Return, Panic, BackendAt
  <2> QED  BY <2>1, <2>2 DEF ThreadInv
<1>7. CASE GuardMarks
  <2>1. PanicQueued' = PanicQueued /\ heardPanic' = heardPanic /\ closed' = closed
    BY <1>7 DEF GuardMarks, MarkingNoLive, PanicQueued, queueVars, heardVars
  <2>2. Dark'
    BY <1>7 DEF GuardMarks, MarkingNoLive, AlreadyDark, Dark, Established
  <2>3. backend = "mark" /\ backend' = "fail" /\ panicking' = panicking
    BY <1>7 DEF GuardMarks, BackendAt
  <2> QED  BY <2>1, <2>2, <2>3 DEF ThreadInv
<1>8. CASE GuardFails
  <2>1. PanicQueued'
    <3> DEFINE item == [error |-> Panicked, since |-> current]
    <3>1. /\ item # Snapshot
          /\ queue' \in Seq(Item)
          /\ Len(queue') >= 1
          /\ queue'[Len(queue')] = item
      BY <1>t, <1>8, FailingFacts DEF GuardFails, Failures
    <3>2. Len(queue') \in DOMAIN queue' /\ item.error = Panicked
      BY <3>1
    <3> HIDE DEF item
    <3> QED  BY <3>1, <3>2 DEF PanicQueued
  <2>2. heardPanic' = heardPanic /\ closed' = closed
    BY <1>8 DEF GuardFails, Failing, heardVars
  <2>3. backend = "fail" /\ backend' = "close" /\ panicking' = panicking
    BY <1>8 DEF GuardFails, BackendAt
  <2> QED  BY <1>t, <2>1, <2>2, <2>3 DEF ThreadInv
<1>9. CASE Close
  <2>1. PanicQueued' = PanicQueued /\ heardPanic' = heardPanic
    BY <1>9 DEF Close, PanicQueued, queueVars, heardVars
  <2>2. /\ backend = "close" /\ backend' = "done" /\ panicking' = panicking
        /\ closed' = TRUE
    BY <1>9 DEF Close, BackendAt
  <2> QED  BY <1>t, <2>1, <2>2 DEF ThreadInv
<1>10. CASE Wake
  BY <1>t, <1>10, SameThread DEF Wake
<1>11. CASE PollQueued
  <2>1. /\ queue' \in Seq(Item) /\ Len(queue') = Len(queue) - 1
        /\ \A i \in 1..Len(queue') : queue'[i] = queue[i + 1]
        /\ Head(queue) = queue[1] /\ queue # <<>>
    BY <1>t, <1>11, HeadTailProperties DEF PollQueued
  <2>2. PanicQueued' => PanicQueued
    <3>1. ASSUME NEW i \in 1..Len(queue')
          PROVE  i + 1 \in 1..Len(queue) /\ queue'[i] = queue[i + 1]
      BY <1>t, <2>1
    <3> QED  BY <1>t, <2>1, <3>1 DEF PanicQueued
  <2>3. PanicQueued => PanicQueued' \/ (queue[1] # Snapshot /\ queue[1].error = Panicked)
    <3>1. ASSUME NEW i \in 1..Len(queue), i # 1
          PROVE  i - 1 \in 1..Len(queue') /\ queue'[i - 1] = queue[i]
      <4>1. i - 1 \in 1..Len(queue') /\ (i - 1) + 1 = i
        BY <1>t, <2>1, <3>1
      <4> QED  BY <2>1, <4>1
    <3> QED  BY <1>t, <2>1, <3>1 DEF PanicQueued
  <2>4. heardPanic' <=> heardPanic \/ (queue[1] # Snapshot /\ queue[1].error = Panicked)
    BY <1>t, <1>11, <2>1 DEF PollQueued, DeliverSnapshot, DeliverError, HeardTypeOK
  <2>5. queue[1] # Snapshot /\ queue[1].error = Panicked => PanicQueued
    <3>1. 1 \in DOMAIN queue
      BY <1>t, <2>1
    <3> QED  BY <3>1 DEF PanicQueued
  <2>6. UNCHANGED <<closed, backend, panicking>>
    BY <1>11 DEF PollQueued, threadVars
  <2> QED  BY <1>t, <2>2, <2>3, <2>4, <2>5, <2>6 DEF ThreadInv
<1>12. CASE PollDirty \/ PollEnd \/ PollPending
  <2>1. PanicQueued' = PanicQueued
    BY <1>12 DEF PollDirty, PollEnd, PollPending, PanicQueued, queueVars
  <2>2. UNCHANGED <<closed, backend, panicking, heardPanic>>
    BY <1>12 DEF PollDirty, DeliverSnapshot, PollEnd, PollPending, threadVars, heardVars
  <2> QED  BY <1>t, <2>1, <2>2 DEF ThreadInv
<1>13. CASE UNCHANGED vars
  BY <1>t, <1>13, SameThread DEF vars
<1> QED
  BY <1>1, <1>2, <1>3, <1>4, <1>5, <1>6, <1>7, <1>8, <1>9, <1>10, <1>11, <1>12, <1>13
     DEF Next, Publish, Unwind, PollNext

-----------------------------------------------------------------------------
(* The end of the stream.                                                  *)

\* Once the stream is closed the thread is done, so nothing comes after None.
LEMMA EndedStep == TypeOK /\ ThreadInv /\ EndedInv /\ [Next]_vars => EndedInv'
<1> SUFFICES ASSUME TypeOK, ThreadInv, EndedInv, [Next]_vars PROVE EndedInv'
  OBVIOUS
<1>t. closed => backend = "done"
  BY DEF ThreadInv
<1>1. CASE UNCHANGED <<queueVars, closed, dirty, construction, ended>>
  BY <1>1 DEF EndedInv, Established, queueVars
<1>2. CASE ~closed /\ UNCHANGED ended
  BY <1>2 DEF EndedInv
<1>3. CASE UNCHANGED ended /\ (PollQueued \/ PollDirty)
  BY <1>3 DEF EndedInv, PollQueued, PollDirty
<1>4. ASSUME NEW health \in BackendHealth, SetConstructionHealth(health)
      PROVE  EndedInv'
  BY <1>4 DEF EndedInv, SetConstructionHealth, Established, heardVars
<1>5. CASE Publish \/ Return \/ Panic
  BY <1>t, <1>2, <1>5 DEF Publish, Emit, Fail, Failing, Degrade, MarkNoLiveNotifications,
                          MarkingNoLive, Return, Panic, BackendAt, heardVars
<1>6. CASE Unwind
  BY <1>t, <1>2, <1>6 DEF Unwind, GuardMarks, MarkingNoLive, GuardFails, Failing, Close,
                          BackendAt, heardVars
<1>7. CASE Wake
  BY <1>1, <1>7 DEF Wake, heardVars
<1>8. CASE PollQueued \/ PollDirty
  BY <1>3, <1>8 DEF PollQueued, PollDirty, DeliverSnapshot, DeliverError
<1>9. CASE PollEnd
  BY <1>9 DEF PollEnd, EndedInv, Established, queueVars
<1>10. CASE PollPending
  BY <1>1, <1>10 DEF PollPending, heardVars
<1>11. CASE UNCHANGED vars
  BY <1>1, <1>11 DEF vars, heardVars
<1> QED  BY <1>4, <1>5, <1>6, <1>7, <1>8, <1>9, <1>10, <1>11 DEF Next, PollNext

-----------------------------------------------------------------------------
(* The theorems.                                                           *)

\* The inductive invariant holds at the start.
LEMMA IInvInit == Init => IInv
<1> SUFFICES ASSUME Init PROVE IInv
  OBVIOUS
<1>1. TypeOK
  BY TypeInit
<1>2. queue = <<Snapshot>> /\ Len(queue) = 1 /\ queue[1] = Snapshot /\ DOMAIN queue = {1}
  BY DEF Init
<1>3. WakerInv /\ EndedInv
  BY DEF Init, WakerInv, EndedInv
<1>4. SnapshotQueued /\ ~PanicQueued
  BY <1>2 DEF SnapshotQueued, PanicQueued
<1>5. OwedInv /\ ThreadInv
  BY <1>4 DEF Init, OwedInv, OwedOrCurrent, ThreadInv
<1>6. QueueInv
  BY <1>2, CapacityAssumption DEF Init, QueueInv, Bounded, ChangeFollowsFailure
<1> QED  BY <1>1, <1>3, <1>5, <1>6 DEF IInv

\* No step breaks the inductive invariant.
LEMMA IInvStep == IInv /\ [Next]_vars => IInv'
BY TypeStep, WakerStep, OwedStep, QueueStep, ThreadStep, EndedStep DEF IInv

\* The inductive invariant holds throughout, for every capacity of the queue.
THEOREM Inductive == Spec => []IInv
BY IInvInit, IInvStep, PTL DEF Spec

\* A task that parks is woken for whatever is published after it parked.
THEOREM WakeupsAreNotLost == Spec => []NoLostWakeup
<1>1. IInv => NoLostWakeup
  BY DEF IInv, WakerInv, NoLostWakeup
<1> QED  BY <1>1, Inductive, PTL

\* A subscriber that is owed nothing holds the state there is.
THEOREM NeverStale == Spec => []OwedOrCurrent
<1>1. IInv => OwedOrCurrent
  BY DEF IInv, OwedInv
<1> QED  BY <1>1, Inductive, PTL

\* The queue stays within its bound and a failure never hides the change
\* that came after it.
THEOREM QueueKeepsItsPromises == Spec => [](Bounded /\ ChangeFollowsFailure)
<1>1. IInv => Bounded /\ ChangeFollowsFailure
  BY DEF IInv, QueueInv
<1> QED  BY <1>1, Inductive, PTL

\* At any capacity a subscriber that never polls costs a bounded queue of
\* failures and snapshots, however publications and failures alternate.
THEOREM QueueStaysBounded == Spec => []QueueIsBounded
<1>1. IInv => QueueIsBounded
  BY DEF IInv, QueueInv, QueueIsBounded
<1> QED  BY <1>1, Inductive, PTL

\* A subscriber that hears of a panic, or is about to, is told no route is live.
THEOREM PanicLeavesNoRouteLive == Spec => []PanicIsDark
<1>1. IInv => PanicIsDark
  BY DEF IInv, ThreadInv, PanicIsDark, PanicQueued, Dark, MergedHealth
<1> QED  BY <1>1, Inductive, PTL

\* None comes after the snapshot that says `stopped`, and after the panic.
THEOREM NoneComesLast == Spec => []EndIsAnnounced
<1>1. ASSUME IInv, ended
      PROVE  seen = Stamp /\ seen.health.stopped /\ (panicking => heardPanic)
  <2>1. Established /\ closed /\ queue = <<>> /\ ~dirty
    BY <1>1 DEF IInv, EndedInv
  <2>2. ~SnapshotQueued /\ ~PanicQueued
    BY <2>1 DEF SnapshotQueued, PanicQueued
  <2>3. seen = Stamp
    BY <1>1, <2>1, <2>2 DEF IInv, OwedInv, OwedOrCurrent
  <2>4. Stamp.health.stopped
    BY <2>1 DEF Stamp, MergedHealth
  <2>5. panicking => heardPanic
    BY <1>1, <2>1, <2>2 DEF IInv, ThreadInv
  <2> QED  BY <2>3, <2>4, <2>5
<1>2. IInv => EndIsAnnounced
  BY <1>1 DEF EndIsAnnounced
<1> QED  BY <1>2, Inductive, PTL

-----------------------------------------------------------------------------
(* What reaches the subscriber is a LevelStream, apart from its fairness.  *)

StreamState == IF Established THEN Stamp ELSE Nothing

\* What leaves the stream's state alone is a stutter of LevelStream.
LEMMA StreamStutters ==
    ASSUME UNCHANGED <<current, healthVars, construction, closed, told, ended>>
    PROVE  UNCHANGED Stream!streamVars
<1>1. StreamState' = StreamState
  BY SameStamp DEF StreamState
<1> QED  BY <1>1 DEF Stream!streamVars, StreamState

\* A publishing method moves the stream as Publish does, or not at all while
\* the constructor has not handed the watcher out.
LEMMA StreamPublishes ==
    ASSUME TypeOK, TypeOK', ~closed, UNCHANGED <<construction, told, ended>>,
           runtimeDegraded \subseteq runtimeDegraded',
           runtimeNoLive => runtimeNoLive'
    PROVE  [Stream!Next]_(Stream!streamVars)
<1>1. Stamp \in WatchState /\ Stamp' \in WatchState
  <2>1. QueueTypeOK /\ StateTypeOK /\ QueueTypeOK' /\ StateTypeOK'
    BY DEF TypeOK
  <2>2. Stamp \in WatchState
    BY <2>1, StampType
  <2>3. current' \in Configs /\ MergedHealth' \in Health
    BY <2>1 DEF QueueTypeOK, StateTypeOK, MergedHealth, Health, BackendHealth, Established
  <2> QED  BY <2>2, <2>3 DEF Stamp, WatchState
<1>2. CASE ~Established
  <2>1. ~Established'
    BY <1>2 DEF Established
  <2> QED  BY <1>2, <2>1 DEF Stream!streamVars
<1>3. CASE Established
  <2>1. Established'
    BY <1>3 DEF Established
  <2>2. Stamp # Nothing
    BY <1>1, NothingAssumption
  <2>3. /\ Stamp.health.degraded \subseteq Stamp'.health.degraded
        /\ Stamp'.health.live => Stamp.health.live
        /\ ~Stamp.health.stopped
    BY <1>3 DEF Stamp, MergedHealth, Established
  <2>4. Stream!Publish
    BY <1>1, <1>3, <2>1, <2>2, <2>3
       DEF Stream!Publish, Stream!Worsens, Stream!WatchState, Stream!Health, WatchState, Health
  <2> QED  BY <2>4 DEF Stream!Next
<1> QED  BY <1>2, <1>3

\* A poll that has an item hands out the state of that instant.
LEMMA StreamDelivers ==
    ASSUME TypeOK, Established, told' = Stamp,
           UNCHANGED <<current, healthVars, construction, closed, ended>>
    PROVE  Stream!Next
<1>1. Stamp # Nothing
  BY StampType, NothingAssumption DEF TypeOK
<1>2. StreamState' = StreamState
  BY SameStamp DEF StreamState
<1> QED  BY <1>1, <1>2 DEF Stream!Next, Stream!Deliver, StreamState

\* Every step is a step of LevelStream, or a stutter.
LEMMA StreamStep == IInv /\ IInv' /\ [Next]_vars => [Stream!Next]_(Stream!streamVars)
<1> SUFFICES ASSUME IInv, IInv', [Next]_vars
             PROVE  [Stream!Next]_(Stream!streamVars)
  OBVIOUS
<1>t. TypeOK /\ TypeOK' /\ StateTypeOK /\ (closed => backend = "done")
  BY DEF IInv, ThreadInv, TypeOK
<1>1. ASSUME NEW health \in BackendHealth, SetConstructionHealth(health)
      PROVE  Stream!Next
  <2>1. Established' /\ ~Established
    BY <1>1, NothingAssumption DEF SetConstructionHealth, Established
  <2>2. UNCHANGED <<told, ended>>
    BY <1>1 DEF SetConstructionHealth, heardVars
  <2>3. current' \in Configs /\ MergedHealth' \in Health
    BY <1>t DEF TypeOK, QueueTypeOK, StateTypeOK, MergedHealth, Health, BackendHealth,
                Established
  <2>4. Stamp' \in WatchState
    BY <2>3 DEF Stamp, WatchState
  <2> QED  BY <2>1, <2>2, <2>4
             DEF Stream!Next, Stream!Establish, Stream!WatchState, Stream!Health, WatchState,
                 Health
<1>2. ASSUME NEW config \in Configs, Emit(config)
      PROVE  [Stream!Next]_(Stream!streamVars)
  BY <1>t, <1>2, StreamPublishes DEF Emit, BackendAt, healthVars, heardVars
<1>3. ASSUME NEW error \in Errors, Fail(error)
      PROVE  [Stream!Next]_(Stream!streamVars)
  BY <1>3, StreamStutters DEF Fail, Failing, heardVars
<1>4. ASSUME NEW source \in Sources, Degrade(source)
      PROVE  [Stream!Next]_(Stream!streamVars)
  BY <1>t, <1>4, StreamPublishes DEF Degrade, BackendAt, heardVars
<1>5. CASE MarkNoLiveNotifications \/ GuardMarks
  <2>1. ~closed
    BY <1>t, <1>5 DEF MarkNoLiveNotifications, GuardMarks, BackendAt
  <2>2. UNCHANGED <<construction, told, ended, runtimeDegraded>>
    BY <1>5 DEF MarkNoLiveNotifications, GuardMarks, MarkingNoLive, heardVars
  <2>3. runtimeNoLive => runtimeNoLive'
    BY <1>5 DEF MarkNoLiveNotifications, GuardMarks, MarkingNoLive, AlreadyDark
  <2> QED  BY <1>t, <2>1, <2>2, <2>3, StreamPublishes
<1>6. CASE Return \/ Panic \/ Wake
  BY <1>6, StreamStutters DEF Return, Panic, Wake, heardVars
<1>7. CASE GuardFails
  BY <1>7, StreamStutters DEF GuardFails, Failing, heardVars
<1>8. CASE Close
  BY <1>t, <1>8, StreamPublishes DEF Close, BackendAt, healthVars, heardVars
<1>9. CASE PollQueued \/ PollDirty
  <2>1. Established /\ told' = Stamp
    BY <1>9 DEF PollQueued, PollDirty, DeliverSnapshot, DeliverError, Delivered
  <2>2. UNCHANGED <<current, healthVars, construction, closed, ended>>
    BY <1>9 DEF PollQueued, PollDirty, DeliverSnapshot, DeliverError
  <2> QED  BY <1>t, <2>1, <2>2, StreamDelivers
<1>10. CASE PollEnd
  <2>1. Established /\ closed /\ ~SnapshotQueued /\ ~dirty
    BY <1>10 DEF PollEnd, SnapshotQueued
  <2>2. told = Stamp /\ Stamp.health.stopped
    BY <2>1 DEF IInv, OwedInv, OwedOrCurrent, Stamp, MergedHealth
  <2>3. StreamState' = StreamState /\ told' = told /\ ended' = TRUE
    BY <1>10, SameStamp DEF PollEnd, StreamState
  <2>4. Stamp # Nothing
    BY <1>t, StampType, NothingAssumption DEF TypeOK
  <2> QED  BY <2>1, <2>2, <2>3, <2>4 DEF Stream!Next, Stream!End, StreamState
<1>11. CASE PollPending
  BY <1>11, StreamStutters DEF PollPending, heardVars
<1>12. CASE UNCHANGED vars
  BY <1>12, StreamStutters DEF vars, heardVars
<1> QED
  BY <1>1, <1>2, <1>3, <1>4, <1>5, <1>6, <1>7, <1>8, <1>9, <1>10, <1>11, <1>12
     DEF Next, Publish, Unwind, PollNext

\* Every item carries the state of its instant, a health transition is never
\* taken back, and the stream ends only once the subscriber knows that the
\* backend stopped: Shared implements LevelStream, all but its fairness.
THEOREM ImplementsSafety == Spec => Stream!Init /\ [][Stream!Next]_(Stream!streamVars)
<1>1. Init => Stream!Init
  BY DEF Init, Stream!Init, Established
<1> QED  BY <1>1, Inductive, StreamStep, PTL DEF Spec

-----------------------------------------------------------------------------
(* The pump: its inductive invariant, by concern.                          *)

Running == pump \in {"calling", "away"}

\* Before `start` has returned nobody has the watch.
StartInv ==
    ~Started => /\ \A t \in Threads : pc[t] = "idle"
                /\ closedBy = {} /\ pumpLock = NoOne

\* The handle of the pump is there, or in the hands of the one thread that
\* waits for it, or the pump has ended; and who holds the lock across a wait is
\* that one thread.
HandleInv ==
    /\ Started => \/ handle \/ pump = "done"
                  \/ pumpLock \in Threads /\ pc[pumpLock] = "joining"
    /\ \A t \in Threads : pc[t] \in {"joining", "takes", "drops"} => pumpLock = t

\* Whoever has got past the pump has seen it end.
PastInv ==
    /\ \A t \in Threads : pc[t] \in {"watcher", "dropping", "takes", "drops"} => pump = "done"
    /\ closedBy \cap Threads # {} => pump = "done"

\* A close from on_change itself is seen before the pump delivers again.
InsideInv ==
    PumpThread \in closedBy =>
        watchClosed /\ pump \in {"calling", "away", "top", "stopped", "leaving",
                                 "dropping", "done"}

\* Node's gate is shut before the close is told to anybody, and its pump never
\* calls back; the others post nothing.
GateInv ==
    /\ host = "node" => ~Running
    /\ host # "node" => posted = 0
    /\ host = "node" /\ open =>
        /\ \A t \in Threads : pc[t] \notin {"detached", "pump", "joining", "watcher", "dropping"}
        /\ closedBy = {}

\* The stop is delivered once, and nothing after it.
SaidInv ==
    /\ said \in {0, 1}
    /\ said = 1 => \/ Running /\ msg = "stop"
                   \/ pump \in {"leaving", "dropping", "done"}

PumpInv ==
    /\ TypeOK /\ PumpTypeOK
    /\ StartInv /\ HandleInv /\ PastInv /\ InsideInv /\ GateInv /\ SaidInv

-----------------------------------------------------------------------------
(* Types.                                                                  *)

\* The backend takes its steps of the stream and leaves the watch alone.
Platform ==
    /\ \/ \E health \in BackendHealth : SetConstructionHealth(health)
       \/ Publish \/ Return \/ Panic \/ Unwind
    /\ UNCHANGED pumpVars

\* Every step is a step of the stream or leaves it as it is.
LEMMA PumpStepsTheStream == [PumpNext]_watchVars => [Next]_vars
<1> SUFFICES ASSUME [PumpNext]_watchVars PROVE [Next]_vars
  OBVIOUS
<1>1. CASE Platform
  BY <1>1 DEF Platform, Next
<1>2. CASE Unpark
  BY <1>2 DEF Unpark, Next
<1>3. CASE TakeFirst
  BY <1>3 DEF TakeFirst, Next, PollNext
<1>4. CASE HearSnapshot \/ HearFailure \/ HearEnd \/ HearNothing
  BY <1>4 DEF HearSnapshot, HearFailure, HearEnd, HearNothing, Next, PollNext
<1>5. CASE \/ SpawnPump \/ Top \/ Park \/ TellStop \/ Call \/ Post \/ ComesBack
           \/ LeaveLoop \/ PumpEnds \/ CallReturns \/ CloseInside \/ DropInside
           \/ LetsGo \/ RunPosted
  BY <1>5 DEF SpawnPump, Top, Park, TellStop, Call, Post, ComesBack, LeaveLoop, PumpEnds,
              CallReturns, CloseInside, DropInside, LetsGo, RunPosted
<1>6. ASSUME NEW t \in Threads, BeginClose(t) \/ BeginBackground(t) \/ StopStep(t)
      PROVE  UNCHANGED vars
  BY <1>6 DEF BeginClose, BeginBackground, StopStep, StoreClosed, StopPump, Join,
              TakeWatcher, FinishClose, TryLock, BackgroundTakes, BackgroundDrops
<1>7. CASE UNCHANGED watchVars
  BY <1>7 DEF watchVars
<1> QED
  BY <1>1, <1>2, <1>3, <1>4, <1>5, <1>6, <1>7 DEF PumpNext, PumpStep, Platform

\* The type in parts: the counters, the host's side, the locks, and where
\* everybody is.
CountsOK == posted \in 0 .. MaxPosted /\ said \in 0 .. 2

HostOK ==
    /\ host \in {"c", "python", "node"}
    /\ gil \in Threads \cup {PumpThread, NoOne}
    /\ open \in BOOLEAN
    /\ closedBy \subseteq Threads \cup {PumpThread}
    /\ missed \in BOOLEAN

LocksOK ==
    /\ watchClosed \in BOOLEAN /\ watcher \in BOOLEAN /\ handle \in BOOLEAN
    /\ watcherLock \in Threads \cup {PumpThread, NoOne}
    /\ pumpLock \in Threads \cup {NoOne}
    /\ token \in BOOLEAN

PlacesOK ==
    /\ pump \in {"absent", "read", "top", "poll", "park", "deliver", "calling",
                 "away", "stopped", "leaving", "dropping", "done"}
    /\ last \in Configs
    /\ msg \in {"value", "last value", "stop"}
    /\ pc \in [Threads -> {"idle", "detached", "pump", "joining", "watcher",
                           "dropping", "tries", "takes", "drops", "closed"}]

\* The type, in parts.
LEMMA TypeParts == PumpTypeOK <=> CountsOK /\ HostOK /\ LocksOK /\ PlacesOK
BY Zenon DEF PumpTypeOK, CountsOK, HostOK, LocksOK, PlacesOK

\* The types hold at the start.
LEMMA PumpTypeInit == Init /\ PumpInit => PumpTypeOK
<1> SUFFICES ASSUME PumpInit PROVE CountsOK /\ HostOK /\ LocksOK /\ PlacesOK
  BY TypeParts
<1>1. CountsOK
  BY PostedAssumption DEF PumpInit, CountsOK
<1>2. HostOK /\ LocksOK
  BY DEF PumpInit, HostOK, LocksOK
<1>3. PlacesOK
  BY ConfigAssumption DEF PumpInit, PlacesOK
<1> QED  BY <1>1, <1>2, <1>3

\* Only a call and a posted call are counted.
LEMMA CountsStep ==
    ASSUME CountsOK, SaidInv, [PumpNext]_watchVars PROVE CountsOK'
<1> USE DEF CountsOK, SaidInv
<1>1. CASE UNCHANGED <<posted, said>>
  BY <1>1
<1>2. CASE Call
  BY <1>2 DEF Call, Said
<1>3. CASE Post
  BY <1>3, PostedAssumption DEF Post, Said
<1>4. CASE RunPosted
  BY <1>4, PostedAssumption DEF RunPosted, pastVars
<1>5. CASE \/ Platform \/ Unpark \/ TakeFirst \/ SpawnPump \/ Top \/ HearSnapshot
           \/ HearFailure \/ HearEnd \/ HearNothing \/ Park \/ TellStop \/ ComesBack
           \/ LeaveLoop \/ PumpEnds \/ CallReturns \/ CloseInside \/ DropInside \/ LetsGo
           \/ UNCHANGED watchVars
  <2>1. UNCHANGED <<posted, said>>
    BY <1>5 DEF Platform, Unpark, TakeFirst, SpawnPump, Top, HearSnapshot, HearFailure,
                HearEnd, HearNothing, Park, TellStop, ComesBack, LeaveLoop, PumpEnds,
                CallReturns, CloseInside, DropInside, LetsGo, watchVars, pumpVars,
                hostVars, pastVars
  <2> QED  BY <1>1, <2>1
<1>6. ASSUME NEW t \in Threads, BeginClose(t) \/ BeginBackground(t) \/ StopStep(t)
      PROVE  UNCHANGED <<posted, said>>
  BY <1>6 DEF BeginClose, BeginBackground, StopStep, StoreClosed, StopPump, Join,
              TakeWatcher, FinishClose, TryLock, BackgroundTakes, BackgroundDrops,
              hostVars, pastVars
<1> QED
  BY <1>1, <1>2, <1>3, <1>4, <1>5, <1>6 DEF PumpNext, PumpStep, Platform

\* The host's side: only the gate, the GIL and the record of a close change.
LEMMA HostStep ==
    ASSUME TypeOK, HostOK, [PumpNext]_watchVars PROVE HostOK'
<1>t. closed \in BOOLEAN
  BY DEF TypeOK, StateTypeOK
<1> USE ThreadsAssumption DEF HostOK, hostVars, innerVars, loopVars, pastVars, AfterDelivery,
        TakesWatcher, DropsWatcher, Releases, Holding
<1>1. CASE Platform \/ UNCHANGED watchVars
  BY <1>1 DEF Platform, pumpVars, watchVars
<1>2. CASE Unpark \/ TakeFirst \/ SpawnPump \/ Top \/ HearSnapshot
  BY <1>t, <1>2 DEF Unpark, TakeFirst, SpawnPump, Top, HearSnapshot
<1>3. CASE HearFailure \/ HearEnd \/ HearNothing \/ Park \/ TellStop
  BY <1>3 DEF HearFailure, HearEnd, HearNothing, Park, TellStop
<1>4. CASE Call \/ Post \/ ComesBack \/ LeaveLoop \/ PumpEnds
  BY <1>4 DEF Call, Post, ComesBack, LeaveLoop, PumpEnds
<1>5. CASE CallReturns \/ CloseInside \/ DropInside \/ LetsGo \/ RunPosted
  BY <1>5 DEF CallReturns, CloseInside, DropInside, LetsGo, RunPosted
<1>6. ASSUME NEW t \in Threads,
             BeginClose(t) \/ BeginBackground(t) \/ StoreClosed(t) \/ StopPump(t) \/ Join(t)
      PROVE  HostOK'
  BY <1>6 DEF BeginClose, BeginBackground, StoreClosed, StopPump, Join
<1>7. ASSUME NEW t \in Threads,
             \/ TakeWatcher(t) \/ FinishClose(t) \/ TryLock(t)
             \/ BackgroundTakes(t) \/ BackgroundDrops(t)
      PROVE  HostOK'
  BY <1>7 DEF TakeWatcher, FinishClose, TryLock, BackgroundTakes, BackgroundDrops
<1> QED
  BY <1>1, <1>2, <1>3, <1>4, <1>5, <1>6, <1>7 DEF PumpNext, PumpStep, StopStep, Platform

\* The locks: taken by whoever finds them free, and given back.
LEMMA LocksStep ==
    ASSUME LocksOK, [PumpNext]_watchVars PROVE LocksOK'
<1> USE ThreadsAssumption DEF LocksOK, hostVars, innerVars, loopVars, pastVars, AfterDelivery,
        TakesWatcher, DropsWatcher, Releases, Holding
<1>1. CASE Platform \/ UNCHANGED watchVars
  BY <1>1 DEF Platform, pumpVars, watchVars
<1>2. CASE Unpark \/ TakeFirst \/ SpawnPump \/ Top \/ HearSnapshot
  BY <1>2 DEF Unpark, TakeFirst, SpawnPump, Top, HearSnapshot
<1>3. CASE HearFailure \/ HearEnd \/ HearNothing \/ Park \/ TellStop
  BY <1>3 DEF HearFailure, HearEnd, HearNothing, Park, TellStop
<1>4. CASE Call \/ Post \/ ComesBack \/ LeaveLoop \/ PumpEnds
  BY <1>4 DEF Call, Post, ComesBack, LeaveLoop, PumpEnds
<1>5. CASE CallReturns \/ CloseInside \/ DropInside \/ LetsGo \/ RunPosted
  BY <1>5 DEF CallReturns, CloseInside, DropInside, LetsGo, RunPosted
<1>6. ASSUME NEW t \in Threads,
             BeginClose(t) \/ BeginBackground(t) \/ StoreClosed(t) \/ StopPump(t) \/ Join(t)
      PROVE  LocksOK'
  BY <1>6 DEF BeginClose, BeginBackground, StoreClosed, StopPump, Join
<1>7. ASSUME NEW t \in Threads,
             \/ TakeWatcher(t) \/ FinishClose(t) \/ TryLock(t)
             \/ BackgroundTakes(t) \/ BackgroundDrops(t)
      PROVE  LocksOK'
  BY <1>7 DEF TakeWatcher, FinishClose, TryLock, BackgroundTakes, BackgroundDrops
<1> QED
  BY <1>1, <1>2, <1>3, <1>4, <1>5, <1>6, <1>7 DEF PumpNext, PumpStep, StopStep, Platform

\* Where everybody is, and the configuration the pump delivered last.
LEMMA PlacesStep ==
    ASSUME TypeOK, PlacesOK, [PumpNext]_watchVars PROVE PlacesOK'
<1>t. current \in Configs /\ current' \in Configs
  BY PumpStepsTheStream, TypeStep DEF TypeOK, QueueTypeOK
<1> USE ThreadsAssumption DEF PlacesOK, hostVars, innerVars, loopVars, pastVars, AfterDelivery,
        TakesWatcher, DropsWatcher, Releases, Holding
<1>1. CASE Platform \/ UNCHANGED watchVars
  BY <1>1 DEF Platform, pumpVars, watchVars
<1>2. CASE Unpark \/ TakeFirst \/ SpawnPump \/ Top \/ HearSnapshot
  BY <1>t, <1>2 DEF Unpark, TakeFirst, SpawnPump, Top, HearSnapshot
<1>3. CASE HearFailure \/ HearEnd \/ HearNothing \/ Park \/ TellStop
  BY <1>t, <1>3 DEF HearFailure, HearEnd, HearNothing, Park, TellStop
<1>4. CASE Call \/ Post \/ ComesBack \/ LeaveLoop \/ PumpEnds
  BY <1>t, <1>4 DEF Call, Post, ComesBack, LeaveLoop, PumpEnds
<1>5. CASE CallReturns \/ CloseInside \/ DropInside \/ LetsGo \/ RunPosted
  BY <1>t, <1>5 DEF CallReturns, CloseInside, DropInside, LetsGo, RunPosted
<1>6. ASSUME NEW t \in Threads,
             BeginClose(t) \/ BeginBackground(t) \/ StoreClosed(t) \/ StopPump(t) \/ Join(t)
      PROVE  PlacesOK'
  BY <1>6 DEF BeginClose, BeginBackground, StoreClosed, StopPump, Join
<1>7. ASSUME NEW t \in Threads,
             \/ TakeWatcher(t) \/ FinishClose(t) \/ TryLock(t)
             \/ BackgroundTakes(t) \/ BackgroundDrops(t)
      PROVE  PlacesOK'
  BY <1>7 DEF TakeWatcher, FinishClose, TryLock, BackgroundTakes, BackgroundDrops
<1> QED
  BY <1>1, <1>2, <1>3, <1>4, <1>5, <1>6, <1>7 DEF PumpNext, PumpStep, StopStep, Platform

\* No step leaves the types.
LEMMA PumpTypeStep ==
    TypeOK /\ PumpTypeOK /\ SaidInv /\ [PumpNext]_watchVars => PumpTypeOK'
<1> SUFFICES ASSUME TypeOK, PumpTypeOK, SaidInv, [PumpNext]_watchVars
             PROVE  CountsOK' /\ HostOK' /\ LocksOK' /\ PlacesOK'
  BY Zenon DEF PumpTypeOK, CountsOK, HostOK, LocksOK, PlacesOK
<1> QED  BY TypeParts, CountsStep, HostStep, LocksStep, PlacesStep
-----------------------------------------------------------------------------
(* The invariants.                                                         *)

\* The steps that leave the threads of the host where they are.
Aside ==
    \/ Platform \/ Unpark \/ TakeFirst \/ SpawnPump \/ PumpStep \/ CallReturns
    \/ CloseInside \/ DropInside \/ LetsGo \/ RunPosted \/ UNCHANGED watchVars

\* They take no lock that a thread could hold, and hardly move the pump but along
\* its way.
LEMMA AsideFacts ==
    ASSUME PlacesOK, Aside
    PROVE  /\ UNCHANGED <<pc, pumpLock, host>>
           /\ closedBy' \in {closedBy, closedBy \cup {PumpThread}}
           /\ closedBy' # closedBy => pump \in {"calling"} /\ watchClosed'
           /\ pump' \in {"absent", "read"} => pump \in {"absent", "read"}
           /\ pump = "done" => pump' = "done"
           /\ handle' = handle \/ (pump = "read" /\ handle')
           /\ pump = "read" => pump' = "read" \/ handle'
           /\ pump = "absent" => pump' \in {"absent", "read"}
<1> USE DEF PlacesOK, hostVars, innerVars, loopVars, pastVars
<1>1. CASE Platform \/ Unpark \/ UNCHANGED watchVars
  BY <1>1 DEF Platform, Unpark, watchVars, pumpVars
<1>2. CASE TakeFirst \/ SpawnPump
  BY <1>2 DEF TakeFirst, SpawnPump
<1>3. CASE Top \/ HearSnapshot \/ HearFailure \/ HearEnd \/ HearNothing
  BY <1>3 DEF Top, HearSnapshot, HearFailure, HearEnd, HearNothing, MayPoll
<1>4. CASE Park \/ TellStop \/ Call \/ Post
  BY <1>4 DEF Park, TellStop, Call, Post, AfterDelivery
<1>5. CASE ComesBack \/ LeaveLoop \/ PumpEnds
  BY <1>5 DEF ComesBack, LeaveLoop, PumpEnds, TakesWatcher, DropsWatcher
<1>6. CASE CallReturns \/ CloseInside
  BY <1>6 DEF CallReturns, CloseInside, AfterDelivery
<1>7. CASE DropInside \/ LetsGo \/ RunPosted
  BY <1>7 DEF DropInside, LetsGo, RunPosted
<1> QED  BY <1>1, <1>2, <1>3, <1>4, <1>5, <1>6, <1>7 DEF Aside, PumpStep

\* The steps by who takes them.
LEMMA StepKinds ==
    ASSUME [PumpNext]_watchVars
    PROVE  Aside \/ \E t \in Threads : BeginClose(t) \/ BeginBackground(t) \/ StopStep(t)
BY DEF PumpNext, Aside, Platform

\* Nobody stops a watch that has not been started.
LEMMA StartStep ==
    ASSUME PlacesOK, StartInv, [PumpNext]_watchVars PROVE StartInv'
<1> USE DEF StartInv, Started
<1>1. CASE Aside
  BY <1>1, AsideFacts
<1>2. ASSUME NEW t \in Threads, BeginClose(t) \/ BeginBackground(t)
      PROVE  StartInv'
  BY <1>2 DEF BeginClose, BeginBackground, MayStop, loopVars
<1>3. ASSUME NEW t \in Threads, StopStep(t)
      PROVE  StartInv'
  <2>1. pc[t] # "idle" /\ pump' = pump
    BY <1>3 DEF StopStep, StoreClosed, StopPump, Join, TakeWatcher, FinishClose, TryLock,
                BackgroundTakes, BackgroundDrops, loopVars
  <2> QED  BY <2>1
<1> QED  BY <1>1, <1>2, <1>3, StepKinds

\* The handle changes hands under the lock.
LEMMA HandleStep ==
    ASSUME PlacesOK, LocksOK, StartInv, HandleInv, [PumpNext]_watchVars PROVE HandleInv'
<1> USE ThreadsAssumption DEF HandleInv, Started, PlacesOK, LocksOK, StartInv
<1>1. CASE Aside
  BY <1>1, AsideFacts
<1>2. ASSUME NEW t \in Threads, BeginClose(t) \/ BeginBackground(t)
      PROVE  HandleInv'
  BY <1>2 DEF BeginClose, BeginBackground, MayStop, loopVars, innerVars
<1>3. ASSUME NEW t \in Threads, StoreClosed(t) \/ StopPump(t)
      PROVE  HandleInv'
  BY <1>3 DEF StoreClosed, StopPump, loopVars
<1>4. ASSUME NEW t \in Threads, Join(t) \/ TakeWatcher(t) \/ FinishClose(t)
      PROVE  HandleInv'
  BY <1>4 DEF Join, TakeWatcher, FinishClose, TakesWatcher, DropsWatcher, loopVars
<1>5. ASSUME NEW t \in Threads, TryLock(t)
      PROVE  HandleInv'
  <2>1. UNCHANGED <<pump, handle>>
    BY <1>5 DEF TryLock
  <2>2. CASE pumpLock = NoOne /\ ~handle
    <3>1. /\ pumpLock' = t /\ pc' = [pc EXCEPT ![t] = "takes"]
          /\ \A u \in Threads : pc[u] \notin {"joining", "takes", "drops"}
      BY <1>5, <2>2 DEF TryLock
    <3>2. Started' => pump' = "done"
      BY <2>1, <2>2
    <3> QED  BY <3>1, <3>2
  <2>3. CASE ~(pumpLock = NoOne /\ ~handle)
    <3>1. pumpLock' = pumpLock /\ pc' = [pc EXCEPT ![t] = "idle"] /\ pc[t] = "tries"
      BY <1>5, <2>3 DEF TryLock, Releases
    <3> QED  BY <2>1, <3>1
  <2> QED  BY <2>2, <2>3
<1>6. ASSUME NEW t \in Threads, BackgroundTakes(t) \/ BackgroundDrops(t)
      PROVE  HandleInv'
  BY <1>6 DEF BackgroundTakes, BackgroundDrops, TakesWatcher, DropsWatcher, Releases, loopVars
<1> QED  BY <1>1, <1>2, <1>3, <1>4, <1>5, <1>6, StepKinds DEF StopStep

\* Who finds the handle gone and the lock free finds the pump at its end.
LEMMA PastStep ==
    ASSUME PlacesOK, LocksOK, StartInv, HandleInv, PastInv, [PumpNext]_watchVars
    PROVE  PastInv'
<1> USE ThreadsAssumption DEF PastInv, HandleInv, Started, PlacesOK, LocksOK, StartInv
<1>1. CASE Aside
  BY <1>1, AsideFacts
<1>2. ASSUME NEW t \in Threads, BeginClose(t) \/ BeginBackground(t)
      PROVE  PastInv'
  BY <1>2 DEF BeginClose, BeginBackground, loopVars, pastVars
<1>3. ASSUME NEW t \in Threads, StoreClosed(t) \/ StopPump(t)
      PROVE  PastInv'
  BY <1>3 DEF StoreClosed, StopPump, loopVars, pastVars
<1>4. ASSUME NEW t \in Threads, Join(t) \/ TakeWatcher(t) \/ FinishClose(t)
      PROVE  PastInv'
  BY <1>4 DEF Join, TakeWatcher, FinishClose, TakesWatcher, DropsWatcher, loopVars, pastVars
<1>5. ASSUME NEW t \in Threads, TryLock(t)
      PROVE  PastInv'
  BY <1>5 DEF TryLock, Releases, pastVars
<1>6. ASSUME NEW t \in Threads, BackgroundTakes(t) \/ BackgroundDrops(t)
      PROVE  PastInv'
  BY <1>6 DEF BackgroundTakes, BackgroundDrops, TakesWatcher, DropsWatcher, Releases,
              loopVars, pastVars
<1> QED  BY <1>1, <1>2, <1>3, <1>4, <1>5, <1>6, StepKinds DEF StopStep

\* A watch once closed stays closed, and its pump looks before it delivers.
LEMMA InsideStep ==
    ASSUME PlacesOK, InsideInv, [PumpNext]_watchVars PROVE InsideInv'
<1> USE ThreadsAssumption DEF InsideInv, PlacesOK, hostVars, innerVars, loopVars, pastVars
<1>1. CASE Platform \/ Unpark \/ UNCHANGED watchVars
  BY <1>1 DEF Platform, Unpark, watchVars, pumpVars
<1>2. CASE TakeFirst \/ SpawnPump
  BY <1>2 DEF TakeFirst, SpawnPump
<1>3. CASE Top \/ HearSnapshot \/ HearFailure \/ HearEnd \/ HearNothing
  BY <1>3 DEF Top, HearSnapshot, HearFailure, HearEnd, HearNothing, MayPoll
<1>4. CASE Park \/ TellStop \/ Call \/ Post
  BY <1>4 DEF Park, TellStop, Call, Post, AfterDelivery
<1>5. CASE ComesBack \/ LeaveLoop \/ PumpEnds
  BY <1>5 DEF ComesBack, LeaveLoop, PumpEnds, TakesWatcher, DropsWatcher
<1>6. CASE CallReturns \/ CloseInside
  BY <1>6 DEF CallReturns, CloseInside, AfterDelivery
<1>7. CASE DropInside \/ LetsGo \/ RunPosted
  BY <1>7 DEF DropInside, LetsGo, RunPosted
<1>8. ASSUME NEW t \in Threads, BeginClose(t) \/ BeginBackground(t) \/ StopStep(t)
      PROVE  /\ pump' = pump /\ (watchClosed => watchClosed')
             /\ PumpThread \in closedBy' => PumpThread \in closedBy
  BY <1>8 DEF BeginClose, BeginBackground, StopStep, StoreClosed, StopPump, Join,
              TakeWatcher, FinishClose, TryLock, BackgroundTakes, BackgroundDrops,
              TakesWatcher, DropsWatcher
<1> QED
  BY <1>1, <1>2, <1>3, <1>4, <1>5, <1>6, <1>7, <1>8 DEF PumpNext, PumpStep, Platform

\* What is posted is Node's, and Node calls back from no pump.
LEMMA GateStep ==
    ASSUME PlacesOK, HostOK, CountsOK, GateInv, [PumpNext]_watchVars PROVE GateInv'
<1>1. host' = host /\ (open' => open)
  <2>1. ASSUME NEW t \in Threads, BeginClose(t) \/ BeginBackground(t) \/ StopStep(t)
        PROVE  host' = host /\ (open' => open)
    <3>1. CASE BeginClose(t) \/ FinishClose(t)
      BY <3>1 DEF BeginClose, FinishClose
    <3>2. CASE BeginBackground(t) \/ (StopStep(t) /\ ~FinishClose(t))
      BY <3>2 DEF BeginBackground, StopStep, StoreClosed, StopPump, Join, TakeWatcher,
                  TryLock, BackgroundTakes, BackgroundDrops, hostVars
    <3> QED  BY <2>1, <3>1, <3>2
  <2>2. CASE Aside
    <3>1. CASE Platform \/ Unpark \/ TakeFirst \/ SpawnPump \/ UNCHANGED watchVars
      BY <3>1 DEF Platform, Unpark, TakeFirst, SpawnPump, watchVars, pumpVars, hostVars
    <3>2. CASE \/ Top \/ HearSnapshot \/ HearFailure \/ HearEnd \/ HearNothing
      <4>1. UNCHANGED hostVars
        BY <3>2 DEF Top, HearSnapshot, HearFailure, HearEnd, HearNothing
      <4> QED  BY <4>1 DEF hostVars
    <3>3. CASE Park \/ TellStop \/ Call
      BY <3>3 DEF Park, TellStop, Call, hostVars
    <3>4. CASE Post \/ LeaveLoop \/ PumpEnds
      BY <3>4 DEF Post, LeaveLoop, PumpEnds, hostVars
    <3>5. CASE ComesBack
      BY <3>5 DEF ComesBack
    <3>6. CASE CallReturns \/ CloseInside \/ DropInside \/ LetsGo \/ RunPosted
      BY <3>6 DEF CallReturns, CloseInside, DropInside, LetsGo, RunPosted, hostVars
    <3> QED  BY <2>2, <3>1, <3>2, <3>3, <3>4, <3>5, <3>6 DEF Aside, PumpStep
  <2> QED  BY <2>1, <2>2, StepKinds
<1>2. host = "node" => ~Running'
  <2> SUFFICES ASSUME host = "node", ~Running PROVE ~Running'
    BY DEF GateInv
  <2>1. ASSUME NEW t \in Threads, BeginClose(t) \/ BeginBackground(t) \/ StopStep(t)
        PROVE  pump' = pump
    BY <2>1 DEF BeginClose, BeginBackground, StopStep, StoreClosed, StopPump, Join,
                TakeWatcher, FinishClose, TryLock, BackgroundTakes, BackgroundDrops, loopVars
  <2>2. CASE Aside
    <3> USE DEF Running, PlacesOK, loopVars
    <3>1. CASE Platform \/ Unpark \/ TakeFirst \/ SpawnPump \/ UNCHANGED watchVars
      BY <3>1 DEF Platform, Unpark, TakeFirst, SpawnPump, watchVars, pumpVars
    <3>2. CASE Top \/ HearSnapshot \/ HearFailure \/ HearEnd \/ HearNothing \/ Park
      BY <3>2 DEF Top, HearSnapshot, HearFailure, HearEnd, HearNothing, Park
    <3>3. CASE TellStop \/ Call \/ Post \/ ComesBack \/ LeaveLoop \/ PumpEnds
      BY <3>3 DEF TellStop, Call, Post, ComesBack, LeaveLoop, PumpEnds, AfterDelivery
    <3>4. CASE CallReturns \/ CloseInside \/ DropInside \/ LetsGo \/ RunPosted
      BY <3>4 DEF CallReturns, CloseInside, DropInside, LetsGo, RunPosted
    <3> QED  BY <2>2, <3>1, <3>2, <3>3, <3>4 DEF Aside, PumpStep
  <2> QED  BY <2>1, <2>2, StepKinds DEF Running
<1>3. host # "node" => posted' = 0
  <2> SUFFICES ASSUME host # "node", posted = 0 PROVE posted' = posted
    BY DEF GateInv
  <2>1. ASSUME NEW t \in Threads, BeginClose(t) \/ BeginBackground(t) \/ StopStep(t)
        PROVE  posted' = posted
    BY <2>1 DEF BeginClose, BeginBackground, StopStep, StoreClosed, StopPump, Join,
                TakeWatcher, FinishClose, TryLock, BackgroundTakes, BackgroundDrops, hostVars
  <2>2. CASE Aside
    <3> USE DEF hostVars
    <3>1. CASE Platform \/ Unpark \/ TakeFirst \/ SpawnPump \/ UNCHANGED watchVars
      BY <3>1 DEF Platform, Unpark, TakeFirst, SpawnPump, watchVars, pumpVars
    <3>2. CASE PumpStep
      BY <3>2 DEF PumpStep, Top, HearSnapshot, HearFailure, HearEnd, HearNothing, Park,
                  TellStop, Call, Post, ComesBack, LeaveLoop, PumpEnds
    <3>3. CASE CallReturns \/ CloseInside \/ DropInside \/ LetsGo
      BY <3>3 DEF CallReturns, CloseInside, DropInside, LetsGo
    <3>4. CASE RunPosted
      BY <3>4 DEF RunPosted
    <3> QED  BY <2>2, <3>1, <3>2, <3>3, <3>4 DEF Aside
  <2> QED  BY <2>1, <2>2, StepKinds
<1>4. ASSUME host = "node", open'
      PROVE  /\ \A t \in Threads :
                    pc'[t] \notin {"detached", "pump", "joining", "watcher", "dropping"}
             /\ closedBy' = {}
  <2>1. /\ \A t \in Threads :
               pc[t] \notin {"detached", "pump", "joining", "watcher", "dropping"}
        /\ closedBy = {} /\ ~Running
    BY <1>1, <1>4 DEF GateInv
  <2>2. CASE Aside
    BY <2>1, <2>2, AsideFacts DEF Running
  <2>3. ASSUME NEW t \in Threads, BeginClose(t) \/ BeginBackground(t) \/ StopStep(t)
        PROVE  /\ closedBy' = closedBy
               /\ \E where \in {"idle", "tries", "takes", "drops"} :
                     pc' = [pc EXCEPT ![t] = where]
    BY <1>4, <2>1, <2>3 DEF BeginClose, BeginBackground, StopStep, StoreClosed, StopPump,
          Join, TakeWatcher, FinishClose, TryLock, BackgroundTakes, BackgroundDrops,
          Releases, pastVars
  <2> QED  BY <2>1, <2>2, <2>3, StepKinds DEF PlacesOK
<1> QED  BY <1>1, <1>2, <1>3, <1>4 DEF GateInv

\* The stop is what the pump leaves with.
LEMMA SaidStep ==
    ASSUME PlacesOK, SaidInv, [PumpNext]_watchVars PROVE SaidInv'
<1> USE DEF SaidInv, Running, hostVars, innerVars, loopVars, pastVars
<1>1. CASE Platform \/ Unpark \/ UNCHANGED watchVars
  BY <1>1 DEF Platform, Unpark, watchVars, pumpVars
<1>2. CASE TakeFirst \/ SpawnPump
  BY <1>2 DEF TakeFirst, SpawnPump
<1>3. CASE Top \/ HearSnapshot \/ HearFailure \/ HearEnd \/ HearNothing
  BY <1>3 DEF Top, HearSnapshot, HearFailure, HearEnd, HearNothing, MayPoll
<1>4. CASE Park \/ TellStop
  BY <1>4 DEF Park, TellStop
<1>5. CASE Call \/ Post
  <2>1. pump = "deliver" /\ said = 0 /\ msg' = msg
    BY <1>5 DEF Call, Post
  <2>2. CASE msg = "stop"
    <3>1. CASE Call
      BY <2>1, <2>2, <3>1 DEF Call, Said
    <3>2. CASE Post
      BY <2>1, <2>2, <3>2 DEF Post, Said, AfterDelivery
    <3> QED  BY <1>5, <3>1, <3>2
  <2>3. CASE msg # "stop"
    BY <1>5, <2>1, <2>3 DEF Call, Post, Said
  <2> QED  BY <2>2, <2>3
<1>6. CASE ComesBack \/ LeaveLoop \/ PumpEnds
  BY <1>6 DEF ComesBack, LeaveLoop, PumpEnds
<1>7. CASE CallReturns \/ CloseInside
  BY <1>7 DEF CallReturns, CloseInside, AfterDelivery
<1>8. CASE DropInside \/ LetsGo \/ RunPosted
  BY <1>8 DEF DropInside, LetsGo, RunPosted
<1>9. ASSUME NEW t \in Threads, BeginClose(t) \/ BeginBackground(t) \/ StopStep(t)
      PROVE  UNCHANGED <<pump, msg, said>>
  BY <1>9 DEF BeginClose, BeginBackground, StopStep, StoreClosed, StopPump, Join,
              TakeWatcher, FinishClose, TryLock, BackgroundTakes, BackgroundDrops
<1> QED
  BY <1>1, <1>2, <1>3, <1>4, <1>5, <1>6, <1>7, <1>8, <1>9 DEF PumpNext, PumpStep, Platform

-----------------------------------------------------------------------------
(* The theorem.                                                            *)

\* The invariant holds at the start.
LEMMA PumpInvInit == Init /\ PumpInit => PumpInv
<1> SUFFICES ASSUME Init, PumpInit PROVE PumpInv
  OBVIOUS
<1>1. TypeOK /\ PumpTypeOK
  BY TypeInit, PumpTypeInit
<1>2. StartInv /\ HandleInv /\ PastInv
  BY DEF PumpInit, StartInv, HandleInv, PastInv, Started
<1>3. InsideInv /\ GateInv /\ SaidInv
  BY DEF PumpInit, InsideInv, GateInv, SaidInv, Running
<1> QED  BY <1>1, <1>2, <1>3 DEF PumpInv

\* The invariant is inductive.
LEMMA PumpInvStep == PumpInv /\ [PumpNext]_watchVars => PumpInv'
<1> SUFFICES ASSUME PumpInv, [PumpNext]_watchVars PROVE PumpInv'
  OBVIOUS
<1>1. TypeOK' /\ PumpTypeOK'
  BY PumpTypeStep, PumpStepsTheStream, TypeStep DEF PumpInv
<1>2. CountsOK /\ HostOK /\ LocksOK /\ PlacesOK
  BY TypeParts DEF PumpInv
<1>3. StartInv' /\ HandleInv' /\ PastInv'
  BY <1>2, StartStep, HandleStep, PastStep DEF PumpInv
<1>4. InsideInv' /\ GateInv' /\ SaidInv'
  BY <1>2, InsideStep, GateStep, SaidStep DEF PumpInv
<1> QED  BY <1>1, <1>3, <1>4 DEF PumpInv

\* on_change begins only while nobody has closed the watch.
LEMMA NobodyClosed ==
    ASSUME PumpInv, [PumpNext]_watchVars, CallBegins PROVE closedBy = {}
<1>1. PumpTypeOK /\ CountsOK /\ HostOK /\ PastInv /\ InsideInv /\ GateInv
  BY TypeParts DEF PumpInv
<1>2. CASE pump = "deliver"
  <2>1. closedBy \cap Threads = {} /\ PumpThread \notin closedBy
    BY <1>1, <1>2 DEF PastInv, InsideInv
  <2> QED  BY <1>1, <2>1 DEF HostOK
<1>3. CASE posted' < posted /\ open
  <2>1. posted # 0
    BY <1>1, <1>3, CountsStep DEF CountsOK, PumpInv
  <2> QED  BY <1>1, <1>3, <2>1 DEF GateInv, HostOK
<1> QED  BY <1>2, <1>3 DEF CallBegins

\* When a call of `close` has returned, on_change is not running and is not called
\* again (bindings/shared/src/lib.rs): in C, Python and Node, for any number of
\* threads that close and stop the watch at once, from within on_change too.
THEOREM ClosedIsQuiet == PumpSpec => NothingAfterClose
<1>1. Init /\ PumpInit => PumpInv
  BY PumpInvInit
<1>2. PumpInv /\ [PumpNext]_watchVars => PumpInv'
  BY PumpInvStep
<1>3. PumpInv => PumpTypeOK /\ (closedBy \cap Threads # {} => pump \notin {"calling", "away"})
  BY DEF PumpInv, PastInv
<1>4. PumpInv /\ [PumpNext]_watchVars => [CallBegins => closedBy = {}]_watchVars
  BY NobodyClosed
<1> QED  BY <1>1, <1>2, <1>3, <1>4, PTL DEF PumpSpec, NothingAfterClose

\* What was said stays said.
LEMMA SaidStays ==
    ASSUME [PumpNext]_watchVars, said \in {0, 1} PROVE said' \in {said, said + 1}
<1> USE DEF hostVars, innerVars, loopVars, pastVars
<1>1. CASE Call \/ Post
  BY <1>1 DEF Call, Post, Said
<1>2. CASE Platform \/ Unpark \/ UNCHANGED watchVars
  BY <1>2 DEF Platform, Unpark, watchVars, pumpVars
<1>3. CASE TakeFirst \/ SpawnPump
  BY <1>3 DEF TakeFirst, SpawnPump
<1>4. CASE Top \/ HearSnapshot \/ HearFailure \/ HearEnd \/ HearNothing
  BY <1>4 DEF Top, HearSnapshot, HearFailure, HearEnd, HearNothing
<1>5. CASE Park \/ TellStop \/ ComesBack \/ LeaveLoop \/ PumpEnds
  BY <1>5 DEF Park, TellStop, ComesBack, LeaveLoop, PumpEnds
<1>6. CASE CallReturns \/ CloseInside \/ DropInside \/ LetsGo \/ RunPosted
  BY <1>6 DEF CallReturns, CloseInside, DropInside, LetsGo, RunPosted
<1>7. ASSUME NEW t \in Threads, BeginClose(t) \/ BeginBackground(t) \/ StopStep(t)
      PROVE  UNCHANGED said
  BY <1>7 DEF BeginClose, BeginBackground, StopStep, StoreClosed, StopPump, Join,
              TakeWatcher, FinishClose, TryLock, BackgroundTakes, BackgroundDrops
<1> QED
  BY <1>1, <1>2, <1>3, <1>4, <1>5, <1>6, <1>7 DEF PumpNext, PumpStep, Platform

\* The stop of a watch that ended on its own is the last that on_change is handed
\* (bindings/shared/src/lib.rs): the third part of DeliversTheStream.
THEOREM TheStopIsLast == PumpSpec => [][pump' = "deliver" => said = 0]_watchVars
<1>1. Init /\ PumpInit => PumpInv
  BY PumpInvInit
<1>2. PumpInv /\ [PumpNext]_watchVars => PumpInv'
  BY PumpInvStep
<1>3. PumpInv /\ [PumpNext]_watchVars => [pump' = "deliver" => said = 0]_watchVars
  <2> SUFFICES ASSUME PumpInv, [PumpNext]_watchVars, pump' = "deliver" PROVE said = 0
    OBVIOUS
  <2>1. SaidInv /\ SaidInv'
    BY <1>2 DEF PumpInv
  <2>2. said' \in {said, said + 1}
    BY <2>1, SaidStays DEF SaidInv
  <2> QED  BY <2>1, <2>2 DEF SaidInv, Running
<1> QED  BY <1>1, <1>2, <1>3, PTL DEF PumpSpec

-----------------------------------------------------------------------------
(* The task of watch_channel: its inductive invariant.                     *)

BridgeInv == TypeOK /\ ReceiversAreCurrent

-----------------------------------------------------------------------------
(* The type, with the receivers.                                           *)

\* Who makes or drops a receiver may wake the task, and does nothing else to
\* the stream.
LEMMA WakesOnly ==
    ASSUME TypeOK, UNCHANGED <<current, queueVars, wakeVars, closed, dirty, healthVars,
                               construction, threadVars, heardVars>>,
           task' \in {"ready", task}
    PROVE  TypeOK'
BY DEF TypeOK, QueueTypeOK, StateTypeOK, HeardTypeOK, queueVars, wakeVars, healthVars,
       threadVars, heardVars

\* Every step but those of the receivers is a step of the stream, or none.
LEMMA BridgeStepKinds ==
    ASSUME [BridgeNext]_allVars
    PROVE  [Next]_vars \/ WatchChannel \/ DropReceiver
<1>1. CASE BackendNext
  BY <1>1 DEF BackendNext, Next
<1>2. CASE Poll \/ BridgeTask
  BY <1>2 DEF Poll, BridgeTask, EndsWithTheReceivers, Forward, ForwardQueued, Idle,
              EndsWithTheStream, Next, PollNext
<1>3. CASE CloneReceiver \/ UNCHANGED allVars
  BY <1>3 DEF CloneReceiver, allVars
<1> QED  BY <1>1, <1>2, <1>3 DEF BridgeNext

\* No step of the stream, the task or a receiver leaves the types.
LEMMA BridgeTypeStep == TypeOK /\ [BridgeNext]_allVars => TypeOK'
<1> SUFFICES ASSUME TypeOK, [BridgeNext]_allVars PROVE TypeOK'
  OBVIOUS
<1>1. CASE WatchChannel
  BY <1>1, WakesOnly DEF WatchChannel
<1>2. CASE DropReceiver
  BY <1>2, WakesOnly DEF DropReceiver
<1> QED  BY <1>1, <1>2, BridgeStepKinds, TypeStep

-----------------------------------------------------------------------------
(* The value in the channel.                                               *)

\* Entries that stay where they are leave a queued snapshot queued.
LEMMA SnapshotStays ==
    ASSUME QueueTypeOK, NEW error \in Failures, Failing(error)
    PROVE  SnapshotQueued => SnapshotQueued'
<1>1. /\ queue \in Seq(Item) /\ queue' \in Seq(Item)
      /\ Len(queue') \in {Len(queue), Len(queue) + 1}
      /\ \A i \in 1..Len(queue) : queue[i] = Snapshot => queue'[i] = Snapshot
  BY FailingFacts DEF QueueTypeOK
<1> QED  BY <1>1 DEF SnapshotQueued

\* An emit leaves a snapshot behind, however full the queue is.
LEMMA EmitQueues ==
    ASSUME QueueTypeOK, NEW config \in Configs, Emit(config)
    PROVE  SnapshotQueued'
<1>1. /\ Folded(queue) \in Seq(Item) /\ Folded(queue) # <<>>
      /\ Folded(queue)[Len(Folded(queue))] = Snapshot
  BY FoldedFacts DEF QueueTypeOK
<1>2. /\ queue' \in Seq(Item)
      /\ Len(queue') \in 1..MaxQueued
      /\ queue'[Len(queue')] = Snapshot
  BY <1>1, TrimmedFacts DEF Emit
<1> QED  BY <1>2 DEF SnapshotQueued

\* A failure that is taken from the queue takes no snapshot with it.
LEMMA TailKeepsSnapshots ==
    ASSUME QueueTypeOK, PollQueued, Head(queue) # Snapshot
    PROVE  SnapshotQueued => SnapshotQueued'
<1>1. /\ queue \in Seq(Item) /\ queue' \in Seq(Item) /\ Len(queue') = Len(queue) - 1
      /\ \A i \in 1..Len(queue') : queue'[i] = queue[i + 1]
      /\ Head(queue) = queue[1]
  BY HeadTailProperties DEF QueueTypeOK, PollQueued
<1>2. ASSUME NEW i \in 1..Len(queue), queue[i] = Snapshot
      PROVE  \E j \in 1..Len(queue') : queue'[j] = Snapshot
  <2>1. i # 1
    BY <1>1, <1>2
  <2>2. i - 1 \in 1..Len(queue') /\ (i - 1) + 1 = i
    BY <1>1, <2>1
  <2> QED  BY <1>1, <1>2, <2>2
<1> QED  BY <1>1, <1>2 DEF SnapshotQueued

\* The backend, which never touches the channel.
LEMMA BackendKeepsCurrent ==
    ASSUME TypeOK, ReceiversAreCurrent, BackendNext
    PROVE  ReceiversAreCurrent'
<1> USE DEF ReceiversAreCurrent, BackendNext, bridgeVars
<1>t. QueueTypeOK
  BY DEF TypeOK
<1>1. CASE UNCHANGED <<current, queue>>
  BY <1>1 DEF SnapshotQueued
<1>2. ASSUME NEW config \in Configs, Emit(config)
      PROVE  ReceiversAreCurrent'
  BY <1>t, <1>2, EmitQueues
<1>3. ASSUME NEW error \in Failures, Failing(error)
      PROVE  ReceiversAreCurrent'
  BY <1>t, <1>3, SnapshotStays DEF Failing
<1>4. CASE \E error \in Errors : Fail(error)
  BY <1>3, <1>4 DEF Fail, Failures
<1>5. CASE GuardFails
  BY <1>3, <1>5 DEF GuardFails, Failures
<1>6. ASSUME \/ \E health \in BackendHealth : SetConstructionHealth(health)
             \/ \E source \in Sources : Degrade(source)
             \/ MarkNoLiveNotifications \/ GuardMarks \/ Close \/ Return \/ Panic \/ Wake
      PROVE  UNCHANGED <<current, queue>>
  BY <1>6 DEF SetConstructionHealth, Degrade, MarkNoLiveNotifications, GuardMarks,
              MarkingNoLive, Close, Return, Panic, Wake, queueVars
<1> QED  BY <1>1, <1>2, <1>4, <1>5, <1>6 DEF Publish, Unwind

\* The task hands on every snapshot it takes, and no failure.
LEMMA TaskKeepsCurrent ==
    ASSUME TypeOK, ReceiversAreCurrent, BridgeTask
    PROVE  ReceiversAreCurrent'
<1>t. QueueTypeOK
  BY DEF TypeOK
<1>1. CASE EndsWithTheReceivers \/ EndsWithTheStream
  BY <1>1 DEF EndsWithTheReceivers, EndsWithTheStream, ReceiversAreCurrent
<1>2. CASE Idle
  BY <1>2 DEF Idle, PollPending, ReceiversAreCurrent, SnapshotQueued, bridgeVars, queueVars
<1>3. CASE Forward /\ PollDirty /\ published' = current
  BY <1>3 DEF PollDirty, ReceiversAreCurrent
<1>4. CASE Forward /\ ForwardQueued /\ Head(queue) = Snapshot
  BY <1>4 DEF ForwardQueued, PollQueued, ReceiversAreCurrent
<1>5. CASE Forward /\ ForwardQueued /\ Head(queue) # Snapshot
  <2>1. published' = published /\ current' = current /\ bridge' = bridge
    BY <1>5 DEF Forward, ForwardQueued, PollQueued
  <2>2. SnapshotQueued => SnapshotQueued'
    BY <1>t, <1>5, TailKeepsSnapshots DEF ForwardQueued
  <2> QED  BY <2>1, <2>2 DEF ReceiversAreCurrent
<1> QED  BY <1>1, <1>2, <1>3, <1>4, <1>5 DEF BridgeTask, Forward

\* The invariant is inductive.
LEMMA BridgeInvStep == BridgeInv /\ [BridgeNext]_allVars => BridgeInv'
<1> SUFFICES ASSUME TypeOK, ReceiversAreCurrent, [BridgeNext]_allVars
             PROVE  ReceiversAreCurrent'
  BY BridgeTypeStep DEF BridgeInv
<1>1. CASE BackendNext
  BY <1>1, BackendKeepsCurrent
<1>2. CASE Poll
  BY <1>2 DEF Poll, ReceiversAreCurrent, bridgeVars
<1>3. CASE WatchChannel
  BY <1>3 DEF WatchChannel, ReceiversAreCurrent
<1>4. CASE CloneReceiver \/ DropReceiver
  BY <1>4 DEF CloneReceiver, DropReceiver, ReceiversAreCurrent, SnapshotQueued, vars, queueVars
<1>5. CASE BridgeTask
  BY <1>5, TaskKeepsCurrent
<1>6. CASE UNCHANGED allVars
  BY <1>6 DEF allVars, vars, queueVars, bridgeVars, ReceiversAreCurrent, SnapshotQueued
<1> QED  BY <1>1, <1>2, <1>3, <1>4, <1>5, <1>6 DEF BridgeNext

\* The receivers of watch_channel hold the current configuration unless a
\* snapshot is still queued (src/src/bridge.rs), at any capacity of the queue
\* and whatever failures are dropped on the way.
THEOREM ReceiversStayCurrent == BridgeSpec => []ReceiversAreCurrent
<1>1. BridgeInit => BridgeInv
  BY TypeInit DEF BridgeInit, BridgeInv, ReceiversAreCurrent
<1>2. BridgeInv /\ [BridgeNext]_allVars => BridgeInv'
  BY BridgeInvStep
<1>3. BridgeInv => ReceiversAreCurrent
  BY DEF BridgeInv
<1> QED  BY <1>1, <1>2, <1>3, PTL DEF BridgeSpec

=============================================================================
