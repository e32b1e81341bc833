------------------------------ MODULE PacSlots ------------------------------
(***************************************************************************)
(* The evaluation slots of src/src/pac/budget.rs and the two evaluators    *)
(* that share them: QuickJS (src/src/pac/quickjs.rs), which hands a script *)
(* to a thread and gives up on it at the deadline, and the worker process  *)
(* of src/src/pac/subprocess.rs, which is killed at the deadline.          *)
(*                                                                         *)
(* A slot bounds what runs: it is taken before a script is started and     *)
(* freed when the script, or the worker and the name lookup it asked for,  *)
(* has ended, whoever still waits for the answer.                          *)
(***************************************************************************)
EXTENDS Integers, Sequences, SequencesExt, FiniteSets

CONSTANTS
    Calls,      \* callers of QuickJsEvaluator::evaluate
    Hosts,      \* callers of SubprocessEvaluator::evaluate
    Timed,      \* the callers whose policy has a timeout
    Threads,    \* evaluation threads, by the id NEXT_THREAD gave them
    Limit,      \* Slots::limit
    Foreign,    \* an idle entry of the process this one was forked from
    Nothing     \* no job, no thread, no answer

ASSUME CallersAssumption == Calls \cap Hosts = {} /\ Timed \subseteq Calls \cup Hosts
ASSUME LimitAssumption == Limit \in Nat \ {0}
ASSUME ThreadsAssumption == {Foreign, Nothing} \cap (Calls \cup Hosts \cup Threads) = {}
ASSUME FiniteAssumption == IsFiniteSet(Calls) /\ IsFiniteSet(Hosts) /\ IsFiniteSet(Threads)

\* A job whose caller gave up: its reply has no receiver.
Abandoned == "abandoned"

ASSUME JobsAssumption == Abandoned \notin Calls \cup {Nothing}

Callers == Calls \cup Hosts

VARIABLES
    taken,      \* Slots::taken
    notified,   \* the callers parked on `freed` that a notify_one has reached
    pc,         \* where each caller is
    idle,       \* Slots::idle, the last one on top
    popped,     \* the thread each caller took off the list
    thread,     \* where each evaluation thread is
    chan,       \* the job in each thread's channel
    job,        \* the job each thread has in hand
    answered,   \* the callers that have an answer, or its absence, to receive
    worker,     \* the worker process of each host
    talk,       \* the conversation thread of each host
    forked,     \* whether the process has forked; the child is what is looked at from then on
    lost        \* slots whose holders the child of the fork does not have

slotVars   == <<taken, notified>>
callVars   == <<pc, popped, answered>>
threadVars == <<idle, thread, chan, job>>
hostVars   == <<worker, talk>>
forkVars   == <<forked, lost>>
vars == <<slotVars, callVars, threadVars, hostVars, forkVars>>

Jobs == Calls \cup {Abandoned}

TypeOK ==
    /\ taken \in 0 .. Limit
    /\ notified \subseteq {c \in Callers : pc[c] = "parked"}
    /\ pc \in [Callers -> {"out", "waiting", "parked", "slot", "popped", "spawn",
                           "await", "reap", "letgo"}]
    /\ idle \in Seq(Threads \cup {Foreign})
    /\ popped \in [Calls -> Threads \cup {Nothing}]
    /\ thread \in [Threads -> {"none", "busy", "listed", "freed", "resting",
                               "lingered", "struck"}]
    /\ chan \in [Threads -> Jobs \cup {Nothing}]
    /\ job \in [Threads -> Jobs \cup {Nothing}]
    /\ answered \subseteq {c \in Callers : pc[c] = "await"}
    /\ worker \in [Hosts -> {"none", "up", "script", "asking", "done", "dead"}]
    /\ talk \in [Hosts -> {"none", "hello", "talking", "lookup", "sent"}]
    /\ forked \in BOOLEAN
    /\ lost \in 0 .. Limit

Init ==
    /\ taken = 0
    /\ notified = {}
    /\ pc = [c \in Callers |-> "out"]
    /\ idle = <<>>
    /\ popped = [c \in Calls |-> Nothing]
    /\ thread = [t \in Threads |-> "none"]
    /\ chan = [t \in Threads |-> Nothing]
    /\ job = [t \in Threads |-> Nothing]
    /\ answered = {}
    /\ worker = [h \in Hosts |-> "none"]
    /\ talk = [h \in Hosts |-> "none"]
    /\ forked = FALSE
    /\ lost = 0

-----------------------------------------------------------------------------
(* The slots.                                                              *)

\* A call begins: the deadline is computed before the slot is asked for.  A
\* host's last conversation may still be in a lookup; the next call of the
\* model waits for its end only because both have the same name.
Call(c) ==
    /\ pc[c] = "out"
    /\ c \in Hosts => talk[c] = "none"
    /\ pc' = [pc EXCEPT ![c] = "waiting"]
    /\ UNCHANGED <<slotVars, popped, answered, threadVars, hostVars, forkVars>>

\* The caller holds the mutex of `taken` and looks: on the way in, notified, or
\* because its deadline passed (wait_timeout).
Looks(c) ==
    \/ pc[c] = "waiting"
    \/ pc[c] = "parked" /\ c \in notified \cup Timed

\* A free slot is taken, by a caller that is late as well.
Acquire(c) ==
    /\ Looks(c)
    /\ taken < Limit
    /\ taken' = taken + 1
    /\ notified' = notified \ {c}
    /\ pc' = [pc EXCEPT ![c] = "slot"]
    /\ UNCHANGED <<popped, answered, threadVars, hostVars, forkVars>>

\* freed.wait: the mutex is given up and the caller parked in one step.
Park(c) ==
    /\ pc[c] = "waiting" \/ c \in notified
    /\ taken >= Limit
    /\ notified' = notified \ {c}
    /\ pc' = [pc EXCEPT ![c] = "parked"]
    /\ UNCHANGED <<taken, popped, answered, threadVars, hostVars, forkVars>>

\* PacSaturated: the deadline has passed, and every slot is taken.
Saturated(c) ==
    /\ c \in Timed
    /\ Looks(c)
    /\ taken >= Limit
    /\ notified' = notified \ {c}
    /\ pc' = [pc EXCEPT ![c] = "out"]
    /\ UNCHANGED <<taken, popped, answered, threadVars, hostVars, forkVars>>

\* Slot::drop that forgets those who wait.
FreeSlotSilently ==
    /\ taken' = taken - 1
    /\ UNCHANGED notified

\* Slot::drop: one of those parked is notified, and it may be one that was
\* notified before and has not run since.
FreeSlot ==
    /\ taken' = taken - 1
    /\ LET parked == {c \in Callers : pc[c] = "parked"} IN
       IF parked \subseteq notified
       THEN UNCHANGED notified
       ELSE \E c \in parked \ notified : notified' = notified \cup {c}

-----------------------------------------------------------------------------
(* QuickJS: Slots::dispatch and the wait for the answer.                   *)

Leave(c) == pc' = [pc EXCEPT ![c] = "out"]

\* The last thread to become idle is taken off the list; an entry that a fork
\* left behind is dropped, and the next one looked at.
Pop(c) ==
    /\ c \in Calls
    /\ pc[c] = "slot"
    /\ \/ /\ idle = <<>>
          /\ pc' = [pc EXCEPT ![c] = "spawn"]
          /\ UNCHANGED <<idle, popped>>
       \/ /\ idle # <<>>
          /\ Last(idle) = Foreign
          /\ idle' = Front(idle)
          /\ UNCHANGED <<pc, popped>>
       \/ /\ idle # <<>>
          /\ Last(idle) # Foreign
          /\ idle' = Front(idle)
          /\ pc' = [pc EXCEPT ![c] = "popped"]
          /\ popped' = [popped EXCEPT ![c] = Last(idle)]
    /\ UNCHANGED <<slotVars, answered, thread, chan, job, hostVars, forkVars>>

\* The thread's channel is empty and its receiver alive (JobsFindAThread), so
\* the send neither blocks nor fails.
Send(c) ==
    /\ pc[c] = "popped"
    /\ chan' = [chan EXCEPT ![popped[c]] = c]
    /\ popped' = [popped EXCEPT ![c] = Nothing]
    /\ pc' = [pc EXCEPT ![c] = "await"]
    /\ UNCHANGED <<slotVars, answered, idle, thread, job, hostVars, forkVars>>

\* A thread of its own, with the job in its channel.
Spawn(c) ==
    /\ pc[c] = "spawn"
    /\ \E t \in Threads :
        /\ thread[t] = "none"
        /\ \A u \in Threads : u < t => thread[u] # "none"
        /\ thread' = [thread EXCEPT ![t] = "resting"]
        /\ chan' = [chan EXCEPT ![t] = c]
    /\ pc' = [pc EXCEPT ![c] = "await"]
    /\ UNCHANGED <<slotVars, popped, answered, idle, job, hostVars, forkVars>>

\* The closure is dropped, and with it the job and its slot.
SpawnFails(c) ==
    /\ pc[c] = "spawn"
    /\ FreeSlot
    /\ Leave(c)
    /\ UNCHANGED <<popped, answered, threadVars, hostVars, forkVars>>

\* A call of QuickJS is over when its wait is; the worker is killed first.
WaitEnds(c) ==
    /\ answered' = answered \ {c}
    /\ IF c \in Calls THEN Leave(c) ELSE pc' = [pc EXCEPT ![c] = "reap"]

\* The answer, or the end of the thread that was to give it.
Answered(c) ==
    /\ c \in answered
    /\ WaitEnds(c)
    /\ UNCHANGED <<slotVars, popped, threadVars, hostVars, forkVars>>

\* PacTimeout.  recv_timeout takes an answer that is there at the deadline.  A
\* script goes on without its caller.
TimedOut(c) ==
    /\ c \in Timed \ answered
    /\ pc[c] = "await"
    /\ WaitEnds(c)
    /\ chan' = [t \in Threads |-> IF chan[t] = c THEN Abandoned ELSE chan[t]]
    /\ job' = [t \in Threads |-> IF job[t] = c THEN Abandoned ELSE job[t]]
    /\ UNCHANGED <<slotVars, popped, idle, thread, hostVars, forkVars>>

-----------------------------------------------------------------------------
(* QuickJS: Slots::work.                                                   *)

Receive(t) ==
    /\ thread[t] \in {"resting", "struck"}
    /\ chan[t] # Nothing
    /\ thread' = [thread EXCEPT ![t] = "busy"]
    /\ job' = [job EXCEPT ![t] = chan[t]]
    /\ chan' = [chan EXCEPT ![t] = Nothing]
    /\ UNCHANGED <<slotVars, callVars, idle, hostVars, forkVars>>

\* The script has ended: the thread is on the list before its slot is free.
Finish(t) ==
    /\ thread[t] = "busy"
    /\ thread' = [thread EXCEPT ![t] = "listed"]
    /\ idle' = Append(idle, t)
    /\ UNCHANGED <<slotVars, callVars, chan, job, hostVars, forkVars>>

GiveSlotBack(t) ==
    /\ thread[t] = "listed"
    /\ FreeSlot
    /\ thread' = [thread EXCEPT ![t] = "freed"]
    /\ UNCHANGED <<callVars, idle, chan, job, hostVars, forkVars>>

Reply(t) ==
    /\ thread[t] = "freed"
    /\ thread' = [thread EXCEPT ![t] = "resting"]
    /\ answered' = answered \cup ({job[t]} \cap Calls)
    /\ job' = [job EXCEPT ![t] = Nothing]
    /\ UNCHANGED <<slotVars, pc, popped, idle, chan, hostVars, forkVars>>

\* A job that panics takes the thread, the slot and the reply with it.
JobPanics(t) ==
    /\ thread[t] = "busy"
    /\ FreeSlot
    /\ thread' = [thread EXCEPT ![t] = "none"]
    /\ answered' = answered \cup ({job[t]} \cap Calls)
    /\ job' = [job EXCEPT ![t] = Nothing]
    /\ UNCHANGED <<pc, popped, idle, chan, hostVars, forkVars>>

\* recv_timeout finds nothing within `linger`.
Lingers(t) ==
    /\ thread[t] = "resting"
    /\ chan[t] = Nothing
    /\ thread' = [thread EXCEPT ![t] = "lingered"]
    /\ UNCHANGED <<slotVars, callVars, idle, chan, job, hostVars, forkVars>>

\* The thread ends without looking whether it was taken.
EndsAnyway(t) ==
    /\ thread[t] = "lingered"
    /\ idle' = Remove(idle, t)
    /\ thread' = [thread EXCEPT ![t] = "none"]
    /\ UNCHANGED <<slotVars, callVars, chan, job, hostVars, forkVars>>

\* Under the lock: a thread still on the list ends, and the last entry fills its
\* gap; one that a caller took off waits for the job that is on its way.
LooksForItself(t) ==
    /\ thread[t] = "lingered"
    /\ IF Contains(idle, t)
       THEN /\ idle' = Front([idle EXCEPT ![SelectInSeq(idle, LAMBDA u : u = t)] = Last(idle)])
            /\ thread' = [thread EXCEPT ![t] = "none"]
       ELSE /\ thread' = [thread EXCEPT ![t] = "struck"]
            /\ UNCHANGED idle
    /\ UNCHANGED <<slotVars, callVars, chan, job, hostVars, forkVars>>

-----------------------------------------------------------------------------
(* The worker process: SubprocessEvaluator::evaluate and converse.         *)

\* Worker::start; one that does not start costs the call its slot only.
StartWorker(h) ==
    /\ pc[h] = "slot"
    /\ \/ /\ worker' = [worker EXCEPT ![h] = "up"]
          /\ pc' = [pc EXCEPT ![h] = "spawn"]
          /\ UNCHANGED slotVars
       \/ /\ FreeSlot
          /\ Leave(h)
          /\ UNCHANGED worker
    /\ UNCHANGED <<popped, answered, threadVars, talk, forkVars>>

\* The thread of the conversation, with a share of the slot; one that cannot be
\* made leaves the worker to be reaped.
SpawnTalk(h) ==
    /\ h \in Hosts
    /\ pc[h] = "spawn"
    /\ \/ /\ talk' = [talk EXCEPT ![h] = "hello"]
          /\ pc' = [pc EXCEPT ![h] = "await"]
       \/ /\ pc' = [pc EXCEPT ![h] = "reap"]
          /\ UNCHANGED talk
    /\ UNCHANGED <<slotVars, popped, answered, threadVars, worker, forkVars>>

\* An answer or an error, for a caller that still waits.
Tell(h) ==
    /\ talk' = [talk EXCEPT ![h] = "sent"]
    /\ answered' = answered \cup {c \in {h} : pc[c] = "await"}

\* The worker has told how it is confined; the script is sent, or kept from a
\* worker that is not confined.
Hello(h) ==
    /\ talk[h] = "hello"
    /\ worker[h] = "up"
    /\ \/ /\ worker' = [worker EXCEPT ![h] = "script"]
          /\ talk' = [talk EXCEPT ![h] = "talking"]
          /\ UNCHANGED answered
       \/ /\ Tell(h)
          /\ UNCHANGED worker
    /\ UNCHANGED <<slotVars, pc, popped, threadVars, forkVars>>

\* A LOOKUP frame: the parent resolves the name for the worker, which waits.
Asks(h) ==
    /\ talk[h] = "talking"
    /\ worker[h] = "script"
    /\ talk' = [talk EXCEPT ![h] = "lookup"]
    /\ UNCHANGED <<slotVars, callVars, threadVars, worker, forkVars>>

\* The system resolver has answered; nobody may be there to read it.
LookupEnds(h) ==
    /\ talk[h] = "lookup"
    /\ IF worker[h] = "script"
       THEN /\ talk' = [talk EXCEPT ![h] = "talking"]
            /\ UNCHANGED answered
       ELSE Tell(h)
    /\ UNCHANGED <<slotVars, pc, popped, threadVars, worker, forkVars>>

\* A DONE or FAILED frame, or one that breaks the protocol.
Says(h) ==
    /\ talk[h] = "talking"
    /\ worker[h] = "script"
    /\ Tell(h)
    /\ UNCHANGED <<slotVars, pc, popped, threadVars, worker, forkVars>>

\* The worker dies by itself: its filter, its limits, the script.
WorkerDies(h) ==
    /\ worker[h] \in {"up", "script"}
    /\ worker' = [worker EXCEPT ![h] = "dead"]
    /\ UNCHANGED <<slotVars, callVars, threadVars, talk, forkVars>>

\* The pipes are closed: the read that the conversation is in fails.
PipesClose(h) ==
    /\ talk[h] \in {"hello", "talking"}
    /\ worker[h] \in {"dead", "none"}
    /\ Tell(h)
    /\ UNCHANGED <<slotVars, pc, popped, threadVars, worker, forkVars>>

\* Worker::drop: killed, and waited for.
Reap(h) ==
    /\ pc[h] = "reap"
    /\ worker' = [worker EXCEPT ![h] = "none"]
    /\ pc' = [pc EXCEPT ![h] = "letgo"]
    /\ UNCHANGED <<slotVars, popped, answered, threadVars, talk, forkVars>>

\* A slot that is the caller's alone, and not shared with the conversation.
LetGoOwned(h) ==
    /\ pc[h] = "letgo"
    /\ FreeSlot
    /\ Leave(h)
    /\ UNCHANGED <<popped, answered, threadVars, hostVars, forkVars>>

\* The conversation is joined first.
LetGoJoining(h) ==
    /\ pc[h] = "letgo"
    /\ talk[h] = "none"
    /\ FreeSlot
    /\ Leave(h)
    /\ UNCHANGED <<popped, answered, threadVars, hostVars, forkVars>>

\* The caller's share of the slot is dropped, after the worker and the receiver.
LetGo(h) ==
    /\ pc[h] = "letgo"
    /\ IF talk[h] = "none" THEN FreeSlot ELSE UNCHANGED slotVars
    /\ Leave(h)
    /\ UNCHANGED <<popped, answered, threadVars, hostVars, forkVars>>

\* The thread of the conversation ends, and with it its share of the slot.
TalkEnds(h) ==
    /\ talk[h] = "sent"
    /\ talk' = [talk EXCEPT ![h] = "none"]
    /\ IF pc[h] = "out" THEN FreeSlot ELSE UNCHANGED slotVars
    /\ UNCHANGED <<callVars, threadVars, worker, forkVars>>

-----------------------------------------------------------------------------
\* fork, called outside of an evaluation and while nobody holds a mutex of
\* Slots.  The child has the memory and none of the threads: neither the
\* evaluation threads nor the other callers.  What they held stays taken.
Fork ==
    /\ ~forked
    /\ forked' = TRUE
    /\ lost' = taken
    /\ idle' = [i \in DOMAIN idle |-> Foreign]
    /\ notified' = {}
    /\ pc' = [c \in Callers |-> "out"]
    /\ popped' = [c \in Calls |-> Nothing]
    /\ thread' = [t \in Threads |-> "none"]
    /\ chan' = [t \in Threads |-> Nothing]
    /\ job' = [t \in Threads |-> Nothing]
    /\ answered' = {}
    /\ worker' = [h \in Hosts |-> "none"]
    /\ talk' = [h \in Hosts |-> "none"]
    /\ UNCHANGED taken

\* A caller that acquires, or goes on from one of its two waits.
CallerStep(c) == Acquire(c) \/ Saturated(c) \/ Answered(c) \/ TimedOut(c)

CallStep(c) == Pop(c) \/ Send(c) \/ Spawn(c) \/ SpawnFails(c)

HostStep(h) == StartWorker(h) \/ SpawnTalk(h) \/ Reap(h) \/ LetGo(h)

TalkStep(h) == Hello(h) \/ PipesClose(h) \/ TalkEnds(h)

\* What an evaluation thread does besides running scripts.
ThreadStep(t) ==
    Receive(t) \/ GiveSlotBack(t) \/ Reply(t) \/ LooksForItself(t)

Next ==
    \/ \E c \in Callers : Call(c) \/ Park(c) \/ CallerStep(c)
    \/ \E c \in Calls : CallStep(c)
    \/ \E h \in Hosts :
        \/ HostStep(h) \/ TalkStep(h)
        \/ Asks(h) \/ LookupEnds(h) \/ Says(h) \/ WorkerDies(h)
    \/ \E t \in Threads :
        ThreadStep(t) \/ Finish(t) \/ JobPanics(t) \/ Lingers(t)
    \/ Fork

\* Threads run, and deadlines pass: a timed caller does not park for ever.  No
\* script, no worker and no lookup ever needs to end.
Fairness ==
    /\ \A c \in Callers : WF_vars(CallerStep(c))
    /\ \A c \in Calls : WF_vars(CallStep(c))
    /\ \A h \in Hosts : WF_vars(HostStep(h)) /\ WF_vars(TalkStep(h))
    /\ \A t \in Threads : WF_vars(ThreadStep(t))

Spec == Init /\ [][Next]_vars /\ Fairness

-----------------------------------------------------------------------------
(* Properties.                                                             *)

\* What holds a slot: a caller between acquire and the hand-over, a script that
\* is in a channel or runs, a worker's call from its start to the end of both
\* its caller and its conversation.
HandingOver == {c \in Calls : pc[c] \in {"slot", "popped", "spawn"}}
Scripts == {t \in Threads : thread[t] \in {"busy", "listed"}}
Queued == {t \in Threads : chan[t] # Nothing}
Conversations ==
    {h \in Hosts : pc[h] \in {"slot", "spawn", "await", "reap", "letgo"} \/ talk[h] # "none"}

\* The slots taken are those of the calls that are running, counted once each,
\* and in the child of a fork those of calls it does not have; a worker that
\* runs, and a name lookup that outlives its call, are among them; and the
\* evaluation threads, the idle ones included, stay within the limit
\* (budget.rs: Slot and line 36, subprocess.rs:155 and 222).
SlotsAreCounted ==
    /\ TypeOK
    /\ taken = lost + Cardinality(HandingOver) + Cardinality(Queued)
                    + Cardinality(Scripts) + Cardinality(Conversations)
    /\ taken <= Limit
    /\ \A h \in Hosts : worker[h] # "none" => h \in Conversations
    /\ Cardinality({t \in Threads : thread[t] # "none"}) <= Limit

\* Nobody sleeps beside a free slot: where callers are parked and slots free,
\* as many of the callers as there are slots have been woken, or all of them
\* (budget.rs: Slots::acquire, Slot::drop).
NoSleepBesideAFreeSlot ==
    LET parked == {c \in Callers : pc[c] = "parked"} IN
    \/ parked \subseteq notified
    \/ Cardinality(notified) >= Limit - taken

\* A job in a channel is there for a thread that will read it, and a thread
\* taken off the list is alive, its channel empty and the caller's alone, until
\* the job is sent, whenever its linger runs out and in the child of a fork
\* (budget.rs:152, 155 and 205).
JobsFindAThread ==
    /\ \A t \in Threads : chan[t] # Nothing => thread[t] # "none"
    /\ \A t \in Threads : thread[t] = "struck" =>
        chan[t] # Nothing \/ \E c \in Calls : popped[c] = t
    /\ \A c \in Calls : popped[c] # Nothing =>
        /\ popped[c] \in Threads
        /\ thread[popped[c]] \in {"listed", "freed", "resting", "lingered", "struck"}
        /\ chan[popped[c]] = Nothing
        /\ \A d \in Calls \ {c} : popped[d] # popped[c]

\* A call with a deadline returns, whatever its script, its worker and the
\* lookups do (budget.rs: run_with_timeout, subprocess.rs: evaluate).
EvaluationsReturn == \A c \in Timed : pc[c] # "out" ~> pc[c] = "out"

=============================================================================
