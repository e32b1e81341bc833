--------------------------- MODULE PacSlotsProofs ---------------------------
(***************************************************************************)
(* What the evaluation slots promise, for any number of callers, threads   *)
(* and slots: they are counted, a free one wakes a caller, and a job never *)
(* goes to a thread that ends.                                             *)
(***************************************************************************)
EXTENDS PacSlots, FiniteSetTheorems, SequenceTheorems, TLAPS

-----------------------------------------------------------------------------
(* Sequences.                                                              *)

\* Front drops the last element, and nothing else.
LEMMA FrontAndLast ==
    ASSUME NEW S, NEW s \in Seq(S), s # <<>>
    PROVE  /\ Len(s) \in Nat \ {0}
           /\ Last(s) = s[Len(s)]
           /\ Last(s) \in S
           /\ Front(s) \in Seq(S)
           /\ Len(Front(s)) = Len(s) - 1
           /\ \A i \in 1 .. Len(s) - 1 : Front(s)[i] = s[i]
<1>1. Len(s) \in Nat \ {0} /\ Last(s) = s[Len(s)] /\ Last(s) \in S
  BY DEF Last
<1> DEFINE n == Len(s) - 1
<1>2. n \in Nat /\ \A i \in 1 .. n : s[i] \in S
  BY <1>1
<1>3. Front(s) = SubSeq(s, 1, n)
  BY DEF Front
<1> HIDE DEF n
<1>4. /\ SubSeq(s, 1, n) \in Seq(S)
      /\ Len(SubSeq(s, 1, n)) = IF 1 <= n THEN n - 1 + 1 ELSE 0
      /\ \A i \in 1 .. n - 1 + 1 : SubSeq(s, 1, n)[i] = s[1 + i - 1]
  BY ONLY <1>2, SubSeqProperties
<1>5. (IF 1 <= n THEN n - 1 + 1 ELSE 0) = n /\ \A i \in 1 .. n : 1 + i - 1 = i
  BY <1>2
<1>6. n - 1 + 1 = n
  BY <1>2
<1>7. Len(SubSeq(s, 1, n)) = n /\ \A i \in 1 .. n : SubSeq(s, 1, n)[i] = s[i]
  BY ONLY Zenon, <1>4, <1>5, <1>6
<1> QED  BY ONLY Zenon, <1>1, <1>3, <1>4, <1>7 DEF n

\* The last entry fills the gap of one that is taken out (Vec::swap_remove).
LEMMA GapIsFilled ==
    ASSUME NEW S, NEW s \in Seq(S), NEW k \in 1 .. Len(s)
    PROVE  LET r == Front([s EXCEPT ![k] = Last(s)]) IN
           /\ r \in Seq(S)
           /\ Len(r) = Len(s) - 1
           /\ \A i \in 1 .. Len(s) - 1 : r[i] = IF i = k THEN s[Len(s)] ELSE s[i]
<1> DEFINE q == [s EXCEPT ![k] = Last(s)]
<1>1. s # <<>> /\ Last(s) = s[Len(s)] /\ Last(s) \in S
  BY FrontAndLast
<1>2. q \in Seq(S) /\ Len(q) = Len(s) /\ q # <<>>
  BY <1>1
<1>3. \A i \in 1 .. Len(s) : q[i] = IF i = k THEN s[Len(s)] ELSE s[i]
  BY <1>1
<1> HIDE DEF q
<1>4. Front(q) \in Seq(S) /\ Len(Front(q)) = Len(s) - 1
      /\ \A i \in 1 .. Len(s) - 1 : Front(q)[i] = q[i]
  BY <1>2, FrontAndLast
<1>5. \A i \in 1 .. Len(s) - 1 : Front(q)[i] = IF i = k THEN s[Len(s)] ELSE s[i]
  BY <1>3, <1>4
<1> QED  BY <1>4, <1>5 DEF q

-----------------------------------------------------------------------------
(* Callers, their jobs and their answers.                                  *)

Places == {"out", "waiting", "parked", "slot", "popped", "spawn", "await", "reap", "letgo"}

Parked == {c \in Callers : pc[c] = "parked"}
Awaiting == {c \in Callers : pc[c] = "await"}

\* Who is notified is parked, and who has an answer is waiting for it.
CallsInv ==
    /\ pc \in [Callers -> Places]
    /\ \A c \in Calls : pc[c] \notin {"reap", "letgo"}
    /\ \A h \in Hosts : pc[h] # "popped"
    /\ notified \subseteq Parked
    /\ answered \subseteq Awaiting

\* A job that is not abandoned is one thread's only, and its caller waits for
\* an answer it does not have yet.
JobsInv ==
    /\ chan \in [Threads -> Jobs \cup {Nothing}]
    /\ job \in [Threads -> Jobs \cup {Nothing}]
    /\ \A t \in Threads :
        /\ chan[t] \in Calls => chan[t] \in Awaiting \ answered
        /\ job[t] \in Calls => job[t] \in Awaiting \ answered
    /\ \A t, u \in Threads :
        /\ chan[t] \in Calls /\ chan[t] = chan[u] => t = u
        /\ job[t] \in Calls /\ job[t] = job[u] => t = u
        /\ chan[t] \in Calls => chan[t] # job[u]

\* A step of one caller that moves neither answers nor notifications.
LEMMA CallerMoves ==
    ASSUME CallsInv, NEW c \in Callers, NEW p \in Places,
           pc' = [pc EXCEPT ![c] = p],
           c \in Calls => p \notin {"reap", "letgo"},
           c \in Hosts => p # "popped",
           notified' \subseteq notified, answered' \subseteq answered,
           c \in notified' => p = "parked",
           c \in answered' => p = "await"
    PROVE  CallsInv'
<1>1. pc' \in [Callers -> Places] /\ \A d \in Callers : pc'[d] = IF d = c THEN p ELSE pc[d]
  BY DEF CallsInv
<1>2. \A d \in Calls : pc'[d] \notin {"reap", "letgo"}
  BY <1>1 DEF CallsInv, Callers
<1>3. \A h \in Hosts : pc'[h] # "popped"
  BY <1>1 DEF CallsInv, Callers
<1>4. notified' \subseteq Parked' /\ answered' \subseteq Awaiting'
  BY <1>1 DEF CallsInv, Parked, Awaiting
<1> QED  BY <1>1, <1>2, <1>3, <1>4 DEF CallsInv

\* A slot that is freed while a caller, or nobody, leaves.
LEMMA SlotFreed ==
    ASSUME CallsInv, FreeSlot, UNCHANGED answered,
           \/ UNCHANGED pc
           \/ \E c \in Callers : pc[c] \notin {"parked", "await"} /\ Leave(c)
    PROVE  CallsInv'
<1>1. notified' \subseteq Parked
  BY DEF FreeSlot, CallsInv, Parked
<1>2. CASE UNCHANGED pc
  BY <1>1, <1>2 DEF CallsInv, Parked, Awaiting
<1>3. ASSUME NEW c \in Callers, pc[c] \notin {"parked", "await"}, Leave(c) PROVE CallsInv'
  <2>1. pc' \in [Callers -> Places] /\ \A d \in Callers : pc'[d] = IF d = c THEN "out" ELSE pc[d]
    BY <1>3 DEF CallsInv, Leave, Places
  <2>2. \A d \in Calls : pc'[d] \notin {"reap", "letgo"}
    BY <2>1 DEF CallsInv, Callers
  <2>3. \A h \in Hosts : pc'[h] # "popped"
    BY <2>1 DEF CallsInv, Callers
  <2>4. notified' \subseteq Parked' /\ answered' \subseteq Awaiting'
    BY <1>1, <1>3, <2>1 DEF CallsInv, Parked, Awaiting
  <2> QED  BY <2>1, <2>2, <2>3, <2>4 DEF CallsInv
<1> QED  BY <1>2, <1>3

\* Answers for callers that wait for one.
LEMMA AnswersCome ==
    ASSUME CallsInv, UNCHANGED <<pc, notified>>, answered' \subseteq answered \cup Awaiting
    PROVE  CallsInv'
BY DEF CallsInv, Parked, Awaiting

\* Every step keeps callers, notifications and answers together.
LEMMA CallsStep == CallsInv /\ JobsInv /\ [Next]_vars => CallsInv'
<1> SUFFICES ASSUME CallsInv, JobsInv, [Next]_vars PROVE CallsInv'
  OBVIOUS
<1>1. ASSUME NEW c \in Callers, Call(c) \/ Park(c) \/ Acquire(c) \/ Saturated(c) PROVE CallsInv'
  <2>1. pc[c] \in {"out", "waiting", "parked"} /\ c \notin answered
    BY <1>1 DEF Call, Park, Acquire, Saturated, Looks, CallsInv, Parked, Awaiting
  <2>2. PICK p \in {"waiting", "parked", "slot", "out"} : pc' = [pc EXCEPT ![c] = p]
    BY <1>1 DEF Call, Park, Acquire, Saturated
  <2>3. notified' = notified \ {c} /\ answered' = answered
    <3>1. CASE Call(c)
      BY <3>1 DEF Call, CallsInv, Parked, slotVars
    <3>2. CASE Park(c) \/ Acquire(c) \/ Saturated(c)
      BY <3>2 DEF Park, Acquire, Saturated
    <3> QED  BY <1>1, <3>1, <3>2
  <2> QED  BY <2>1, <2>2, <2>3, CallerMoves DEF Places
<1>2. ASSUME NEW c \in Callers, Answered(c) \/ TimedOut(c) PROVE CallsInv'
  <2>1. /\ pc' = [pc EXCEPT ![c] = IF c \in Calls THEN "out" ELSE "reap"]
        /\ answered' = answered \ {c}
    BY <1>2 DEF Answered, TimedOut, WaitEnds, Leave
  <2>2. notified' = notified /\ c \notin notified
    BY <1>2 DEF Answered, TimedOut, CallsInv, Parked, Awaiting, slotVars
  <2>3. CASE c \in Calls
    <3>1. c \notin Hosts /\ pc' = [pc EXCEPT ![c] = "out"]
      BY <2>1, <2>3, CallersAssumption
    <3> QED  BY <2>1, <2>2, <3>1, CallerMoves DEF Places
  <2>4. CASE c \notin Calls
    <3>1. pc' = [pc EXCEPT ![c] = "reap"]
      BY <2>1, <2>4
    <3> QED  BY <2>1, <2>2, <2>4, <3>1, CallerMoves DEF Places
  <2> QED  BY <2>3, <2>4
<1>3. ASSUME NEW c \in Calls, Pop(c) \/ Send(c) \/ Spawn(c) PROVE CallsInv'
  <2>1. /\ c \in Callers /\ c \notin Hosts
        /\ c \notin notified /\ c \notin answered
        /\ UNCHANGED <<notified, answered>>
    BY <1>3, CallersAssumption DEF Pop, Send, Spawn, Callers, CallsInv, Parked, Awaiting, slotVars
  <2>2. UNCHANGED pc \/ \E p \in {"spawn", "popped", "await"} : pc' = [pc EXCEPT ![c] = p]
    BY <1>3 DEF Pop, Send, Spawn
  <2>3. CASE UNCHANGED pc
    BY <2>1, <2>3, AnswersCome
  <2> QED  BY <2>1, <2>2, <2>3, CallerMoves DEF Places
<1>4. ASSUME NEW c \in Calls, SpawnFails(c) PROVE CallsInv'
  BY <1>4, SlotFreed DEF SpawnFails, Callers
<1>5. ASSUME NEW h \in Hosts, StartWorker(h) \/ LetGo(h) PROVE CallsInv'
  <2>1. /\ h \in Callers /\ h \notin Calls
        /\ pc[h] \notin {"parked", "await"} /\ h \notin notified /\ h \notin answered
        /\ UNCHANGED answered
    BY <1>5, CallersAssumption DEF StartWorker, LetGo, Callers, CallsInv, Parked, Awaiting
  <2>2. CASE FreeSlot
    <3>1. Leave(h) \/ (UNCHANGED slotVars /\ pc' = [pc EXCEPT ![h] = "spawn"])
      BY <1>5 DEF StartWorker, LetGo
    <3> QED  BY <2>1, <2>2, <3>1, SlotFreed, CallerMoves DEF Places, slotVars
  <2>3. CASE UNCHANGED slotVars
    <3>1. \E p \in {"spawn", "out"} : pc' = [pc EXCEPT ![h] = p]
      BY <1>5 DEF StartWorker, LetGo, Leave
    <3> QED  BY <2>1, <2>3, <3>1, CallerMoves DEF Places, slotVars
  <2> QED  BY <1>5, <2>2, <2>3 DEF StartWorker, LetGo
<1>6. ASSUME NEW h \in Hosts, SpawnTalk(h) \/ Reap(h) PROVE CallsInv'
  <2>1. /\ h \in Callers /\ h \notin Calls
        /\ h \notin notified /\ h \notin answered
        /\ UNCHANGED <<notified, answered>>
    BY <1>6, CallersAssumption DEF SpawnTalk, Reap, Callers, CallsInv, Parked, Awaiting, slotVars
  <2>2. \E p \in {"await", "reap", "letgo"} : pc' = [pc EXCEPT ![h] = p]
    BY <1>6 DEF SpawnTalk, Reap
  <2> QED  BY <2>1, <2>2, CallerMoves DEF Places
<1>7. ASSUME NEW h \in Hosts, TalkEnds(h) PROVE CallsInv'
  <2>1. UNCHANGED <<pc, answered>> /\ (FreeSlot \/ UNCHANGED slotVars)
    BY <1>7 DEF TalkEnds, callVars
  <2> QED  BY <2>1, SlotFreed, AnswersCome DEF slotVars
<1>8. ASSUME NEW h \in Hosts,
             \/ Hello(h) \/ PipesClose(h) \/ Asks(h) \/ LookupEnds(h) \/ Says(h) \/ WorkerDies(h)
      PROVE  CallsInv'
  <2>1. UNCHANGED <<pc, notified>>
    BY <1>8 DEF Hello, PipesClose, Asks, LookupEnds, Says, WorkerDies, callVars, slotVars
  <2>2. Tell(h) => answered' \subseteq answered \cup Awaiting
    BY DEF Tell, Awaiting, Callers
  <2>3. Tell(h) \/ UNCHANGED answered
    BY <1>8 DEF Hello, PipesClose, Asks, LookupEnds, Says, WorkerDies, callVars
  <2> QED  BY <2>1, <2>2, <2>3, AnswersCome
<1>9. ASSUME NEW t \in Threads, Reply(t) \/ JobPanics(t) PROVE CallsInv'
  <2>1. {job[t]} \cap Calls \subseteq Awaiting
    BY DEF JobsInv
  <2>2. UNCHANGED pc /\ answered' \subseteq answered \cup Awaiting
    BY <1>9, <2>1 DEF Reply, JobPanics
  <2>3. notified' \subseteq Parked
    BY <1>9 DEF Reply, JobPanics, FreeSlot, CallsInv, Parked, slotVars
  <2> QED  BY <2>2, <2>3 DEF CallsInv, Parked, Awaiting
<1>10. ASSUME NEW t \in Threads,
              Receive(t) \/ GiveSlotBack(t) \/ LooksForItself(t) \/ Finish(t) \/ Lingers(t)
       PROVE  CallsInv'
  <2>1. UNCHANGED <<pc, answered>> /\ (FreeSlot \/ UNCHANGED slotVars)
    BY <1>10 DEF Receive, GiveSlotBack, LooksForItself, Finish, Lingers, callVars
  <2> QED  BY <2>1, SlotFreed, AnswersCome DEF slotVars
<1>11. CASE Fork
  BY <1>11 DEF Fork, CallsInv, Parked, Awaiting, Places, Callers
<1>12. CASE UNCHANGED vars
  BY <1>12, AnswersCome DEF vars, slotVars, callVars
<1> QED  BY <1>1, <1>2, <1>3, <1>4, <1>5, <1>6, <1>7, <1>8, <1>9, <1>10, <1>11, <1>12
         DEF Next, CallerStep, CallStep, HostStep, TalkStep, ThreadStep

\* A step that leaves the jobs alone, and the calls that wait for an answer.
LEMMA JobsKept ==
    ASSUME JobsInv, UNCHANGED <<chan, job>>,
           \A c \in Calls : c \in Awaiting \ answered => c \in (Awaiting \ answered)'
    PROVE  JobsInv'
BY DEF JobsInv

\* Every step keeps a job its caller's.
LEMMA JobsStep == CallsInv /\ JobsInv /\ [Next]_vars => JobsInv'
<1> SUFFICES ASSUME CallsInv, JobsInv, [Next]_vars PROVE JobsInv'
  OBVIOUS
<1>1. ASSUME NEW c \in Callers, Call(c) \/ Park(c) \/ Acquire(c) \/ Saturated(c) PROVE JobsInv'
  <2>1. UNCHANGED <<chan, job, answered>>
    BY <1>1 DEF Call, Park, Acquire, Saturated, threadVars
  <2>2. c \notin Awaiting
    BY <1>1 DEF Call, Park, Acquire, Saturated, Looks, CallsInv, Parked, Awaiting
  <2>3. \A d \in Callers \ {c} : pc'[d] = pc[d]
    BY <1>1 DEF Call, Park, Acquire, Saturated, CallsInv
  <2> QED  BY <2>1, <2>2, <2>3, JobsKept DEF Awaiting
<1>2. ASSUME NEW c \in Callers, Answered(c) PROVE JobsInv'
  <2>1. UNCHANGED <<chan, job>> /\ c \in answered /\ answered' = answered \ {c}
    BY <1>2 DEF Answered, WaitEnds, threadVars
  <2>2. \A d \in Callers \ {c} : pc'[d] = pc[d]
    BY <1>2 DEF Answered, WaitEnds, Leave, CallsInv
  <2> QED  BY <2>1, <2>2, JobsKept DEF Awaiting
<1>3. ASSUME NEW c \in Callers, TimedOut(c) PROVE JobsInv'
  <2>1. /\ chan' = [t \in Threads |-> IF chan[t] = c THEN Abandoned ELSE chan[t]]
        /\ job' = [t \in Threads |-> IF job[t] = c THEN Abandoned ELSE job[t]]
        /\ answered' = answered \ {c}
    BY <1>3 DEF TimedOut, WaitEnds
  <2>2. \A d \in Callers \ {c} : pc'[d] = pc[d]
    BY <1>3 DEF TimedOut, WaitEnds, Leave, CallsInv
  <2>3. \A d \in Awaiting \ answered : d # c => d \in (Awaiting \ answered)'
    BY <2>1, <2>2 DEF Awaiting
  <2>4. /\ chan' \in [Threads -> Jobs \cup {Nothing}]
        /\ job' \in [Threads -> Jobs \cup {Nothing}]
    BY <2>1 DEF JobsInv, Jobs
  <2>5. \A t \in Threads : /\ chan'[t] \in Calls => chan'[t] = chan[t] /\ chan[t] # c
                           /\ job'[t] \in Calls => job'[t] = job[t] /\ job[t] # c
    BY <2>1, JobsAssumption
  <2> QED  BY <2>3, <2>4, <2>5 DEF JobsInv
<1>4. ASSUME NEW c \in Calls, Send(c) PROVE JobsInv'
  <2>1. /\ chan' = [chan EXCEPT ![popped[c]] = c] /\ UNCHANGED <<job, answered>>
        /\ pc[c] = "popped" /\ pc' = [pc EXCEPT ![c] = "await"] /\ c \in Callers
    BY <1>4 DEF Send, Callers
  <2>2. /\ c \notin Awaiting /\ c \notin answered /\ c \in Awaiting'
        /\ Awaiting \subseteq Awaiting'
    BY <2>1 DEF CallsInv, Awaiting
  <2>3. \A t \in Threads : chan[t] # c /\ job[t] # c
    BY <2>2 DEF JobsInv
  <2>4. chan' \in [Threads -> Jobs \cup {Nothing}]
    BY <2>1 DEF JobsInv, Jobs
  <2>5. \A t \in Threads : chan'[t] = IF t = popped[c] THEN c ELSE chan[t]
    BY <2>1 DEF JobsInv
  <2> QED  BY <2>1, <2>2, <2>3, <2>4, <2>5 DEF JobsInv
<1>5. ASSUME NEW c \in Calls, Spawn(c) PROVE JobsInv'
  <2>1. PICK t \in Threads : chan' = [chan EXCEPT ![t] = c]
    BY <1>5 DEF Spawn
  <2>2. /\ UNCHANGED <<job, answered>> /\ c \in Callers
        /\ pc[c] = "spawn" /\ pc' = [pc EXCEPT ![c] = "await"]
    BY <1>5 DEF Spawn, Callers
  <2>3. /\ c \notin Awaiting /\ c \notin answered /\ c \in Awaiting'
        /\ Awaiting \subseteq Awaiting'
    BY <2>2 DEF CallsInv, Awaiting
  <2>4. \A u \in Threads : chan[u] # c /\ job[u] # c
    BY <2>3 DEF JobsInv
  <2>5. chan' \in [Threads -> Jobs \cup {Nothing}]
    BY <2>1 DEF JobsInv, Jobs
  <2>6. \A u \in Threads : chan'[u] = IF u = t THEN c ELSE chan[u]
    BY <2>1 DEF JobsInv
  <2> QED  BY <2>2, <2>3, <2>4, <2>5, <2>6 DEF JobsInv
<1>6. ASSUME NEW c \in Calls, Pop(c) \/ SpawnFails(c) PROVE JobsInv'
  <2>1. UNCHANGED <<chan, job, answered>> /\ c \notin Awaiting
    BY <1>6 DEF Pop, SpawnFails, threadVars, Awaiting
  <2>2. \A d \in Callers \ {c} : pc'[d] = pc[d]
    BY <1>6 DEF Pop, SpawnFails, Leave, CallsInv
  <2> QED  BY <2>1, <2>2, JobsKept DEF Awaiting
<1>7. ASSUME NEW h \in Hosts, StartWorker(h) \/ SpawnTalk(h) \/ Reap(h) \/ LetGo(h) PROVE JobsInv'
  <2>1. UNCHANGED <<chan, job, answered>> /\ h \notin Awaiting
    BY <1>7 DEF StartWorker, SpawnTalk, Reap, LetGo, threadVars, Awaiting
  <2>2. \A d \in Callers \ {h} : pc'[d] = pc[d]
    BY <1>7 DEF StartWorker, SpawnTalk, Reap, LetGo, Leave, CallsInv
  <2> QED  BY <2>1, <2>2, JobsKept DEF Awaiting
<1>8. ASSUME NEW h \in Hosts,
             \/ Hello(h) \/ PipesClose(h) \/ TalkEnds(h)
             \/ Asks(h) \/ LookupEnds(h) \/ Says(h) \/ WorkerDies(h)
      PROVE  JobsInv'
  <2>1. UNCHANGED <<chan, job, pc>>
    BY <1>8 DEF Hello, PipesClose, TalkEnds, Asks, LookupEnds, Says, WorkerDies, threadVars, callVars
  <2>2. UNCHANGED answered \/ Tell(h)
    BY <1>8 DEF Hello, PipesClose, TalkEnds, Asks, LookupEnds, Says, WorkerDies, callVars
  <2>3. answered' \subseteq answered \cup {h}
    BY <2>2 DEF Tell
  <2>4. \A c \in Calls : c # h
    BY CallersAssumption
  <2> QED  BY <2>1, <2>3, <2>4, JobsKept DEF Awaiting
<1>9. ASSUME NEW t \in Threads, Receive(t) PROVE JobsInv'
  <2>1. /\ chan[t] # Nothing /\ UNCHANGED <<pc, answered>>
        /\ job' = [job EXCEPT ![t] = chan[t]]
        /\ chan' = [chan EXCEPT ![t] = Nothing]
    BY <1>9 DEF Receive, callVars
  <2>2. /\ chan' \in [Threads -> Jobs \cup {Nothing}]
        /\ job' \in [Threads -> Jobs \cup {Nothing}]
    BY <2>1 DEF JobsInv
  <2>3. /\ Nothing \notin Calls
        /\ \A u \in Threads : /\ chan'[u] = IF u = t THEN Nothing ELSE chan[u]
                              /\ job'[u] = IF u = t THEN chan[t] ELSE job[u]
    BY <2>1, ThreadsAssumption DEF JobsInv
  <2>4. (Awaiting \ answered)' = Awaiting \ answered
    BY <2>1 DEF Awaiting
  <2>5. \A u \in Threads : /\ chan'[u] \in Calls => chan'[u] \in (Awaiting \ answered)'
                           /\ job'[u] \in Calls => job'[u] \in (Awaiting \ answered)'
    BY <2>3, <2>4 DEF JobsInv
  <2>6. \A u, v \in Threads :
            /\ chan'[u] \in Calls /\ chan'[u] = chan'[v] => u = v
            /\ job'[u] \in Calls /\ job'[u] = job'[v] => u = v
            /\ chan'[u] \in Calls => chan'[u] # job'[v]
    BY <2>3 DEF JobsInv
  <2> QED  BY <2>2, <2>5, <2>6 DEF JobsInv
<1>10. ASSUME NEW t \in Threads, Reply(t) \/ JobPanics(t) PROVE JobsInv'
  <2>1. /\ UNCHANGED <<chan, pc>> /\ job' = [job EXCEPT ![t] = Nothing]
        /\ answered' = answered \cup ({job[t]} \cap Calls)
    BY <1>10 DEF Reply, JobPanics
  <2>2. /\ Nothing \notin Calls /\ job' \in [Threads -> Jobs \cup {Nothing}]
        /\ \A u \in Threads : job'[u] = IF u = t THEN Nothing ELSE job[u]
    BY <2>1, ThreadsAssumption DEF JobsInv
  <2>3. \A u \in Threads : /\ chan'[u] \in Calls => chan'[u] # job[t]
                           /\ job'[u] \in Calls => job'[u] # job[t]
    BY <2>1, <2>2 DEF JobsInv
  <2>4. \A c \in Awaiting \ answered : c # job[t] => c \in (Awaiting \ answered)'
    BY <2>1 DEF Awaiting
  <2> QED  BY <2>1, <2>2, <2>3, <2>4 DEF JobsInv
<1>11. ASSUME NEW t \in Threads,
              GiveSlotBack(t) \/ LooksForItself(t) \/ Finish(t) \/ Lingers(t)
       PROVE  JobsInv'
  <2>1. UNCHANGED <<chan, job, pc, answered>>
    BY <1>11 DEF GiveSlotBack, LooksForItself, Finish, Lingers, callVars
  <2> QED  BY <2>1, JobsKept DEF Awaiting
<1>12. CASE Fork
  BY <1>12, ThreadsAssumption DEF Fork, JobsInv
<1>13. CASE UNCHANGED vars
  <2>1. UNCHANGED <<chan, job, pc, answered>>
    BY <1>13 DEF vars, callVars, threadVars
  <2> QED  BY <2>1, JobsKept DEF Awaiting
<1> QED  BY <1>1, <1>2, <1>3, <1>4, <1>5, <1>6, <1>7, <1>8, <1>9, <1>10, <1>11, <1>12, <1>13
         DEF Next, CallerStep, CallStep, HostStep, TalkStep, ThreadStep

-----------------------------------------------------------------------------
(* The list of idle threads.                                               *)

OnList(t) == \E i \in 1 .. Len(idle) : idle[i] = t
TakenOff(t) == \E c \in Calls : popped[c] = t

\* A thread is on the list once, and no caller has it; it waits for a job that
\* is not there yet, or is about to.
ListInv ==
    /\ idle \in Seq(Threads \cup {Foreign})
    /\ \A i, j \in 1 .. Len(idle) : idle[i] = idle[j] /\ idle[i] # Foreign => i = j
    /\ \A t \in Threads : OnList(t) =>
        thread[t] \in {"listed", "freed", "resting", "lingered"} /\ chan[t] = Nothing /\ ~TakenOff(t)

\* A thread that is off the list has been taken off for a job, and reads it.
TakenInv ==
    /\ thread \in [Threads -> {"none", "busy", "listed", "freed", "resting", "lingered", "struck"}]
    /\ popped \in [Calls -> Threads \cup {Nothing}]
    /\ \A c \in Calls : pc[c] = "popped" <=> popped[c] # Nothing
    /\ \A c, d \in Calls : popped[c] = popped[d] /\ popped[c] # Nothing => c = d
    /\ \A t \in Threads :
        /\ thread[t] \in {"none", "busy"} => chan[t] = Nothing /\ ~TakenOff(t)
        /\ thread[t] \notin {"none", "busy"} => OnList(t) \/ chan[t] # Nothing \/ TakenOff(t)
        /\ TakenOff(t) => chan[t] = Nothing

SlotInv == CallsInv /\ JobsInv /\ ListInv /\ TakenInv

\* A step that leaves the list, the channels and who has been taken off alone.
LEMMA ListKept ==
    ASSUME SlotInv, UNCHANGED <<idle, popped, chan>>,
           thread' \in [Threads -> {"none", "busy", "listed", "freed", "resting",
                                    "lingered", "struck"}],
           \A c \in Calls : pc'[c] = "popped" <=> pc[c] = "popped",
           \A t \in Threads : \/ thread'[t] = thread[t]
                              \/ {thread[t], thread'[t]} \subseteq {"listed", "freed", "resting", "lingered"}
    PROVE  ListInv' /\ TakenInv'
<1>1. \A t \in Threads : (OnList(t)' <=> OnList(t)) /\ (TakenOff(t)' <=> TakenOff(t))
  BY DEF OnList, TakenOff
<1>2. ListInv'
  BY <1>1 DEF SlotInv, ListInv
<1>3. TakenInv'
  BY <1>1 DEF SlotInv, TakenInv
<1> QED  BY <1>2, <1>3

\* The steps of the hosts, and the first ones of a call.
LEMMA ListBeside ==
    ASSUME SlotInv, UNCHANGED <<idle, popped, chan, thread>>,
           NEW c \in Callers, pc[c] # "popped",
           \E p \in Places \ {"popped"} : pc' = [pc EXCEPT ![c] = p]
    PROVE  ListInv' /\ TakenInv'
<1>1. \A d \in Calls : pc'[d] = "popped" <=> pc[d] = "popped"
  BY DEF SlotInv, CallsInv, Callers
<1> QED  BY <1>1, ListKept DEF SlotInv, TakenInv

\* A caller that takes no thread leaves the list alone.
LEMMA ListStepCallers ==
    ASSUME SlotInv, NEW c \in Callers,
           Call(c) \/ Park(c) \/ Acquire(c) \/ Saturated(c) \/ Answered(c)
    PROVE  ListInv' /\ TakenInv'
<1>1. UNCHANGED <<idle, popped, chan, thread>>
  BY DEF Call, Park, Acquire, Saturated, Answered, threadVars
<1>2. pc[c] # "popped"
  BY DEF Call, Park, Acquire, Saturated, Answered, Looks, SlotInv, CallsInv, Parked, Awaiting
<1>3. CASE Answered(c)
  <2>1. pc' = [pc EXCEPT ![c] = "out"] \/ pc' = [pc EXCEPT ![c] = "reap"]
    BY <1>3 DEF Answered, WaitEnds, Leave
  <2> QED  BY <1>1, <1>2, <2>1, ListBeside DEF Places
<1>4. CASE Call(c) \/ Park(c) \/ Acquire(c) \/ Saturated(c)
  <2>1. \E p \in {"waiting", "parked", "slot", "out"} : pc' = [pc EXCEPT ![c] = p]
    BY <1>4 DEF Call, Park, Acquire, Saturated
  <2> QED  BY <1>1, <1>2, <2>1, ListBeside DEF Places
<1> QED  BY <1>3, <1>4

\* A job that is abandoned stays where it is.
LEMMA ListStepTimedOut ==
    ASSUME SlotInv, NEW c \in Callers, TimedOut(c)
    PROVE  ListInv' /\ TakenInv'
<1>1. /\ chan' = [t \in Threads |-> IF chan[t] = c THEN Abandoned ELSE chan[t]]
      /\ UNCHANGED <<idle, popped, thread>> /\ pc[c] = "await"
  BY DEF TimedOut
<1>2. \A d \in Calls : pc'[d] = "popped" <=> pc[d] = "popped"
  BY <1>1 DEF TimedOut, WaitEnds, Leave, SlotInv, CallsInv, Callers
<1>3. \A t \in Threads : chan'[t] = Nothing <=> chan[t] = Nothing
  BY <1>1, JobsAssumption, ThreadsAssumption DEF Callers
<1>4. \A t \in Threads : (OnList(t)' <=> OnList(t)) /\ (TakenOff(t)' <=> TakenOff(t))
  BY <1>1 DEF OnList, TakenOff
<1>5. ListInv'
  BY <1>1, <1>3, <1>4 DEF SlotInv, ListInv
<1>6. TakenInv'
  BY <1>1, <1>2, <1>3, <1>4 DEF SlotInv, TakenInv
<1> QED  BY <1>5, <1>6

\* The last thread of the list becomes the caller's, or an entry of the parent's is dropped.
LEMMA ListStepPop ==
    ASSUME SlotInv, NEW c \in Calls, Pop(c)
    PROVE  ListInv' /\ TakenInv'
<1>1. c \in Callers /\ pc[c] = "slot" /\ UNCHANGED <<chan, thread>>
  BY DEF Pop, Callers
<1>2. CASE idle = <<>>
  <2>1. UNCHANGED <<idle, popped>> /\ pc' = [pc EXCEPT ![c] = "spawn"]
    BY <1>2 DEF Pop
  <2> QED  BY <1>1, <2>1, ListBeside DEF Places
<1>3. CASE idle # <<>>
  <2> DEFINE n == Len(idle)
  <2>1. /\ idle \in Seq(Threads \cup {Foreign})
        /\ n \in Nat \ {0} /\ Last(idle) = idle[n] /\ Last(idle) \in Threads \cup {Foreign}
        /\ idle' = Front(idle) /\ idle' \in Seq(Threads \cup {Foreign}) /\ Len(idle') = n - 1
        /\ \A i \in 1 .. n - 1 : idle'[i] = idle[i]
    BY <1>3, FrontAndLast DEF Pop, SlotInv, ListInv
  <2>2. \A i, j \in 1 .. Len(idle') : idle'[i] = idle'[j] /\ idle'[i] # Foreign => i = j
    BY <2>1 DEF SlotInv, ListInv
  <2>3. \A t \in Threads : OnList(t)' => OnList(t) /\ t # Last(idle)
    BY <2>1, ThreadsAssumption DEF OnList, SlotInv, ListInv
  <2>4. \A t \in Threads : OnList(t) /\ t # Last(idle) => OnList(t)'
    BY <2>1 DEF OnList
  <2>5. CASE Last(idle) = Foreign
    <3>1. UNCHANGED <<pc, popped>> /\ \A t \in Threads : t # Foreign
      BY <1>3, <2>5, ThreadsAssumption DEF Pop
    <3>2. \A t \in Threads : (OnList(t)' <=> OnList(t)) /\ (TakenOff(t)' <=> TakenOff(t))
      BY <2>3, <2>4, <2>5, <3>1 DEF TakenOff
    <3>3. ListInv'
      BY <1>1, <2>1, <2>2, <3>2 DEF SlotInv, ListInv
    <3>4. TakenInv'
      BY <1>1, <3>1, <3>2 DEF SlotInv, TakenInv
    <3> QED  BY <3>3, <3>4
  <2>6. CASE Last(idle) # Foreign
    <3> DEFINE u == Last(idle)
    <3>1. /\ u \in Threads /\ u # Nothing
          /\ pc' = [pc EXCEPT ![c] = "popped"] /\ popped' = [popped EXCEPT ![c] = u]
      BY <1>3, <2>1, <2>6, ThreadsAssumption DEF Pop
    <3>2. OnList(u)
      BY <2>1 DEF OnList
    <3> HIDE DEF u
    <3>3. thread[u] \notin {"none", "busy"} /\ chan[u] = Nothing /\ ~TakenOff(u)
      BY <3>1, <3>2 DEF SlotInv, ListInv
    <3>4. \A d \in Calls : popped'[d] = IF d = c THEN u ELSE popped[d]
      BY <3>1 DEF SlotInv, TakenInv
    <3>5. popped[c] = Nothing
      BY <1>1 DEF SlotInv, TakenInv
    <3>6. \A t \in Threads : TakenOff(t)' <=> (t = u \/ TakenOff(t))
      BY <3>1, <3>4, <3>5, ThreadsAssumption DEF TakenOff
    <3>7. \A t \in Threads : OnList(t)' <=> (OnList(t) /\ t # u)
      BY <2>3, <2>4 DEF u
    <3>8. ListInv'
      <4>1. \A t \in Threads : OnList(t)' =>
              thread'[t] \in {"listed", "freed", "resting", "lingered"} /\ chan'[t] = Nothing /\ ~TakenOff(t)'
        BY <1>1, <3>6, <3>7 DEF SlotInv, ListInv
      <4> QED  BY <2>1, <2>2, <4>1 DEF ListInv
    <3>9. TakenInv'
      <4>1. popped' \in [Calls -> Threads \cup {Nothing}]
        BY <3>1 DEF SlotInv, TakenInv
      <4>2. \A d \in Calls : pc'[d] = "popped" <=> popped'[d] # Nothing
        BY <1>1, <3>1, <3>4 DEF SlotInv, TakenInv, CallsInv, Callers
      <4>3. \A d, e \in Calls : popped'[d] = popped'[e] /\ popped'[d] # Nothing => d = e
        BY <3>3, <3>4 DEF SlotInv, TakenInv, TakenOff
      <4>4. \A t \in Threads :
              /\ thread'[t] \in {"none", "busy"} => chan'[t] = Nothing /\ ~TakenOff(t)'
              /\ thread'[t] \notin {"none", "busy"} => OnList(t)' \/ chan'[t] # Nothing \/ TakenOff(t)'
              /\ TakenOff(t)' => chan'[t] = Nothing
        BY <1>1, <3>3, <3>6, <3>7 DEF SlotInv, TakenInv
      <4> QED  BY <1>1, <4>1, <4>2, <4>3, <4>4 DEF TakenInv, SlotInv
    <3> QED  BY <3>8, <3>9
  <2> QED  BY <2>5, <2>6
<1> QED  BY <1>2, <1>3

\* The thread that was taken off gets its job.
LEMMA ListStepSend ==
    ASSUME SlotInv, NEW c \in Calls, Send(c)
    PROVE  ListInv' /\ TakenInv'
<1> DEFINE u == popped[c]
<1>1. /\ c \in Callers /\ pc[c] = "popped" /\ pc' = [pc EXCEPT ![c] = "await"]
      /\ chan' = [chan EXCEPT ![u] = c] /\ popped' = [popped EXCEPT ![c] = Nothing]
      /\ UNCHANGED <<idle, thread>>
  BY DEF Send, Callers
<1>2. u \in Threads /\ TakenOff(u) /\ c # Nothing
  BY <1>1, ThreadsAssumption DEF SlotInv, TakenInv, TakenOff
<1>3. ~OnList(u) /\ thread[u] \notin {"none", "busy"}
  BY <1>2 DEF SlotInv, ListInv, TakenInv
<1>4. /\ \A d \in Calls : popped'[d] = IF d = c THEN Nothing ELSE popped[d]
      /\ \A t \in Threads : chan'[t] = IF t = u THEN c ELSE chan[t]
  BY <1>1 DEF SlotInv, TakenInv, JobsInv
<1>5. \A t \in Threads : (OnList(t)' <=> OnList(t)) /\ (TakenOff(t)' <=> (TakenOff(t) /\ t # u))
  BY <1>1, <1>2, <1>4, ThreadsAssumption DEF OnList, TakenOff, SlotInv, TakenInv
<1>6. ListInv'
  <2>1. \A t \in Threads : OnList(t)' =>
          thread'[t] \in {"listed", "freed", "resting", "lingered"} /\ chan'[t] = Nothing /\ ~TakenOff(t)'
    BY <1>1, <1>3, <1>4, <1>5 DEF SlotInv, ListInv
  <2> QED  BY <1>1, <2>1 DEF SlotInv, ListInv
<1>7. TakenInv'
  <2>1. popped' \in [Calls -> Threads \cup {Nothing}]
    BY <1>1 DEF SlotInv, TakenInv
  <2>2. \A d \in Calls : pc'[d] = "popped" <=> popped'[d] # Nothing
    BY <1>1, <1>4 DEF SlotInv, TakenInv, CallsInv, Callers
  <2>3. \A d, e \in Calls : popped'[d] = popped'[e] /\ popped'[d] # Nothing => d = e
    BY <1>4 DEF SlotInv, TakenInv
  <2>4. \A t \in Threads :
          /\ thread'[t] \in {"none", "busy"} => chan'[t] = Nothing /\ ~TakenOff(t)'
          /\ thread'[t] \notin {"none", "busy"} => OnList(t)' \/ chan'[t] # Nothing \/ TakenOff(t)'
          /\ TakenOff(t)' => chan'[t] = Nothing
    BY <1>1, <1>2, <1>3, <1>4, <1>5 DEF SlotInv, TakenInv
  <2> QED  BY <1>1, <2>1, <2>2, <2>3, <2>4 DEF TakenInv, SlotInv
<1> QED  BY <1>6, <1>7

\* A thread that is made has its job from the start.
LEMMA ListStepSpawn ==
    ASSUME SlotInv, NEW c \in Calls, Spawn(c)
    PROVE  ListInv' /\ TakenInv'
<1>1. PICK u \in Threads : /\ thread[u] = "none" /\ thread' = [thread EXCEPT ![u] = "resting"]
                           /\ chan' = [chan EXCEPT ![u] = c]
  BY DEF Spawn
<1>2. /\ c \in Callers /\ c # Nothing /\ pc[c] = "spawn" /\ pc' = [pc EXCEPT ![c] = "await"]
      /\ UNCHANGED <<idle, popped>>
  BY ThreadsAssumption DEF Spawn, Callers
<1>3. ~OnList(u) /\ ~TakenOff(u)
  BY <1>1 DEF SlotInv, ListInv, TakenInv
<1>4. \A t \in Threads : /\ chan'[t] = IF t = u THEN c ELSE chan[t]
                         /\ thread'[t] = IF t = u THEN "resting" ELSE thread[t]
                         /\ OnList(t)' <=> OnList(t)
                         /\ TakenOff(t)' <=> TakenOff(t)
  BY <1>1, <1>2 DEF OnList, TakenOff, SlotInv, TakenInv, JobsInv
<1>5. ListInv'
  BY <1>2, <1>3, <1>4 DEF SlotInv, ListInv
<1>6. TakenInv'
  <2>1. /\ thread' \in [Threads -> {"none", "busy", "listed", "freed", "resting", "lingered", "struck"}]
        /\ popped' \in [Calls -> Threads \cup {Nothing}]
    BY <1>1, <1>2 DEF SlotInv, TakenInv
  <2>2. \A d \in Calls : pc'[d] = "popped" <=> popped'[d] # Nothing
    BY <1>2 DEF SlotInv, TakenInv, CallsInv, Callers
  <2>3. \A d, e \in Calls : popped'[d] = popped'[e] /\ popped'[d] # Nothing => d = e
    BY <1>2 DEF SlotInv, TakenInv
  <2>4. \A t \in Threads :
          /\ thread'[t] \in {"none", "busy"} => chan'[t] = Nothing /\ ~TakenOff(t)'
          /\ thread'[t] \notin {"none", "busy"} => OnList(t)' \/ chan'[t] # Nothing \/ TakenOff(t)'
          /\ TakenOff(t)' => chan'[t] = Nothing
    BY <1>2, <1>3, <1>4 DEF SlotInv, TakenInv
  <2> QED  BY <2>1, <2>2, <2>3, <2>4 DEF TakenInv
<1> QED  BY <1>5, <1>6

\* A thread that is neither on the list nor taken off it changes its state.
LEMMA ListStepOwn ==
    ASSUME SlotInv, NEW t \in Threads, Receive(t) \/ JobPanics(t)
    PROVE  ListInv' /\ TakenInv'
<1>1. PICK s \in {"none", "busy"} : thread' = [thread EXCEPT ![t] = s]
  BY DEF Receive, JobPanics
<1>2. /\ UNCHANGED <<idle, popped, pc>>
      /\ chan' = [chan EXCEPT ![t] = Nothing]
  <2>1. CASE Receive(t)
    BY <2>1 DEF Receive, callVars
  <2>2. CASE JobPanics(t)
    <3>1. chan[t] = Nothing
      BY <2>2 DEF JobPanics, SlotInv, TakenInv
    <3> QED  BY <2>2, <3>1 DEF JobPanics, SlotInv, JobsInv
  <2> QED  BY <2>1, <2>2
<1>3. ~OnList(t) /\ ~TakenOff(t)
  <2>1. CASE Receive(t)
    BY <2>1 DEF Receive, SlotInv, ListInv, TakenInv
  <2>2. CASE JobPanics(t)
    BY <2>2 DEF JobPanics, SlotInv, ListInv, TakenInv
  <2> QED  BY <2>1, <2>2
<1>4. \A u \in Threads : /\ chan'[u] = IF u = t THEN Nothing ELSE chan[u]
                         /\ thread'[u] = IF u = t THEN s ELSE thread[u]
                         /\ OnList(u)' <=> OnList(u)
                         /\ TakenOff(u)' <=> TakenOff(u)
  BY <1>1, <1>2 DEF OnList, TakenOff, SlotInv, TakenInv, JobsInv
<1>5. ListInv'
  BY <1>2, <1>3, <1>4 DEF SlotInv, ListInv
<1>6. TakenInv'
  <2>1. thread' \in [Threads -> {"none", "busy", "listed", "freed", "resting", "lingered", "struck"}]
    BY <1>1 DEF SlotInv, TakenInv
  <2>2. \A u \in Threads :
          /\ thread'[u] \in {"none", "busy"} => chan'[u] = Nothing /\ ~TakenOff(u)'
          /\ thread'[u] \notin {"none", "busy"} => OnList(u)' \/ chan'[u] # Nothing \/ TakenOff(u)'
          /\ TakenOff(u)' => chan'[u] = Nothing
    BY <1>3, <1>4 DEF SlotInv, TakenInv
  <2> QED  BY <1>2, <2>1, <2>2 DEF SlotInv, TakenInv
<1> QED  BY <1>5, <1>6

\* A thread that has run its script is put on the list, on which it was not.
LEMMA ListStepFinish ==
    ASSUME SlotInv, NEW t \in Threads, Finish(t)
    PROVE  ListInv' /\ TakenInv'
<1>1. /\ thread[t] = "busy" /\ thread' = [thread EXCEPT ![t] = "listed"]
      /\ idle' = Append(idle, t) /\ UNCHANGED <<popped, pc, chan>>
  BY DEF Finish, callVars
<1>2. ~OnList(t) /\ ~TakenOff(t) /\ chan[t] = Nothing
  BY <1>1 DEF SlotInv, ListInv, TakenInv
<1>3. /\ idle \in Seq(Threads \cup {Foreign}) /\ Len(idle) \in Nat
      /\ idle' \in Seq(Threads \cup {Foreign}) /\ Len(idle') = Len(idle) + 1
      /\ \A i \in 1 .. Len(idle) : idle'[i] = idle[i]
      /\ idle'[Len(idle) + 1] = t
  BY <1>1 DEF SlotInv, ListInv
<1>4. \A u \in Threads : /\ thread'[u] = IF u = t THEN "listed" ELSE thread[u]
                         /\ OnList(u)' <=> (OnList(u) \/ u = t)
                         /\ TakenOff(u)' <=> TakenOff(u)
  <2>1. \A u \in Threads : thread'[u] = IF u = t THEN "listed" ELSE thread[u]
    BY <1>1 DEF SlotInv, TakenInv
  <2>2. \A u \in Threads : OnList(u)' <=> (OnList(u) \/ u = t)
    BY <1>3 DEF OnList
  <2>3. \A u \in Threads : TakenOff(u)' <=> TakenOff(u)
    BY <1>1 DEF TakenOff
  <2> QED  BY <2>1, <2>2, <2>3
<1>5. ListInv'
  <2>1. \A i, j \in 1 .. Len(idle') : idle'[i] = idle'[j] /\ idle'[i] # Foreign => i = j
    BY <1>2, <1>3 DEF OnList, SlotInv, ListInv
  <2>2. \A u \in Threads : OnList(u)' =>
          thread'[u] \in {"listed", "freed", "resting", "lingered"} /\ chan'[u] = Nothing /\ ~TakenOff(u)'
    BY <1>1, <1>2, <1>4 DEF SlotInv, ListInv
  <2> QED  BY <1>3, <2>1, <2>2 DEF ListInv
<1>6. TakenInv'
  <2>1. thread' \in [Threads -> {"none", "busy", "listed", "freed", "resting", "lingered", "struck"}]
    BY <1>1 DEF SlotInv, TakenInv
  <2> QED  BY <1>1, <1>2, <1>4, <2>1 DEF SlotInv, TakenInv
<1> QED  BY <1>5, <1>6

\* Whoever is on the list takes itself off; whoever is not stays for its job.
LEMMA ListStepLooks ==
    ASSUME SlotInv, NEW t \in Threads, LooksForItself(t)
    PROVE  ListInv' /\ TakenInv'
<1>1. thread[t] = "lingered" /\ UNCHANGED <<popped, pc, chan>>
  BY DEF LooksForItself, callVars
<1>2. CASE ~OnList(t)
  <2>1. thread' = [thread EXCEPT ![t] = "struck"] /\ UNCHANGED idle
    BY <1>2 DEF LooksForItself, Contains, OnList
  <2>2. \A u \in Threads : /\ thread'[u] = IF u = t THEN "struck" ELSE thread[u]
                           /\ OnList(u)' <=> OnList(u)
                           /\ TakenOff(u)' <=> TakenOff(u)
    BY <1>1, <2>1 DEF OnList, TakenOff, SlotInv, TakenInv
  <2>3. ListInv'
    BY <1>1, <1>2, <2>1, <2>2 DEF SlotInv, ListInv
  <2>4. TakenInv'
    <3>1. thread' \in [Threads -> {"none", "busy", "listed", "freed", "resting", "lingered", "struck"}]
      BY <2>1 DEF SlotInv, TakenInv
    <3> QED  BY <1>1, <2>2, <3>1 DEF SlotInv, TakenInv
  <2> QED  BY <2>3, <2>4
<1>3. CASE OnList(t)
  <2> DEFINE n == Len(idle)
  <2>1. PICK k \in 1 .. n : idle[k] = t
    BY <1>3 DEF OnList
  <2>2. t # Foreign /\ t # Nothing /\ idle \in Seq(Threads \cup {Foreign})
    BY ThreadsAssumption DEF SlotInv, ListInv
  <2>3. SelectInSeq(idle, LAMBDA u : u = t) = k
    <3>1. \A i \in 1 .. Len(idle) : idle[i] = t => i = k
      BY <2>1, <2>2 DEF SlotInv, ListInv
    <3>2. {i \in 1 .. Len(idle) : idle[i] = t} = {k}
      BY <2>1, <3>1
    <3>3. Min({k}) = k
      BY <2>1, <2>2 DEF Min
    <3> QED  BY Zenon, <3>2, <3>3 DEF SelectInSeq
  <2>4. /\ idle' = Front([idle EXCEPT ![SelectInSeq(idle, LAMBDA u : u = t)] = Last(idle)])
        /\ thread' = [thread EXCEPT ![t] = "none"]
    BY <1>3 DEF LooksForItself, Contains, OnList
  <2>5. /\ idle' \in Seq(Threads \cup {Foreign}) /\ Len(idle') = n - 1 /\ n \in Nat
        /\ \A i \in 1 .. n - 1 : idle'[i] = IF i = k THEN idle[n] ELSE idle[i]
    <3>1. idle' = Front([idle EXCEPT ![k] = Last(idle)])
      BY ONLY Zenon, <2>3, <2>4
    <3>2. /\ idle' \in Seq(Threads \cup {Foreign}) /\ Len(idle') = Len(idle) - 1
          /\ \A i \in 1 .. Len(idle) - 1 : idle'[i] = IF i = k THEN idle[Len(idle)] ELSE idle[i]
      BY <2>1, <2>2, <3>1, GapIsFilled
    <3> QED  BY <2>2, <3>2
  <2>6. \A i, j \in 1 .. n : idle[i] = idle[j] /\ idle[i] # Foreign => i = j
    BY DEF SlotInv, ListInv
  <2> HIDE DEF n
  <2>7. \A i, j \in 1 .. n - 1 : idle'[i] = idle'[j] /\ idle'[i] # Foreign => i = j
    BY <2>1, <2>5, <2>6
  <2>8. \A u \in Threads : /\ thread'[u] = IF u = t THEN "none" ELSE thread[u]
                           /\ OnList(u)' <=> (OnList(u) /\ u # t)
                           /\ TakenOff(u)' <=> TakenOff(u)
    <3>1. \A u \in Threads : thread'[u] = IF u = t THEN "none" ELSE thread[u]
      BY <2>4 DEF SlotInv, TakenInv
    <3>2. \A u \in Threads : OnList(u)' => OnList(u) /\ u # t
      <4> SUFFICES ASSUME NEW u \in Threads, NEW i \in 1 .. n - 1, idle'[i] = u
                   PROVE  OnList(u) /\ u # t
        BY <2>5 DEF OnList
      <4>1. CASE i = k
        BY <2>1, <2>2, <2>5, <2>6, <4>1 DEF OnList, n
      <4>2. CASE i # k
        BY <2>1, <2>2, <2>5, <2>6, <4>2 DEF OnList, n
      <4> QED  BY <4>1, <4>2
    <3>3. \A u \in Threads : OnList(u) /\ u # t => OnList(u)'
      <4> SUFFICES ASSUME NEW u \in Threads, NEW i \in 1 .. n, idle[i] = u, u # t
                   PROVE  OnList(u)'
        BY DEF OnList, n
      <4>1. i # k
        BY <2>1
      <4>2. CASE i = n
        <5>1. k \in 1 .. n - 1 /\ idle'[k] = u
          BY <2>1, <2>5, <4>1, <4>2
        <5> QED  BY <2>5, <5>1 DEF OnList
      <4>3. CASE i # n
        <5>1. i \in 1 .. n - 1 /\ idle'[i] = u
          BY <2>5, <4>1, <4>3
        <5> QED  BY <2>5, <5>1 DEF OnList
      <4> QED  BY <4>2, <4>3
    <3>4. \A u \in Threads : TakenOff(u)' <=> TakenOff(u)
      BY <1>1 DEF TakenOff
    <3> QED  BY <3>1, <3>2, <3>3, <3>4
  <2>9. chan[t] = Nothing /\ ~TakenOff(t)
    BY <1>3 DEF SlotInv, ListInv
  <2>10. ListInv'
    <3>1. \A u \in Threads : OnList(u)' =>
            thread'[u] \in {"listed", "freed", "resting", "lingered"} /\ chan'[u] = Nothing /\ ~TakenOff(u)'
      BY <1>1, <2>8 DEF SlotInv, ListInv
    <3> QED  BY <2>5, <2>7, <3>1 DEF ListInv
  <2>11. TakenInv'
    <3>1. thread' \in [Threads -> {"none", "busy", "listed", "freed", "resting", "lingered", "struck"}]
      BY <2>4 DEF SlotInv, TakenInv
    <3> QED  BY <1>1, <2>8, <2>9, <3>1 DEF SlotInv, TakenInv
  <2> QED  BY <2>10, <2>11
<1> QED  BY <1>2, <1>3

\* The child of a fork has entries of the list, and none of its threads.
LEMMA ListStepFork ==
    ASSUME SlotInv, Fork
    PROVE  ListInv' /\ TakenInv'
<1>1. /\ idle' \in Seq(Threads \cup {Foreign}) /\ Len(idle') = Len(idle)
      /\ \A i \in 1 .. Len(idle') : idle'[i] = Foreign
  BY DEF Fork, SlotInv, ListInv
<1>2. \A t \in Threads : ~OnList(t)'
  BY <1>1, ThreadsAssumption DEF OnList
<1>3. \A t \in Threads : ~TakenOff(t)'
  BY ThreadsAssumption DEF Fork, TakenOff
<1>4. ListInv'
  BY <1>1, <1>2 DEF ListInv
<1>5. TakenInv'
  BY <1>3 DEF Fork, TakenInv, Callers
<1> QED  BY <1>4, <1>5

\* Every step keeps the list and who was taken off it.
LEMMA ListStep == SlotInv /\ [Next]_vars => ListInv' /\ TakenInv'
<1> SUFFICES ASSUME SlotInv, [Next]_vars PROVE ListInv' /\ TakenInv'
  OBVIOUS
<1>1. ASSUME NEW c \in Callers, Call(c) \/ Park(c) \/ CallerStep(c) PROVE ListInv' /\ TakenInv'
  BY <1>1, ListStepCallers, ListStepTimedOut DEF CallerStep
<1>2. ASSUME NEW c \in Calls, CallStep(c) PROVE ListInv' /\ TakenInv'
  <2>1. CASE SpawnFails(c)
    BY <2>1, ListBeside DEF SpawnFails, Leave, threadVars, Places, Callers
  <2> QED  BY <1>2, <2>1, ListStepPop, ListStepSend, ListStepSpawn DEF CallStep
<1>3. ASSUME NEW h \in Hosts, HostStep(h) PROVE ListInv' /\ TakenInv'
  <2>1. h \in Callers /\ UNCHANGED <<idle, popped, chan, thread>> /\ pc[h] # "popped"
    BY <1>3 DEF HostStep, StartWorker, SpawnTalk, Reap, LetGo, threadVars, Callers
  <2>2. \E p \in {"spawn", "out", "await", "reap", "letgo"} : pc' = [pc EXCEPT ![h] = p]
    BY <1>3 DEF HostStep, StartWorker, SpawnTalk, Reap, LetGo, Leave
  <2> QED  BY <2>1, <2>2, ListBeside DEF Places
<1>4. ASSUME UNCHANGED <<idle, popped, chan, thread, pc>> PROVE ListInv' /\ TakenInv'
  BY <1>4, ListKept DEF SlotInv, TakenInv
<1>5. ASSUME NEW h \in Hosts,
             TalkStep(h) \/ Asks(h) \/ LookupEnds(h) \/ Says(h) \/ WorkerDies(h)
      PROVE  ListInv' /\ TakenInv'
  <2>1. UNCHANGED <<idle, popped, chan, thread, pc>>
    BY <1>5 DEF TalkStep, Hello, PipesClose, TalkEnds, Asks, LookupEnds, Says, WorkerDies,
                threadVars, callVars
  <2> QED  BY <1>4, <2>1
<1>6. ASSUME NEW t \in Threads, GiveSlotBack(t) \/ Reply(t) \/ Lingers(t)
      PROVE  ListInv' /\ TakenInv'
  <2>1. UNCHANGED <<idle, popped, chan, pc>>
    BY <1>6 DEF GiveSlotBack, Reply, Lingers, callVars
  <2>2. \E s \in {"freed", "resting", "lingered"} :
            /\ thread' = [thread EXCEPT ![t] = s]
            /\ thread[t] \in {"listed", "freed", "resting"}
    BY <1>6 DEF GiveSlotBack, Reply, Lingers
  <2> QED  BY <2>1, <2>2, ListKept DEF SlotInv, TakenInv
<1>7. ASSUME NEW t \in Threads, ThreadStep(t) \/ Finish(t) \/ JobPanics(t) \/ Lingers(t)
      PROVE  ListInv' /\ TakenInv'
  BY <1>6, <1>7, ListStepOwn, ListStepFinish, ListStepLooks DEF ThreadStep
<1>8. CASE UNCHANGED vars
  BY <1>4, <1>8 DEF vars, callVars, threadVars
<1> QED  BY <1>1, <1>2, <1>3, <1>5, <1>7, <1>8, ListStepFork DEF Next

\* Nobody runs at the start.
LEMMA SlotInvInit == Init => SlotInv
<1> SUFFICES ASSUME Init PROVE SlotInv
  OBVIOUS
<1>1. CallsInv
  BY DEF Init, CallsInv, Places, Parked, Awaiting, Callers
<1>2. JobsInv
  BY ThreadsAssumption DEF Init, JobsInv
<1>3. \A t \in Threads : ~OnList(t) /\ ~TakenOff(t)
  BY ThreadsAssumption DEF Init, OnList, TakenOff
<1>4. ListInv
  BY <1>3 DEF Init, ListInv
<1>5. TakenInv
  BY <1>3 DEF Init, TakenInv, Callers
<1> QED  BY <1>1, <1>2, <1>4, <1>5 DEF SlotInv

\* The invariant of callers, jobs and the list is inductive.
LEMMA SlotInvStep == SlotInv /\ [Next]_vars => SlotInv'
<1> SUFFICES ASSUME SlotInv, [Next]_vars PROVE SlotInv'
  OBVIOUS
<1>1. CallsInv' /\ JobsInv'
  BY CallsStep, JobsStep DEF SlotInv
<1>2. ListInv' /\ TakenInv'
  BY ListStep
<1> QED  BY <1>1, <1>2 DEF SlotInv

\* However a linger that runs out, the end of a script, a deadline and the next
\* call fall together, a thread that is taken off the list is there for the job
\* (budget.rs: Slots::dispatch, Slots::work).
THEOREM NoJobIsLost == Spec => []JobsFindAThread
<1>1. SlotInv => JobsFindAThread
  <2> SUFFICES ASSUME SlotInv PROVE JobsFindAThread
    OBVIOUS
  <2>1. \A t \in Threads : chan[t] # Nothing => thread[t] # "none"
    BY DEF SlotInv, TakenInv
  <2>2. \A t \in Threads : thread[t] = "struck" => chan[t] # Nothing \/ TakenOff(t)
    BY DEF SlotInv, ListInv, TakenInv
  <2>3. \A c \in Calls : popped[c] # Nothing =>
          /\ popped[c] \in Threads /\ TakenOff(popped[c])
          /\ \A d \in Calls \ {c} : popped[d] # popped[c]
    BY DEF SlotInv, TakenInv, TakenOff
  <2>4. \A t \in Threads : TakenOff(t) =>
          thread[t] \in {"listed", "freed", "resting", "lingered", "struck"} /\ chan[t] = Nothing
    BY DEF SlotInv, TakenInv
  <2> QED  BY <2>1, <2>2, <2>3, <2>4 DEF JobsFindAThread, TakenOff
<1> QED  BY <1>1, SlotInvInit, SlotInvStep, PTL DEF Spec

-----------------------------------------------------------------------------
(* A free slot wakes a caller.                                             *)

\* As many callers as there are free slots have been woken, or all.
WakeInv ==
    /\ taken \in Int
    /\ Parked \subseteq notified \/ Cardinality(notified) >= Limit - taken

\* Callers are finitely many.
LEMMA CallersAreFinite == IsFiniteSet(Callers)
BY FiniteAssumption, FS_Union DEF Callers

\* A set of callers has a size, which one caller more or less changes by one.
LEMMA OneMoreOrLess ==
    ASSUME NEW N \in SUBSET Callers, NEW c \in Callers
    PROVE  /\ Cardinality(N) \in Nat
           /\ Cardinality(N \ {c}) \in Nat
           /\ Cardinality(N \ {c}) >= Cardinality(N) - 1
           /\ c \notin N => Cardinality(N \cup {c}) = Cardinality(N) + 1
<1>1. IsFiniteSet(N)
  BY CallersAreFinite, FS_Subset
<1>2. /\ Cardinality(N) \in Nat
      /\ IsFiniteSet(N \ {c})
      /\ Cardinality(N \ {c}) = IF c \in N THEN Cardinality(N) - 1 ELSE Cardinality(N)
      /\ Cardinality(N \cup {c}) = IF c \in N THEN Cardinality(N) ELSE Cardinality(N) + 1
  BY <1>1, FS_CardinalityType, FS_RemoveElement, FS_AddElement
<1>3. Cardinality(N \ {c}) \in Nat
  BY <1>2, FS_CardinalityType
<1> QED  BY <1>2, <1>3

\* A step that frees a slot and parks or unparks nobody wakes a caller.
LEMMA FreeSlotWakes ==
    ASSUME CallsInv, WakeInv, FreeSlot, Parked' = Parked
    PROVE  WakeInv'
<1>1. taken' = taken - 1 /\ taken' \in Int
  BY DEF FreeSlot, WakeInv
<1>2. CASE Parked \subseteq notified
  BY <1>1, <1>2 DEF FreeSlot, WakeInv, Parked
<1>3. CASE ~(Parked \subseteq notified)
  <2>1. PICK c \in Parked \ notified : notified' = notified \cup {c}
    BY <1>3 DEF FreeSlot, Parked
  <2>2. Cardinality(notified') = Cardinality(notified) + 1 /\ Cardinality(notified) \in Nat
    BY <2>1, OneMoreOrLess DEF CallsInv, Parked
  <2>3. Cardinality(notified') >= Limit - taken'
    BY <1>1, <1>3, <2>2, LimitAssumption DEF WakeInv
  <2> QED  BY <1>1, <2>1, <2>3 DEF WakeInv
<1> QED  BY <1>2, <1>3

\* One that leaves slots and sleepers alone keeps the rest.
LEMMA NobodyStirs ==
    ASSUME WakeInv, UNCHANGED slotVars, Parked' = Parked
    PROVE  WakeInv'
BY DEF WakeInv, slotVars

\* A caller that goes to sleep, or gives up, does so when no slot is free.
LEMMA NoneIsFree ==
    ASSUME WakeInv, taken >= Limit, taken' = taken, notified' \subseteq Callers
    PROVE  WakeInv'
<1>1. Cardinality(notified') \in Nat
  BY CallersAreFinite, FS_Subset, FS_CardinalityType
<1>2. Cardinality(notified') >= Limit - taken'
  BY <1>1, LimitAssumption DEF WakeInv
<1> QED  BY <1>2 DEF WakeInv

\* Every step keeps as many callers awake as slots are free.
LEMMA WakeStep == CallsInv /\ WakeInv /\ [Next]_vars => WakeInv'
<1> SUFFICES ASSUME CallsInv, WakeInv, [Next]_vars PROVE WakeInv'
  OBVIOUS
<1>1. ASSUME NEW c \in Callers, Acquire(c) PROVE WakeInv'
  <2>1. /\ taken' = taken + 1 /\ notified' = notified \ {c}
        /\ Parked' = Parked \ {c}
    BY <1>1 DEF Acquire, CallsInv, Parked
  <2>2. /\ Cardinality(notified) \in Nat /\ Cardinality(notified') \in Nat
        /\ Cardinality(notified') >= Cardinality(notified) - 1
    BY <2>1, OneMoreOrLess DEF CallsInv, Parked
  <2>3. CASE Parked \subseteq notified
    BY <2>1, <2>3 DEF WakeInv
  <2>4. CASE Cardinality(notified) >= Limit - taken
    <3>1. Cardinality(notified') >= Limit - taken'
      BY <2>1, <2>2, <2>4, LimitAssumption DEF WakeInv
    <3> QED  BY <2>1, <3>1 DEF WakeInv
  <2> QED  BY <2>3, <2>4 DEF WakeInv
<1>2. ASSUME NEW c \in Callers, Park(c) \/ Saturated(c) PROVE WakeInv'
  <2>1. taken >= Limit /\ taken' = taken /\ notified' = notified \ {c}
    BY <1>2 DEF Park, Saturated
  <2> QED  BY <2>1, NoneIsFree DEF CallsInv, Parked
<1>3. ASSUME NEW c \in Callers, Call(c) \/ Answered(c) \/ TimedOut(c) PROVE WakeInv'
  <2>1. UNCHANGED slotVars
    BY <1>3 DEF Call, Answered, TimedOut
  <2>2. Parked' = Parked
    <3>1. CASE Call(c)
      BY <3>1 DEF Call, CallsInv, Parked
    <3>2. CASE Answered(c) \/ TimedOut(c)
      <4>1. \E p \in {"out", "reap"} : pc' = [pc EXCEPT ![c] = p]
        BY <3>2 DEF Answered, TimedOut, WaitEnds, Leave
      <4>2. pc[c] # "parked"
        BY <3>2 DEF Answered, TimedOut, CallsInv, Awaiting
      <4> QED  BY <4>1, <4>2 DEF CallsInv, Parked
    <3> QED  BY <1>3, <3>1, <3>2
  <2> QED  BY <2>1, <2>2, NobodyStirs
<1>4. ASSUME NEW c \in Calls, Pop(c) \/ Send(c) \/ Spawn(c) PROVE WakeInv'
  <2>1. UNCHANGED slotVars
    BY <1>4 DEF Pop, Send, Spawn
  <2>2. Parked' = Parked
    BY <1>4 DEF Pop, Send, Spawn, CallsInv, Parked, Callers
  <2> QED  BY <2>1, <2>2, NobodyStirs
<1>5. ASSUME NEW c \in Calls, SpawnFails(c) PROVE WakeInv'
  <2>1. Parked' = Parked
    BY <1>5 DEF SpawnFails, Leave, CallsInv, Parked, Callers
  <2> QED  BY <1>5, <2>1, FreeSlotWakes DEF SpawnFails
<1>6. ASSUME NEW h \in Hosts, StartWorker(h) \/ LetGo(h) \/ TalkEnds(h) PROVE WakeInv'
  <2>1. Parked' = Parked
    BY <1>6 DEF StartWorker, LetGo, TalkEnds, Leave, CallsInv, Parked, Callers, callVars
  <2>2. FreeSlot \/ UNCHANGED slotVars
    BY <1>6 DEF StartWorker, LetGo, TalkEnds
  <2> QED  BY <2>1, <2>2, FreeSlotWakes, NobodyStirs
<1>7. ASSUME NEW h \in Hosts,
             \/ SpawnTalk(h) \/ Reap(h) \/ Hello(h) \/ PipesClose(h)
             \/ Asks(h) \/ LookupEnds(h) \/ Says(h) \/ WorkerDies(h)
      PROVE  WakeInv'
  <2>1. UNCHANGED slotVars
    BY <1>7 DEF SpawnTalk, Reap, Hello, PipesClose, Asks, LookupEnds, Says, WorkerDies
  <2>2. Parked' = Parked
    <3>1. CASE SpawnTalk(h) \/ Reap(h)
      BY <3>1 DEF SpawnTalk, Reap, CallsInv, Parked, Callers
    <3>2. CASE UNCHANGED pc
      BY <3>2 DEF CallsInv, Parked
    <3> QED  BY <1>7, <3>1, <3>2 DEF Hello, PipesClose, Asks, LookupEnds, Says, WorkerDies, callVars
  <2> QED  BY <2>1, <2>2, NobodyStirs
<1>8. ASSUME NEW t \in Threads,
             \/ Receive(t) \/ Reply(t) \/ LooksForItself(t) \/ Finish(t) \/ Lingers(t)
             \/ GiveSlotBack(t) \/ JobPanics(t)
      PROVE  WakeInv'
  <2>1. UNCHANGED pc /\ (FreeSlot \/ UNCHANGED slotVars)
    BY <1>8 DEF Receive, Reply, LooksForItself, Finish, Lingers, GiveSlotBack, JobPanics, callVars
  <2>2. Parked' = Parked
    BY <2>1 DEF CallsInv, Parked
  <2> QED  BY <2>1, <2>2, FreeSlotWakes, NobodyStirs
<1>9. CASE Fork
  BY <1>9 DEF Fork, WakeInv, Parked
<1>10. CASE UNCHANGED vars
  <2>1. UNCHANGED slotVars /\ UNCHANGED pc
    BY <1>10 DEF vars, slotVars, callVars
  <2> QED  BY <2>1, NobodyStirs DEF Parked
<1> QED  BY <1>1, <1>2, <1>3, <1>4, <1>5, <1>6, <1>7, <1>8, <1>9, <1>10
         DEF Next, CallerStep, CallStep, HostStep, TalkStep, ThreadStep

\* Whatever the order of calls, deadlines and ends of scripts, the parked
\* callers that a free slot is for are on their way (budget.rs: Slot::drop
\* frees before it notifies, acquire looks again under the mutex).
THEOREM AFreeSlotWakes == Spec => []NoSleepBesideAFreeSlot
<1>1. Init => WakeInv
  BY DEF Init, WakeInv, Parked
<1>2. WakeInv => NoSleepBesideAFreeSlot
  BY DEF WakeInv, NoSleepBesideAFreeSlot, Parked
<1>3. SlotInv /\ WakeInv /\ [Next]_vars => WakeInv'
  BY WakeStep DEF SlotInv
<1> QED  BY <1>1, <1>2, <1>3, SlotInvInit, SlotInvStep, PTL DEF Spec

-----------------------------------------------------------------------------
(* The count.                                                              *)

Spawning == {c \in Calls : pc[c] = "spawn"}
Alive == {t \in Threads : thread[t] # "none"}

\* A worker belongs to a call, and a new call of a host finds no conversation.
HostInv ==
    /\ worker \in [Hosts -> {"none", "up", "script", "asking", "done", "dead"}]
    /\ talk \in [Hosts -> {"none", "hello", "talking", "lookup", "sent"}]
    /\ \A h \in Hosts :
        /\ worker[h] # "none" => pc[h] \in {"spawn", "await", "reap"}
        /\ pc[h] \in {"waiting", "parked", "slot", "spawn"} => talk[h] = "none"

\* A thread is made for a slot, and only when no thread is free.
CountInv ==
    /\ taken \in Int /\ taken <= Limit
    /\ lost \in 0 .. Limit /\ forked \in BOOLEAN
    /\ taken = lost + Cardinality(HandingOver) + Cardinality(Queued)
                    + Cardinality(Scripts) + Cardinality(Conversations)

ThreadsInv == Cardinality(Alive) + Cardinality(Spawning) <= Limit

\* The sets that are counted are finite.
LEMMA Sizes ==
    /\ IsFiniteSet(HandingOver) /\ IsFiniteSet(Queued)
    /\ IsFiniteSet(Scripts) /\ IsFiniteSet(Conversations)
    /\ IsFiniteSet(Alive) /\ IsFiniteSet(Spawning)
    /\ Cardinality(HandingOver) \in Nat /\ Cardinality(Queued) \in Nat
    /\ Cardinality(Scripts) \in Nat /\ Cardinality(Conversations) \in Nat
    /\ Cardinality(Alive) \in Nat /\ Cardinality(Spawning) \in Nat
<1>1. /\ HandingOver \in SUBSET Calls /\ Spawning \in SUBSET Calls
      /\ Queued \in SUBSET Threads /\ Scripts \in SUBSET Threads /\ Alive \in SUBSET Threads
      /\ Conversations \in SUBSET Hosts
  BY DEF HandingOver, Spawning, Queued, Scripts, Alive, Conversations
<1>2. /\ IsFiniteSet(HandingOver) /\ IsFiniteSet(Spawning) /\ IsFiniteSet(Queued)
      /\ IsFiniteSet(Scripts) /\ IsFiniteSet(Alive) /\ IsFiniteSet(Conversations)
  BY <1>1, FiniteAssumption, FS_Subset
<1> QED  BY <1>2, FS_CardinalityType

\* One more is one more, and one less is one less.
LEMMA Gains ==
    ASSUME NEW S, IsFiniteSet(S), NEW x, x \notin S
    PROVE  Cardinality(S \cup {x}) = Cardinality(S) + 1
BY FS_AddElement

\* And one less is one less.
LEMMA Loses ==
    ASSUME NEW S, IsFiniteSet(S), NEW x, x \in S
    PROVE  Cardinality(S \ {x}) = Cardinality(S) - 1
BY FS_RemoveElement

\* Every step keeps workers and conversations to their calls.
LEMMA HostStepsKeep == CallsInv /\ HostInv /\ [Next]_vars => HostInv'
<1> SUFFICES ASSUME CallsInv, HostInv, [Next]_vars PROVE HostInv'
  OBVIOUS
<1>1. ASSUME UNCHANGED <<worker, talk>>, NEW c \in Callers, NEW p, pc' = [pc EXCEPT ![c] = p],
             c \in Hosts => worker[c] = "none" \/ p \in {"spawn", "await", "reap"},
             c \in Hosts => talk[c] = "none" \/ p \notin {"waiting", "parked", "slot", "spawn"}
      PROVE  HostInv'
  <2>1. \A h \in Hosts : pc'[h] = IF h = c THEN p ELSE pc[h]
    BY <1>1 DEF CallsInv, Callers
  <2> QED  BY <1>1, <2>1 DEF HostInv
<1>2. ASSUME UNCHANGED <<worker, talk, pc>> PROVE HostInv'
  BY <1>2 DEF HostInv
<1>3. ASSUME NEW c \in Callers, Call(c) \/ Park(c) \/ Acquire(c) \/ Saturated(c) PROVE HostInv'
  <2>1. UNCHANGED <<worker, talk>> /\ pc[c] \in {"out", "waiting", "parked"}
    BY <1>3 DEF Call, Park, Acquire, Saturated, Looks, hostVars, CallsInv, Parked
  <2>2. c \in Hosts => worker[c] = "none" /\ talk[c] = "none"
    BY <1>3, <2>1 DEF Call, Park, Acquire, Saturated, Looks, HostInv, CallsInv, Parked
  <2>3. \E p \in {"waiting", "parked", "slot", "out"} : pc' = [pc EXCEPT ![c] = p]
    BY <1>3 DEF Call, Park, Acquire, Saturated
  <2> QED  BY <1>1, <2>1, <2>2, <2>3
<1>4. ASSUME NEW c \in Callers, Answered(c) \/ TimedOut(c) PROVE HostInv'
  <2>1. UNCHANGED <<worker, talk>>
    BY <1>4 DEF Answered, TimedOut, hostVars
  <2>2. \/ c \in Calls /\ pc' = [pc EXCEPT ![c] = "out"]
        \/ pc' = [pc EXCEPT ![c] = "reap"]
    BY <1>4 DEF Answered, TimedOut, WaitEnds, Leave
  <2> QED  BY <1>1, <2>1, <2>2, CallersAssumption
<1>5. ASSUME NEW c \in Calls, CallStep(c) PROVE HostInv'
  <2>1. UNCHANGED <<worker, talk>> /\ c \in Callers /\ c \notin Hosts
    BY <1>5, CallersAssumption DEF CallStep, Pop, Send, Spawn, SpawnFails, hostVars, Callers
  <2>2. UNCHANGED pc \/ \E p \in {"spawn", "popped", "await", "out"} : pc' = [pc EXCEPT ![c] = p]
    BY <1>5 DEF CallStep, Pop, Send, Spawn, SpawnFails, Leave
  <2> QED  BY <1>1, <1>2, <2>1, <2>2
<1>6. ASSUME NEW h \in Hosts, HostStep(h) PROVE HostInv'
  <2>1. h \in Callers
    BY DEF Callers
  <2>2. CASE StartWorker(h)
    <3>1. talk' = talk /\ talk[h] = "none" /\ worker[h] = "none"
      BY <2>2 DEF StartWorker, HostInv
    <3>2. CASE worker' = [worker EXCEPT ![h] = "up"] /\ pc' = [pc EXCEPT ![h] = "spawn"]
      BY <2>1, <3>1, <3>2 DEF HostInv, CallsInv, Callers
    <3>3. CASE Leave(h) /\ UNCHANGED worker
      BY <1>1, <2>1, <3>1, <3>3 DEF Leave
    <3> QED  BY <2>2, <3>2, <3>3 DEF StartWorker
  <2>3. CASE SpawnTalk(h)
    <3>1. \A g \in Hosts \ {h} : pc'[g] = pc[g] /\ talk'[g] = talk[g] /\ worker'[g] = worker[g]
      BY <2>3 DEF SpawnTalk, HostInv, CallsInv, Callers
    <3>2. pc'[h] \in {"await", "reap"}
      BY <2>1, <2>3 DEF SpawnTalk, CallsInv
    <3>3. UNCHANGED worker /\ talk' \in [Hosts -> {"none", "hello", "talking", "lookup", "sent"}]
      BY <2>3 DEF SpawnTalk, HostInv
    <3> QED  BY <3>1, <3>2, <3>3 DEF HostInv
  <2>4. CASE Reap(h)
    <3>1. \A g \in Hosts \ {h} : pc'[g] = pc[g] /\ worker'[g] = worker[g]
      BY <2>4 DEF Reap, HostInv, CallsInv, Callers
    <3>2. pc'[h] = "letgo" /\ worker'[h] = "none" /\ UNCHANGED talk
      BY <2>1, <2>4 DEF Reap, CallsInv, HostInv
    <3>3. worker' \in [Hosts -> {"none", "up", "script", "asking", "done", "dead"}]
      BY <2>4 DEF Reap, HostInv
    <3> QED  BY <3>1, <3>2, <3>3 DEF HostInv
  <2>5. CASE LetGo(h)
    <3>1. UNCHANGED <<worker, talk>> /\ worker[h] = "none" /\ pc' = [pc EXCEPT ![h] = "out"]
      BY <2>5 DEF LetGo, Leave, hostVars, HostInv
    <3> QED  BY <1>1, <2>1, <3>1
  <2> QED  BY <1>6, <2>2, <2>3, <2>4, <2>5 DEF HostStep
<1>7. ASSUME NEW h \in Hosts,
             TalkStep(h) \/ Asks(h) \/ LookupEnds(h) \/ Says(h) \/ WorkerDies(h)
      PROVE  HostInv'
  <2>1. UNCHANGED pc
    BY <1>7 DEF TalkStep, Hello, PipesClose, TalkEnds, Asks, LookupEnds, Says, WorkerDies, callVars
  <2>2. /\ worker' \in [Hosts -> {"none", "up", "script", "asking", "done", "dead"}]
        /\ \A g \in Hosts : worker[g] = "none" => worker'[g] = "none"
    BY <1>7 DEF TalkStep, Hello, PipesClose, TalkEnds, Asks, LookupEnds, Says, WorkerDies, HostInv
  <2>3. \/ UNCHANGED talk
        \/ \E s \in {"talking", "sent", "none", "lookup"} : talk' = [talk EXCEPT ![h] = s] /\ talk[h] # "none"
    BY <1>7 DEF TalkStep, Hello, PipesClose, TalkEnds, Asks, LookupEnds, Says, WorkerDies, Tell
  <2>4. /\ talk' \in [Hosts -> {"none", "hello", "talking", "lookup", "sent"}]
        /\ \A g \in Hosts : talk[g] = "none" => talk'[g] = "none"
    BY <2>3 DEF HostInv
  <2> QED  BY <2>1, <2>2, <2>4 DEF HostInv
<1>8. ASSUME NEW t \in Threads, ThreadStep(t) \/ Finish(t) \/ JobPanics(t) \/ Lingers(t)
      PROVE  HostInv'
  <2>1. UNCHANGED <<worker, talk, pc>>
    BY <1>8 DEF ThreadStep, Receive, GiveSlotBack, Reply, LooksForItself, Finish, JobPanics,
                Lingers, hostVars, callVars
  <2> QED  BY <1>2, <2>1
<1>9. CASE Fork
  BY <1>9 DEF Fork, HostInv, Callers
<1>10. CASE UNCHANGED vars
  BY <1>2, <1>10 DEF vars, hostVars, callVars
<1> QED  BY <1>3, <1>4, <1>5, <1>6, <1>7, <1>8, <1>9, <1>10 DEF Next, CallerStep

\* What holds a slot, all of it counted.
Running == Cardinality(HandingOver) + Cardinality(Queued)
           + Cardinality(Scripts) + Cardinality(Conversations)

\* Slots and their holders change together.
LEMMA Balance ==
    ASSUME CountInv, UNCHANGED <<forked, lost>>, taken' <= Limit,
           taken' \in Int, taken' - taken = Running' - Running
    PROVE  CountInv'
<1>1. Running \in Nat
  BY Sizes DEF Running
<1>2. /\ IsFiniteSet(HandingOver') /\ IsFiniteSet(Queued')
      /\ IsFiniteSet(Scripts') /\ IsFiniteSet(Conversations')
  <2>1. /\ HandingOver' \in SUBSET Calls /\ Queued' \in SUBSET Threads
        /\ Scripts' \in SUBSET Threads /\ Conversations' \in SUBSET Hosts
    BY DEF HandingOver, Queued, Scripts, Conversations
  <2> QED  BY <2>1, FiniteAssumption, FS_Subset
<1>3. /\ Cardinality(HandingOver') \in Nat /\ Cardinality(Queued') \in Nat
      /\ Cardinality(Scripts') \in Nat /\ Cardinality(Conversations') \in Nat
  BY <1>2, FS_CardinalityType
<1>4. Running' \in Nat
  BY <1>3 DEF Running
<1>5. taken = lost + Running /\ lost \in Int /\ taken \in Int
  BY Sizes DEF CountInv, Running
<1>6. taken' = lost + Running'
  <2>1. PICK m \in Int, k \in Int, r \in Int : m = taken /\ k = lost /\ r = Running
    BY <1>1, <1>5
  <2>2. PICK n \in Int, s \in Int : n = taken' /\ s = Running'
    BY <1>4
  <2>3. n - m = s - r /\ m = k + r
    BY <1>5, <2>1, <2>2
  <2>4. n = k + s
    BY ONLY <2>3
  <2> QED  BY <2>1, <2>2, <2>4
<1>7. taken' = lost' + Cardinality(HandingOver') + Cardinality(Queued')
                     + Cardinality(Scripts') + Cardinality(Conversations')
  BY <1>3, <1>5, <1>6 DEF Running
<1> QED  BY <1>7, Zenon DEF CountInv

\* Nobody's slot.
LEMMA NoneChanges ==
    ASSUME CountInv, UNCHANGED <<taken, forkVars>>,
           HandingOver' = HandingOver, Queued' = Queued,
           Scripts' = Scripts, Conversations' = Conversations
    PROVE  CountInv'
<1>1. Running' = Running /\ Running \in Nat
  BY Sizes DEF Running
<1> QED  BY <1>1, Balance DEF CountInv, forkVars

\* A slot that ends with the one holder it had.
LEMMA OneEnds ==
    ASSUME CountInv, FreeSlot, UNCHANGED forkVars, NEW x,
           \/ /\ x \in HandingOver /\ HandingOver' = HandingOver \ {x}
              /\ Queued' = Queued /\ Scripts' = Scripts /\ Conversations' = Conversations
           \/ /\ x \in Scripts /\ Scripts' = Scripts \ {x}
              /\ Queued' = Queued /\ HandingOver' = HandingOver /\ Conversations' = Conversations
           \/ /\ x \in Conversations /\ Conversations' = Conversations \ {x}
              /\ Queued' = Queued /\ Scripts' = Scripts /\ HandingOver' = HandingOver
    PROVE  CountInv'
<1>1. Running' = Running - 1 /\ Running \in Nat
  BY Sizes, Loses DEF Running
<1>2. taken' = taken - 1 /\ taken \in Int /\ taken <= Limit
  BY DEF FreeSlot, CountInv
<1> QED  BY <1>1, <1>2, Balance, LimitAssumption DEF forkVars

\* The steps of a caller, counted.
LEMMA CountStepCallers ==
    ASSUME SlotInv, HostInv, CountInv, NEW c \in Callers,
           Call(c) \/ Park(c) \/ CallerStep(c)
    PROVE  CountInv'
<1>1. CASE Acquire(c)
  <2>1. /\ taken < Limit /\ taken' = taken + 1 /\ UNCHANGED <<forked, lost, thread, chan, talk>>
        /\ pc' = [pc EXCEPT ![c] = "slot"] /\ pc[c] \in {"waiting", "parked"}
    BY <1>1 DEF Acquire, Looks, threadVars, hostVars, forkVars
  <2>2. pc'[c] = "slot" /\ \A d \in Callers \ {c} : pc'[d] = pc[d]
    BY <2>1 DEF SlotInv, CallsInv
  <2>3. Queued' = Queued /\ Scripts' = Scripts
    BY <2>1 DEF Queued, Scripts
  <2>4. Running' = Running + 1
    <3>1. CASE c \in Calls
      <4>1. HandingOver' = HandingOver \cup {c} /\ c \notin HandingOver
        BY <2>1, <2>2, <3>1 DEF HandingOver, Callers
      <4>2. Conversations' = Conversations
        BY <2>1, <2>2, <3>1, CallersAssumption DEF Conversations, Callers
      <4> QED  BY <2>3, <4>1, <4>2, Sizes, Gains DEF Running
    <3>2. CASE c \in Hosts
      <4>1. HandingOver' = HandingOver
        BY <2>1, <2>2, <3>2, CallersAssumption DEF HandingOver, Callers
      <4>2. Conversations' = Conversations \cup {c} /\ c \notin Conversations
        BY <2>1, <2>2, <3>2 DEF Conversations, Callers, HostInv
      <4> QED  BY <2>3, <4>1, <4>2, Sizes, Gains DEF Running
    <3> QED  BY <3>1, <3>2 DEF Callers
  <2>5. Running \in Nat /\ taken \in Int
    BY Sizes DEF Running, CountInv
  <2> QED  BY <2>1, <2>4, <2>5, Balance, LimitAssumption
<1>2. CASE Call(c) \/ Park(c) \/ Saturated(c)
  <2>1. /\ UNCHANGED <<taken, forkVars, thread, chan, talk>>
        /\ c \in Hosts => talk[c] = "none"
    BY <1>2 DEF Call, Park, Saturated, Looks, threadVars, hostVars, slotVars, HostInv, SlotInv, CallsInv, Parked
  <2>2. /\ {pc[c], pc'[c]} \subseteq {"out", "waiting", "parked"}
        /\ \A d \in Callers \ {c} : pc'[d] = pc[d]
    BY <1>2 DEF Call, Park, Saturated, Looks, SlotInv, CallsInv, Parked
  <2>3. Queued' = Queued /\ Scripts' = Scripts
    BY <2>1 DEF Queued, Scripts
  <2>4. HandingOver' = HandingOver
    BY <2>2 DEF HandingOver, Callers
  <2>5. Conversations' = Conversations
    BY <2>1, <2>2 DEF Conversations, Callers
  <2> QED  BY <2>1, <2>3, <2>4, <2>5, NoneChanges
<1>3. CASE Answered(c) \/ TimedOut(c)
  <2>1. UNCHANGED <<taken, forkVars, thread, talk>> /\ pc[c] = "await"
    BY <1>3 DEF Answered, TimedOut, threadVars, hostVars, slotVars, SlotInv, CallsInv, Awaiting
  <2>2. /\ pc'[c] = IF c \in Calls THEN "out" ELSE "reap"
        /\ \A d \in Callers \ {c} : pc'[d] = pc[d]
    BY <1>3 DEF Answered, TimedOut, WaitEnds, Leave, SlotInv, CallsInv
  <2>3. Queued' = Queued
    <3>1. CASE Answered(c)
      BY <3>1 DEF Answered, threadVars, Queued
    <3>2. CASE TimedOut(c)
      <4>1. \A t \in Threads : chan'[t] = IF chan[t] = c THEN Abandoned ELSE chan[t]
        BY <3>2 DEF TimedOut
      <4> QED  BY <4>1, JobsAssumption, ThreadsAssumption DEF Queued, Callers
    <3> QED  BY <1>3, <3>1, <3>2
  <2>4. Scripts' = Scripts
    BY <2>1 DEF Scripts
  <2>5. HandingOver' = HandingOver
    BY <2>1, <2>2 DEF HandingOver, Callers
  <2>6. Conversations' = Conversations
    BY <2>1, <2>2, CallersAssumption DEF Conversations, Callers
  <2> QED  BY <2>1, <2>3, <2>4, <2>5, <2>6, NoneChanges
<1> QED  BY <1>1, <1>2, <1>3 DEF CallerStep

\* A slot goes from the call to the thread with its job.
LEMMA CountStepCalls ==
    ASSUME SlotInv, CountInv, NEW c \in Calls, CallStep(c)
    PROVE  CountInv'
<1>1. c \in Callers /\ c \notin Hosts /\ c # Nothing
  BY CallersAssumption, ThreadsAssumption DEF Callers
<1>2. \A d \in Callers \ {c} : pc'[d] = pc[d]
  BY DEF CallStep, Pop, Send, Spawn, SpawnFails, Leave, SlotInv, CallsInv
<1>3. Conversations' = Conversations
  <2>1. UNCHANGED talk
    BY DEF CallStep, Pop, Send, Spawn, SpawnFails, hostVars
  <2> QED  BY <1>1, <1>2, <2>1 DEF Conversations, Callers
<1>4. CASE Pop(c)
  <2>1. UNCHANGED <<taken, forkVars, thread, chan>>
    BY <1>4 DEF Pop, slotVars
  <2>2. {pc[c], pc'[c]} \subseteq {"slot", "spawn", "popped"}
    BY <1>1, <1>4 DEF Pop, SlotInv, CallsInv
  <2>3. HandingOver' = HandingOver /\ Queued' = Queued /\ Scripts' = Scripts
    BY <1>1, <1>2, <2>1, <2>2 DEF HandingOver, Queued, Scripts, Callers
  <2> QED  BY <1>3, <2>1, <2>3, NoneChanges
<1>5. ASSUME NEW t \in Threads, chan[t] = Nothing, chan' = [chan EXCEPT ![t] = c],
             pc[c] \in {"popped", "spawn"}, pc' = [pc EXCEPT ![c] = "await"],
             Scripts' = Scripts, UNCHANGED <<taken, forkVars>>
      PROVE  CountInv'
  <2>1. HandingOver' = HandingOver \ {c} /\ c \in HandingOver
    <3>1. pc'[c] = "await"
      BY <1>1, <1>5 DEF SlotInv, CallsInv
    <3> QED  BY <1>1, <1>2, <1>5, <3>1 DEF HandingOver, Callers
  <2>2. Queued' = Queued \cup {t} /\ t \notin Queued
    BY <1>1, <1>5 DEF Queued, SlotInv, JobsInv
  <2>3. /\ Cardinality(HandingOver') = Cardinality(HandingOver) - 1
        /\ Cardinality(Queued') = Cardinality(Queued) + 1
    BY <2>1, <2>2, Sizes, Gains, Loses
  <2>4. Running' = Running /\ Running \in Nat
    BY <1>3, <1>5, <2>3, Sizes DEF Running
  <2> QED  BY <1>5, <2>4, Balance DEF CountInv, forkVars
<1>6. CASE Send(c)
  <2>1. /\ pc[c] = "popped" /\ UNCHANGED <<taken, forkVars, thread>>
        /\ chan' = [chan EXCEPT ![popped[c]] = c] /\ pc' = [pc EXCEPT ![c] = "await"]
    BY <1>6 DEF Send, slotVars
  <2>2. popped[c] \in Threads /\ TakenOff(popped[c])
    BY <2>1 DEF SlotInv, TakenInv, TakenOff
  <2>3. chan[popped[c]] = Nothing
    BY <2>2 DEF SlotInv, TakenInv
  <2>4. Scripts' = Scripts
    BY <2>1 DEF Scripts
  <2> QED  BY <1>5, <2>1, <2>2, <2>3, <2>4
<1>7. CASE Spawn(c)
  <2>1. PICK t \in Threads : /\ thread[t] = "none" /\ thread' = [thread EXCEPT ![t] = "resting"]
                             /\ chan' = [chan EXCEPT ![t] = c]
    BY <1>7 DEF Spawn
  <2>2. /\ pc[c] = "spawn" /\ UNCHANGED <<taken, forkVars>>
        /\ pc' = [pc EXCEPT ![c] = "await"]
    BY <1>7 DEF Spawn, slotVars
  <2>3. chan[t] = Nothing
    BY <2>1 DEF SlotInv, TakenInv
  <2>4. Scripts' = Scripts
    BY <2>1 DEF Scripts, SlotInv, TakenInv
  <2> QED  BY <1>5, <2>1, <2>2, <2>3, <2>4
<1>8. CASE SpawnFails(c)
  <2>1. /\ UNCHANGED <<forkVars, thread, chan>> /\ FreeSlot
        /\ pc[c] = "spawn" /\ pc'[c] = "out"
    BY <1>1, <1>8 DEF SpawnFails, Leave, threadVars, SlotInv, CallsInv
  <2>2. HandingOver' = HandingOver \ {c} /\ c \in HandingOver
    BY <1>1, <1>2, <2>1 DEF HandingOver, Callers
  <2>3. Queued' = Queued /\ Scripts' = Scripts
    BY <2>1 DEF Queued, Scripts
  <2> QED  BY <1>3, <2>1, <2>2, <2>3, OneEnds
<1> QED  BY <1>4, <1>6, <1>7, <1>8 DEF CallStep

\* A slot ends with the later one of a call and its conversation.
LEMMA CountStepHosts ==
    ASSUME SlotInv, HostInv, CountInv, NEW h \in Hosts,
           \/ HostStep(h) \/ TalkStep(h)
           \/ Asks(h) \/ LookupEnds(h) \/ Says(h) \/ WorkerDies(h)
    PROVE  CountInv'
<1>1. h \in Callers /\ h \notin Calls
  BY CallersAssumption DEF Callers
<1>2. UNCHANGED <<forkVars, thread, chan>>
  BY DEF HostStep, StartWorker, SpawnTalk, Reap, LetGo, TalkStep, Hello, PipesClose, TalkEnds,
         Asks, LookupEnds, Says, WorkerDies, threadVars
<1>3. \A d \in Callers \ {h} : pc'[d] = pc[d]
  <2>1. CASE HostStep(h)
    BY <2>1 DEF HostStep, StartWorker, SpawnTalk, Reap, LetGo, Leave, SlotInv, CallsInv
  <2>2. CASE ~HostStep(h)
    BY <2>2 DEF TalkStep, Hello, PipesClose, TalkEnds, Asks, LookupEnds, Says, WorkerDies, callVars
  <2> QED  BY <2>1, <2>2
<1>4. \A g \in Hosts \ {h} : talk'[g] = talk[g]
  <2>1. UNCHANGED talk \/ \E s : talk' = [talk EXCEPT ![h] = s]
    BY DEF HostStep, StartWorker, SpawnTalk, Reap, LetGo, TalkStep, Hello, PipesClose, TalkEnds,
           Asks, LookupEnds, Says, WorkerDies, Tell, hostVars
  <2> QED  BY <2>1 DEF HostInv
<1>5. HandingOver' = HandingOver /\ Queued' = Queued /\ Scripts' = Scripts
  BY <1>1, <1>2, <1>3 DEF HandingOver, Queued, Scripts, Callers
<1>6. ASSUME UNCHANGED taken, h \in Conversations, h \in Conversations' PROVE CountInv'
  <2>1. Conversations' = Conversations
    BY <1>3, <1>4, <1>6 DEF Conversations, Callers
  <2> QED  BY <1>2, <1>5, <1>6, <2>1, NoneChanges
<1>7. ASSUME FreeSlot, h \in Conversations, h \notin Conversations' PROVE CountInv'
  <2>1. Conversations' = Conversations \ {h}
    BY <1>3, <1>4, <1>7 DEF Conversations, Callers
  <2> QED  BY <1>2, <1>5, <1>7, <2>1, OneEnds
<1>8. CASE StartWorker(h)
  <2>1. pc[h] = "slot" /\ talk'[h] = "none" /\ h \in Conversations
    BY <1>8 DEF StartWorker, HostInv, Conversations
  <2>2. \/ UNCHANGED slotVars /\ pc'[h] = "spawn"
        \/ FreeSlot /\ pc'[h] = "out"
    BY <1>1, <1>8 DEF StartWorker, Leave, SlotInv, CallsInv
  <2> QED  BY <1>6, <1>7, <2>1, <2>2 DEF Conversations, slotVars
<1>9. CASE SpawnTalk(h) \/ Reap(h)
  <2>1. pc[h] \in {"spawn", "reap"} /\ pc'[h] \in {"await", "reap", "letgo"} /\ UNCHANGED taken
    BY <1>1, <1>9 DEF SpawnTalk, Reap, SlotInv, CallsInv, slotVars
  <2> QED  BY <1>6, <2>1 DEF Conversations
<1>10. CASE LetGo(h)
  <2>1. pc[h] = "letgo" /\ pc'[h] = "out" /\ UNCHANGED talk
    BY <1>1, <1>10 DEF LetGo, Leave, SlotInv, CallsInv, hostVars
  <2>2. IF talk[h] = "none" THEN FreeSlot ELSE UNCHANGED slotVars
    BY <1>10 DEF LetGo
  <2> QED  BY <1>6, <1>7, <2>1, <2>2 DEF Conversations, slotVars
<1>11. CASE TalkEnds(h)
  <2>1. talk[h] = "sent" /\ talk'[h] = "none" /\ UNCHANGED pc
    BY <1>11 DEF TalkEnds, HostInv, callVars
  <2>2. IF pc[h] = "out" THEN FreeSlot ELSE UNCHANGED slotVars
    BY <1>11 DEF TalkEnds
  <2>3. pc[h] \in {"out", "slot", "await", "reap", "letgo"}
    BY <1>1, <2>1 DEF HostInv, SlotInv, CallsInv, Places
  <2> QED  BY <1>6, <1>7, <2>1, <2>2, <2>3 DEF Conversations, slotVars
<1>12. CASE Hello(h) \/ PipesClose(h) \/ Asks(h) \/ LookupEnds(h) \/ Says(h)
  <2>1. UNCHANGED taken /\ talk[h] # "none"
    BY <1>12 DEF Hello, PipesClose, Asks, LookupEnds, Says, slotVars
  <2>2. \E s \in {"talking", "lookup", "sent"} : talk' = [talk EXCEPT ![h] = s]
    BY <1>12 DEF Hello, PipesClose, Asks, LookupEnds, Says, Tell
  <2>3. talk'[h] # "none"
    BY <2>2 DEF HostInv
  <2> QED  BY <1>6, <2>1, <2>3 DEF Conversations
<1>13. CASE WorkerDies(h)
  <2>1. UNCHANGED <<taken, pc, talk>>
    BY <1>13 DEF WorkerDies, slotVars, callVars
  <2>2. Conversations' = Conversations
    BY <2>1 DEF Conversations
  <2> QED  BY <1>2, <1>5, <2>1, <2>2, NoneChanges
<1> QED  BY <1>8, <1>9, <1>10, <1>11, <1>12, <1>13 DEF HostStep, TalkStep

\* A slot goes from the channel to the script, and ends with it.
LEMMA CountStepThreads ==
    ASSUME SlotInv, CountInv, NEW t \in Threads,
           ThreadStep(t) \/ Finish(t) \/ JobPanics(t) \/ Lingers(t)
    PROVE  CountInv'
<1>1. UNCHANGED <<forkVars, pc, talk>>
  BY DEF ThreadStep, Receive, GiveSlotBack, Reply, LooksForItself, Finish, JobPanics, Lingers,
         hostVars, callVars
<1>2. HandingOver' = HandingOver /\ Conversations' = Conversations
  BY <1>1 DEF HandingOver, Conversations
<1>3. PICK s \in {"busy", "freed", "resting", "none", "struck", "listed", "lingered"} :
          thread' = [thread EXCEPT ![t] = s]
  BY DEF ThreadStep, Receive, GiveSlotBack, Reply, LooksForItself, Finish, JobPanics, Lingers
<1>4. thread'[t] = s /\ \A u \in Threads \ {t} : thread'[u] = thread[u]
  BY <1>3 DEF SlotInv, TakenInv
<1>5. CASE Receive(t)
  <2>1. /\ chan[t] # Nothing /\ chan' = [chan EXCEPT ![t] = Nothing] /\ UNCHANGED taken
        /\ thread[t] \in {"resting", "struck"} /\ thread'[t] = "busy"
    BY <1>5 DEF Receive, slotVars, SlotInv, TakenInv
  <2>2. Queued' = Queued \ {t} /\ t \in Queued
    BY <2>1 DEF Queued, SlotInv, JobsInv
  <2>3. Scripts' = Scripts \cup {t} /\ t \notin Scripts
    BY <1>4, <2>1 DEF Scripts
  <2>4. /\ Cardinality(Queued') = Cardinality(Queued) - 1
        /\ Cardinality(Scripts') = Cardinality(Scripts) + 1
    BY <2>2, <2>3, Sizes, Gains, Loses
  <2>5. Running' = Running /\ Running \in Nat
    BY <1>2, <2>4, Sizes DEF Running
  <2> QED  BY <1>1, <2>1, <2>5, Balance DEF CountInv, forkVars
<1>6. CASE GiveSlotBack(t) \/ JobPanics(t)
  <2>1. /\ UNCHANGED chan /\ FreeSlot
        /\ thread[t] \in {"listed", "busy"} /\ thread'[t] \in {"freed", "none"}
    BY <1>6 DEF GiveSlotBack, JobPanics, SlotInv, TakenInv
  <2>2. Queued' = Queued /\ Scripts' = Scripts \ {t} /\ t \in Scripts
    BY <1>4, <2>1 DEF Queued, Scripts
  <2> QED  BY <1>1, <1>2, <2>1, <2>2, OneEnds
<1>7. CASE Reply(t) \/ LooksForItself(t) \/ Finish(t) \/ Lingers(t)
  <2>1. /\ UNCHANGED <<taken, chan>>
        /\ \/ {thread[t], thread'[t]} \cap {"busy", "listed"} = {}
           \/ {thread[t], thread'[t]} \subseteq {"busy", "listed"}
    BY <1>7 DEF Reply, LooksForItself, Finish, Lingers, slotVars, SlotInv, TakenInv
  <2>2. Queued' = Queued /\ Scripts' = Scripts
    BY <1>4, <2>1 DEF Queued, Scripts
  <2> QED  BY <1>1, <1>2, <2>1, <2>2, NoneChanges
<1> QED  BY <1>5, <1>6, <1>7 DEF ThreadStep

\* Nothing runs in the child, and everything that ran is lost.
LEMMA CountStepFork ==
    ASSUME CountInv, Fork
    PROVE  CountInv'
<1>1. /\ HandingOver' = {} /\ Queued' = {} /\ Scripts' = {} /\ Conversations' = {}
  BY DEF Fork, HandingOver, Queued, Scripts, Conversations, Callers
<1>2. /\ Cardinality(HandingOver') = 0 /\ Cardinality(Queued') = 0
      /\ Cardinality(Scripts') = 0 /\ Cardinality(Conversations') = 0
  BY <1>1, FS_EmptySet
<1>3. taken \in 0 .. Limit
  BY Sizes, LimitAssumption DEF CountInv
<1>4. taken' = taken /\ lost' = taken /\ forked' = TRUE
  BY DEF Fork
<1>5. taken' = lost' + Cardinality(HandingOver') + Cardinality(Queued')
                     + Cardinality(Scripts') + Cardinality(Conversations')
  BY <1>2, <1>3, <1>4
<1>6. taken' \in Int /\ taken' <= Limit /\ lost' \in 0 .. Limit
  BY <1>3, <1>4, LimitAssumption
<1> QED  BY <1>4, <1>5, <1>6, Zenon DEF CountInv

\* Every step keeps the count.
LEMMA CountStep == SlotInv /\ HostInv /\ CountInv /\ [Next]_vars => CountInv'
<1> SUFFICES ASSUME SlotInv, HostInv, CountInv, [Next]_vars PROVE CountInv'
  OBVIOUS
<1>1. CASE UNCHANGED vars
  <2>1. UNCHANGED <<taken, forkVars, pc, chan, thread, talk>>
    BY <1>1 DEF vars, slotVars, callVars, threadVars, hostVars
  <2>2. /\ HandingOver' = HandingOver /\ Queued' = Queued
        /\ Scripts' = Scripts /\ Conversations' = Conversations
    BY <2>1 DEF HandingOver, Queued, Scripts, Conversations
  <2> QED  BY <2>1, <2>2, NoneChanges
<1> QED  BY <1>1, CountStepCallers, CountStepCalls, CountStepHosts, CountStepThreads,
            CountStepFork DEF Next

-----------------------------------------------------------------------------
(* The threads.                                                            *)

\* No thread more, and no call more on its way to make one.
LEMMA FewerThreads ==
    ASSUME ThreadsInv, Alive' \subseteq Alive, Spawning' \subseteq Spawning
    PROVE  ThreadsInv'
<1>1. /\ Cardinality(Alive') \in Nat /\ Cardinality(Alive') <= Cardinality(Alive)
      /\ Cardinality(Spawning') \in Nat /\ Cardinality(Spawning') <= Cardinality(Spawning)
  BY Sizes, FS_Subset, FS_CardinalityType
<1> QED  BY <1>1, Sizes, LimitAssumption DEF ThreadsInv

\* Each thread that was taken off the list is one caller's.
LEMMA TakersAreThreads ==
    ASSUME SlotInv
    PROVE  LET T == {t \in Threads : TakenOff(t)}
               P == {c \in Calls : pc[c] = "popped"}
           IN  /\ IsFiniteSet(T) /\ IsFiniteSet(P)
               /\ Cardinality(T) <= Cardinality(P)
<1> DEFINE T == {t \in Threads : TakenOff(t)}
           P == {c \in Calls : pc[c] = "popped"}
           f == [c \in P |-> popped[c]]
<1>1. IsFiniteSet(P)
  BY FiniteAssumption, FS_Subset
<1>2. f \in Surjection(P, T)
  <2>1. \A c \in P : popped[c] \in T
    BY DEF SlotInv, TakenInv, TakenOff
  <2>2. \A t \in T : \E c \in P : popped[c] = t
    BY ThreadsAssumption DEF SlotInv, TakenInv, TakenOff
  <2> QED  BY <2>1, <2>2 DEF Surjection
<1> HIDE DEF T, P, f
<1>3. IsFiniteSet(T) /\ Cardinality(T) <= Cardinality(P)
  BY <1>1, <1>2, FS_Surjection
<1> QED  BY <1>1, <1>3 DEF T, P

\* When no thread is on the list, each that is alive has a slot's job, or will.
LEMMA NoThreadIsFree ==
    ASSUME SlotInv, CountInv, NEW c \in Calls, pc[c] = "slot", idle = <<>>
    PROVE  Cardinality(Alive) + Cardinality(Spawning) + 1 <= Limit
<1> DEFINE T == {t \in Threads : TakenOff(t)}
           P == {d \in Calls : pc[d] = "popped"}
           N == Spawning \cup {c}
<1>1. IsFiniteSet(T) /\ IsFiniteSet(P) /\ Cardinality(T) <= Cardinality(P)
  BY TakersAreThreads
<1>2. Alive \subseteq (Queued \cup Scripts) \cup T
  <2>1. \A t \in Threads : ~OnList(t)
    BY DEF OnList
  <2> QED  BY <2>1 DEF Alive, Queued, Scripts, SlotInv, TakenInv
<1>3. /\ c \notin Spawning /\ IsFiniteSet(N) /\ Cardinality(N) = Cardinality(Spawning) + 1
  BY Sizes, Gains, FS_AddElement DEF Spawning
<1>4. N \cap P = {} /\ N \cup P \subseteq HandingOver
  BY DEF Spawning, HandingOver
<1> HIDE DEF T, P, N
<1>5. /\ Cardinality(T) \in Nat /\ Cardinality(P) \in Nat /\ Cardinality(N) \in Nat
  BY <1>1, <1>3, FS_CardinalityType
<1>6. Cardinality(N) + Cardinality(P) <= Cardinality(HandingOver)
  <2>1. /\ IsFiniteSet(N \cup P)
        /\ Cardinality(N \cup P) = Cardinality(N) + Cardinality(P) - Cardinality(N \cap P)
    BY <1>1, <1>3, FS_Union
  <2>2. Cardinality(N \cap P) = 0
    BY <1>4, FS_EmptySet
  <2>3. Cardinality(N \cup P) <= Cardinality(HandingOver) /\ Cardinality(N \cup P) \in Nat
    BY <1>4, <2>1, Sizes, FS_Subset, FS_CardinalityType
  <2> QED  BY <1>5, <2>1, <2>2, <2>3
<1>7. Cardinality(Alive) <= Cardinality(Queued) + Cardinality(Scripts) + Cardinality(T)
  <2>1. /\ IsFiniteSet(Queued \cup Scripts)
        /\ Cardinality(Queued \cup Scripts) =
             Cardinality(Queued) + Cardinality(Scripts) - Cardinality(Queued \cap Scripts)
    BY Sizes, FS_Union
  <2>2. /\ IsFiniteSet((Queued \cup Scripts) \cup T)
        /\ Cardinality((Queued \cup Scripts) \cup T) =
             Cardinality(Queued \cup Scripts) + Cardinality(T)
             - Cardinality((Queued \cup Scripts) \cap T)
    BY <1>1, <2>1, FS_Union
  <2>3. IsFiniteSet(Queued \cap Scripts) /\ IsFiniteSet((Queued \cup Scripts) \cap T)
    <3>1. Queued \cap Scripts \in SUBSET Queued /\ (Queued \cup Scripts) \cap T \in SUBSET T
      OBVIOUS
    <3> QED  BY <1>1, <3>1, Sizes, FS_Subset
  <2>4. /\ Cardinality(Queued \cap Scripts) \in Nat
        /\ Cardinality((Queued \cup Scripts) \cap T) \in Nat
        /\ Cardinality(Queued \cup Scripts) \in Nat
        /\ Cardinality((Queued \cup Scripts) \cup T) \in Nat
    BY <2>1, <2>2, <2>3, FS_CardinalityType
  <2>5. Cardinality(Alive) <= Cardinality((Queued \cup Scripts) \cup T)
    BY <1>2, <2>2, FS_Subset
  <2> QED  BY <1>5, <2>1, <2>2, <2>4, <2>5, Sizes
<1>8. Cardinality(HandingOver) + Cardinality(Queued) + Cardinality(Scripts) <= Limit
  BY Sizes, LimitAssumption DEF CountInv
<1> QED  BY <1>1, <1>3, <1>5, <1>6, <1>7, <1>8, Sizes, LimitAssumption

\* Every step keeps the threads within the limit.
LEMMA ThreadsStep == SlotInv /\ CountInv /\ ThreadsInv /\ [Next]_vars => ThreadsInv'
<1> SUFFICES ASSUME SlotInv, CountInv, ThreadsInv, [Next]_vars PROVE ThreadsInv'
  OBVIOUS
<1>1. ASSUME UNCHANGED thread, NEW c \in Callers, NEW p, pc' = [pc EXCEPT ![c] = p], c \in Calls => p # "spawn"
      PROVE  ThreadsInv'
  <2>1. \A d \in Calls : pc'[d] = IF d = c THEN p ELSE pc[d]
    BY <1>1 DEF SlotInv, CallsInv, Callers
  <2>2. Alive' = Alive /\ Spawning' \subseteq Spawning
    BY <1>1, <2>1 DEF Alive, Spawning
  <2> QED  BY <2>2, FewerThreads
<1>2. ASSUME UNCHANGED pc, \A t \in Threads : thread[t] = "none" => thread'[t] = "none"
      PROVE  ThreadsInv'
  BY <1>2, FewerThreads DEF Alive, Spawning
<1>3. ASSUME NEW c \in Callers, Call(c) \/ Park(c) \/ CallerStep(c) PROVE ThreadsInv'
  <2>1. UNCHANGED thread
    BY <1>3 DEF Call, Park, CallerStep, Acquire, Saturated, Answered, TimedOut, threadVars
  <2>2. \E p \in {"waiting", "parked", "slot", "out", "reap"} : pc' = [pc EXCEPT ![c] = p]
    BY <1>3 DEF Call, Park, CallerStep, Acquire, Saturated, Answered, TimedOut, WaitEnds, Leave
  <2> QED  BY <1>1, <2>1, <2>2
<1>4. ASSUME NEW c \in Calls, CallStep(c) PROVE ThreadsInv'
  <2>1. c \in Callers
    BY DEF Callers
  <2>2. CASE Pop(c) /\ idle # <<>>
    <3>1. UNCHANGED thread /\ (UNCHANGED pc \/ pc' = [pc EXCEPT ![c] = "popped"])
      BY <2>2 DEF Pop
    <3> QED  BY <1>1, <1>2, <2>1, <3>1
  <2>3. CASE Pop(c) /\ idle = <<>>
    <3>1. pc[c] = "slot" /\ pc' = [pc EXCEPT ![c] = "spawn"] /\ UNCHANGED thread
      BY <2>3 DEF Pop
    <3>2. Cardinality(Alive) + Cardinality(Spawning) + 1 <= Limit
      BY <2>3, <3>1, NoThreadIsFree
    <3>3. Alive' = Alive /\ Spawning' = Spawning \cup {c} /\ c \notin Spawning
      BY <2>1, <3>1 DEF Alive, Spawning, SlotInv, CallsInv, Callers
    <3>4. Cardinality(Spawning') = Cardinality(Spawning) + 1
      BY <3>3, Sizes, Gains
    <3> QED  BY <3>2, <3>3, <3>4, Sizes, LimitAssumption DEF ThreadsInv
  <2>4. CASE Spawn(c)
    <3>1. PICK t \in Threads : thread[t] = "none" /\ thread' = [thread EXCEPT ![t] = "resting"]
      BY <2>4 DEF Spawn
    <3>2. pc[c] = "spawn" /\ pc' = [pc EXCEPT ![c] = "await"]
      BY <2>4 DEF Spawn
    <3>3. Alive' = Alive \cup {t} /\ t \notin Alive
      BY <3>1 DEF Alive, SlotInv, TakenInv
    <3>4. Spawning' = Spawning \ {c} /\ c \in Spawning
      BY <2>1, <3>2 DEF Spawning, SlotInv, CallsInv, Callers
    <3>5. /\ Cardinality(Alive') = Cardinality(Alive) + 1
          /\ Cardinality(Spawning') = Cardinality(Spawning) - 1
      BY <3>3, <3>4, Sizes, Gains, Loses
    <3> QED  BY <3>5, Sizes, LimitAssumption DEF ThreadsInv
  <2>5. CASE Send(c) \/ SpawnFails(c)
    <3>1. UNCHANGED thread /\ \E p \in {"await", "out"} : pc' = [pc EXCEPT ![c] = p]
      BY <2>5 DEF Send, SpawnFails, Leave, threadVars
    <3> QED  BY <1>1, <2>1, <3>1
  <2> QED  BY <1>4, <2>2, <2>3, <2>4, <2>5 DEF CallStep
<1>5. ASSUME NEW h \in Hosts,
             HostStep(h) \/ TalkStep(h) \/ Asks(h) \/ LookupEnds(h) \/ Says(h) \/ WorkerDies(h)
      PROVE  ThreadsInv'
  <2>1. h \in Callers /\ h \notin Calls
    BY CallersAssumption DEF Callers
  <2>2. UNCHANGED thread /\ (UNCHANGED pc \/ \E p : pc' = [pc EXCEPT ![h] = p])
    BY <1>5 DEF HostStep, StartWorker, SpawnTalk, Reap, LetGo, Leave, TalkStep, Hello, PipesClose,
                TalkEnds, Asks, LookupEnds, Says, WorkerDies, threadVars, callVars
  <2> QED  BY <1>1, <1>2, <2>1, <2>2
<1>6. ASSUME NEW t \in Threads, ThreadStep(t) \/ Finish(t) \/ JobPanics(t) \/ Lingers(t)
      PROVE  ThreadsInv'
  <2>1. UNCHANGED pc /\ thread[t] # "none"
    BY <1>6 DEF ThreadStep, Receive, GiveSlotBack, Reply, LooksForItself, Finish, JobPanics,
                Lingers, callVars
  <2>2. \E s : thread' = [thread EXCEPT ![t] = s]
    BY <1>6 DEF ThreadStep, Receive, GiveSlotBack, Reply, LooksForItself, Finish, JobPanics, Lingers
  <2>3. \A u \in Threads : thread[u] = "none" => thread'[u] = "none"
    BY <2>1, <2>2 DEF SlotInv, TakenInv
  <2> QED  BY <1>2, <2>1, <2>3
<1>7. CASE Fork
  <2>1. Alive' = {} /\ Spawning' = {}
    BY <1>7 DEF Fork, Alive, Spawning, Callers
  <2> QED  BY <2>1, FewerThreads
<1>8. CASE UNCHANGED vars
  BY <1>2, <1>8 DEF vars, callVars, threadVars
<1> QED  BY <1>3, <1>4, <1>5, <1>6, <1>7, <1>8 DEF Next

\* Nothing is taken at the start.
LEMMA CountInit == Init => HostInv /\ CountInv /\ ThreadsInv
<1> SUFFICES ASSUME Init PROVE HostInv /\ CountInv /\ ThreadsInv
  OBVIOUS
<1>1. HostInv
  BY DEF Init, HostInv, Callers
<1>2. /\ HandingOver = {} /\ Queued = {} /\ Scripts = {} /\ Conversations = {}
      /\ Alive = {} /\ Spawning = {}
  BY DEF Init, HandingOver, Queued, Scripts, Conversations, Alive, Spawning, Callers
<1>3. Cardinality({}) = 0
  BY FS_EmptySet
<1>4. CountInv
  <2>1. taken = 0 /\ lost = 0 /\ forked \in BOOLEAN
    BY DEF Init
  <2>2. 0 = 0 + 0 + 0 + 0 + 0 /\ 0 \in 0 .. Limit /\ 0 \in Int /\ 0 <= Limit
    BY LimitAssumption
  <2> QED  BY ONLY Zenon, <1>2, <1>3, <2>1, <2>2 DEF CountInv
<1>5. ThreadsInv
  BY <1>2, <1>3, LimitAssumption DEF ThreadsInv
<1> QED  BY <1>1, <1>4, <1>5

\* The invariants imply the types.
LEMMA TypesFollow == SlotInv /\ HostInv /\ CountInv => TypeOK
<1> SUFFICES ASSUME SlotInv, HostInv, CountInv PROVE TypeOK
  OBVIOUS
<1>1. taken \in 0 .. Limit /\ lost \in 0 .. Limit /\ forked \in BOOLEAN
  <2>1. taken \in 0 .. Limit
    BY Sizes, LimitAssumption DEF CountInv
  <2> QED  BY <2>1, Zenon DEF CountInv
<1>2. /\ notified \subseteq {c \in Callers : pc[c] = "parked"}
      /\ pc \in [Callers -> {"out", "waiting", "parked", "slot", "popped", "spawn",
                             "await", "reap", "letgo"}]
      /\ answered \subseteq {c \in Callers : pc[c] = "await"}
  BY Zenon DEF SlotInv, CallsInv, Parked, Awaiting, Places
<1>3. /\ idle \in Seq(Threads \cup {Foreign})
      /\ popped \in [Calls -> Threads \cup {Nothing}]
      /\ thread \in [Threads -> {"none", "busy", "listed", "freed", "resting",
                                 "lingered", "struck"}]
      /\ chan \in [Threads -> Jobs \cup {Nothing}]
      /\ job \in [Threads -> Jobs \cup {Nothing}]
  BY Zenon DEF SlotInv, ListInv, TakenInv, JobsInv
<1>4. /\ worker \in [Hosts -> {"none", "up", "script", "asking", "done", "dead"}]
      /\ talk \in [Hosts -> {"none", "hello", "talking", "lookup", "sent"}]
  BY Zenon DEF HostInv
<1> QED  BY <1>1, <1>2, <1>3, <1>4, Zenon DEF TypeOK

\* Every slot that is taken is held once, by a call, a script or a conversation
\* that still runs, or is one that a fork lost; and idle threads included, there
\* are no more of them than slots (budget.rs: Slot, Slots::dispatch).
THEOREM EverySlotIsHeld == Spec => []SlotsAreCounted
<1>1. SlotInv /\ HostInv /\ CountInv /\ ThreadsInv => SlotsAreCounted
  <2> SUFFICES ASSUME SlotInv, HostInv, CountInv, ThreadsInv PROVE SlotsAreCounted
    OBVIOUS
  <2>1. \A h \in Hosts : worker[h] # "none" => h \in Conversations
    BY DEF HostInv, Conversations
  <2>2. Cardinality({t \in Threads : thread[t] # "none"}) <= Limit
    BY Sizes, LimitAssumption DEF ThreadsInv, Alive
  <2> QED  BY <2>1, <2>2, TypesFollow DEF SlotsAreCounted, CountInv
<1>2. SlotInv /\ HostInv /\ [Next]_vars => HostInv'
  BY HostStepsKeep DEF SlotInv
<1> QED  BY <1>1, <1>2, SlotInvInit, CountInit, SlotInvStep, CountStep, ThreadsStep, PTL DEF Spec

=============================================================================
