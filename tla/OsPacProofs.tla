---------------------------- MODULE OsPacProofs ----------------------------
(***************************************************************************)
(* The native engines, for any number of resolutions and of threads and    *)
(* for lists of any length: no callback outlives what it uses, and Direct  *)
(* is earned.                                                              *)
(*                                                                         *)
(* The two engines never act in one behaviour, so each has an invariant of *)
(* its own that the steps of the other leave alone.                        *)
(***************************************************************************)
EXTENDS OsPac, SequencesExt, TLAPS

-----------------------------------------------------------------------------
(* WinHTTP.                                                                *)

\* Who holds what, by where the caller is and where WinHTTP is.
Owners(r) ==
    /\ "caller" \in refs[r] <=> pc[r] \in {"ready", "waiting", "woken", "result",
                                           "leaving", "expired", "dropping"}
    /\ "system" \in refs[r] <=> pc[r] = "ready" \/ ~W!Quiet(r)
    /\ handle[r] <=> pc[r] \in {"ready", "waiting", "woken", "result", "leaving",
                                "closing", "expired"}
    /\ buffers[r] <=> pc[r] \in {"ready", "waiting", "woken", "result", "leaving",
                                 "expired", "dropping"}
    /\ pc[r] # "idle" => session

\* An operation runs for a caller who waits or has given up; it calls back once,
\* after it has ended; and the event is set by that callback.
Order(r) ==
    /\ op[r] = "running" => pc[r] \in {"waiting", "expired"}
    /\ op[r] # "none" => callback[r] = "none"
    /\ pc[r] \in {"asked", "ready"} => W!Quiet(r)
    /\ pc[r] = "ready" => ~done[r]
    /\ pc[r] = "waiting" => (done[r] <=> op[r] = "none" /\ callback[r] \in {"none", "drop"})
    /\ pc[r] \in {"woken", "result", "leaving", "closing"} =>
            op[r] = "none" /\ callback[r] \in {"none", "drop"}

\* What is known of the end, and what was made of it.
Knowledge(r) ==
    /\ op[r] # "none" => answer[r] \in {"none", "timeout", "broken"}
    /\ callback[r] # "none" => told[r] \in W!Ends
    /\ callback[r] \in {"set", "drop"} => status[r] = W!StatusOf(told[r])
    /\ pc[r] = "waiting" /\ done[r] => told[r] \in W!Ends /\ status[r] = W!StatusOf(told[r])
    /\ pc[r] = "woken" => told[r] \in W!Ends /\ status[r] = W!StatusOf(told[r])
    /\ pc[r] = "result" => told[r] \in W!Ran
    /\ pc[r] \in {"asked", "ready", "waiting", "woken", "result"} => answer[r] = "none"
    /\ pc[r] \in {"expired", "dropping"} => answer[r] \in {"timeout", "broken"}
    /\ answer[r] \in {"direct", "manual", "proxy", "error"} =>
            /\ callback[r] \in {"none", "drop"}
            /\ answer[r] = W!Meaning(asked[r], told[r])

WinInv == W!TypeOK /\ \A r \in Requests : Owners(r) /\ Order(r) /\ Knowledge(r)

\* WinHTTP begins with no resolution and no session.
LEMMA WinInit == W!Init => WinInv
<1> SUFFICES ASSUME W!Init PROVE WinInv
    OBVIOUS
<1>1. W!TypeOK
    BY DEF W!Init, W!TypeOK, W!Asked, W!Answers, W!Ends, W!Ran
<1>2. ASSUME NEW r \in Requests PROVE Owners(r) /\ Order(r) /\ Knowledge(r)
    BY DEF W!Init, Owners, Order, Knowledge, W!Quiet
<1> QED
    BY <1>1, <1>2 DEF WinInv

\* Each action keeps the three parts for the resolution it is about; nothing of
\* the others changes.
LEMMA WinStep == WinInv /\ W!Next => WinInv'
<1> SUFFICES ASSUME WinInv, W!Next PROVE WinInv'
    OBVIOUS
<1> USE DEF WinInv, W!TypeOK, W!Asked, W!Answers, W!Ends, W!Ran, W!StatusOf, W!Meaning,
            W!caller, W!memory, W!pending, W!system, W!resolver
<1>1. CASE W!Open
    BY <1>1 DEF W!Open, Owners, Order, Knowledge, W!Quiet
<1>2. CASE W!Drop
  <2>1. W!TypeOK'
    BY <1>2 DEF W!Drop
  <2>2. ASSUME NEW q \in Requests PROVE Owners(q)' /\ Order(q)' /\ Knowledge(q)'
    BY <1>2 DEF W!Drop, Owners, Order, Knowledge, W!Quiet
  <2> QED
    BY <2>1, <2>2
<1>3. ASSUME NEW r \in Requests, W!ResolvePac(r) PROVE WinInv'
  <2>1. W!TypeOK'
    BY <1>3 DEF W!ResolvePac, W!Begins, W!Goes
  <2>2. ASSUME NEW q \in Requests PROVE Owners(q)'
    BY <1>3 DEF W!ResolvePac, W!Begins, W!Goes, Owners, Order, W!Quiet
  <2>3. ASSUME NEW q \in Requests PROVE Order(q)'
    BY <1>3 DEF W!ResolvePac, W!Begins, W!Goes, Owners, Order, W!Quiet
  <2>4. ASSUME NEW q \in Requests PROVE Knowledge(q)'
    BY <1>3 DEF W!ResolvePac, W!Begins, W!Goes, Order, Knowledge, W!Quiet
  <2> QED
    BY <2>1, <2>2, <2>3, <2>4
<1>4. ASSUME NEW r \in Requests, W!ResolveWpad(r) PROVE WinInv'
  <2>1. W!TypeOK'
    <3>1. CASE \E why \in {"unsupported", "broken"} : W!Refuses(r, why)
        BY <1>4, <3>1 DEF W!ResolveWpad, W!Refuses
    <3>2. CASE \E url, manual \in BOOLEAN :
                    W!Goes(r, [auto |-> TRUE, url |-> url, manual |-> manual])
        BY <1>4, <3>2 DEF W!ResolveWpad, W!Goes
    <3> QED
        BY <1>4, <3>1, <3>2 DEF W!ResolveWpad
  <2>2. ASSUME NEW q \in Requests PROVE Owners(q)'
    BY <1>4 DEF W!ResolveWpad, W!Begins, W!Goes, W!Refuses, Owners, Order, W!Quiet
  <2>3. ASSUME NEW q \in Requests PROVE Order(q)'
    BY <1>4 DEF W!ResolveWpad, W!Begins, W!Goes, W!Refuses, Owners, Order, W!Quiet
  <2>4. ASSUME NEW q \in Requests PROVE Knowledge(q)'
    BY <1>4 DEF W!ResolveWpad, W!Begins, W!Goes, W!Refuses, Order, Knowledge, W!Quiet
  <2> QED
    BY <2>1, <2>2, <2>3, <2>4
<1>5. ASSUME NEW r \in Requests, W!Prepare(r) PROVE WinInv'
  <2>1. W!TypeOK'
    <3>1. CASE /\ handle' = [handle EXCEPT ![r] = TRUE]
               /\ buffers' = [buffers EXCEPT ![r] = TRUE]
               /\ refs' = [refs EXCEPT ![r] = {"caller", "system"}]
               /\ status' = [status EXCEPT ![r] = "success"]
               /\ done' = [done EXCEPT ![r] = FALSE]
               /\ pc' = [pc EXCEPT ![r] = "ready"]
               /\ UNCHANGED <<asked, answer, W!system, W!resolver>>
        BY <3>1
    <3>2. CASE UNCHANGED <<W!memory, W!pending, asked, W!system, W!resolver>>
        BY <1>5, <3>2 DEF W!Prepare
    <3> QED
        BY <1>5, <3>1, <3>2 DEF W!Prepare
  <2>2. ASSUME NEW q \in Requests PROVE Owners(q)'
    BY <1>5 DEF W!Prepare, Owners, Order, W!Quiet
  <2>3. ASSUME NEW q \in Requests PROVE Order(q)'
    BY <1>5 DEF W!Prepare, Owners, Order, W!Quiet
  <2>4. ASSUME NEW q \in Requests PROVE Knowledge(q)'
    BY <1>5 DEF W!Prepare, Order, Knowledge, W!Quiet
  <2> QED
    BY <2>1, <2>2, <2>3, <2>4
<1>6. ASSUME NEW r \in Requests, W!AnswersAtOnce(r) PROVE WinInv'
  <2>1. W!TypeOK'
    <3>1. PICK end \in W!Ends : told' = [told EXCEPT ![r] = end] /\ W!Judge(r, W!StatusOf(end))
        BY <1>6 DEF W!AnswersAtOnce
    <3> QED
        BY <1>6, <3>1 DEF W!AnswersAtOnce, W!Judge, W!Answer, W!IsWpadMiss
  <2>2. ASSUME NEW q \in Requests PROVE Owners(q)'
    BY <1>6 DEF W!AnswersAtOnce, W!Judge, W!Answer, W!IsWpadMiss, Owners, Order, W!Quiet
  <2>3. ASSUME NEW q \in Requests PROVE Order(q)'
    BY <1>6 DEF W!AnswersAtOnce, W!Judge, W!Answer, W!IsWpadMiss, Owners, Order, W!Quiet
  <2>4. ASSUME NEW q \in Requests PROVE Knowledge(q)'
    BY <1>6 DEF W!AnswersAtOnce, W!Judge, W!Answer, W!IsWpadMiss, Order, Knowledge, W!Quiet
  <2> QED
    BY <2>1, <2>2, <2>3, <2>4
<1>7. ASSUME NEW r \in Requests, W!Pends(r) PROVE WinInv'
  <2>1. W!TypeOK'
    BY <1>7 DEF W!Pends
  <2>2. ASSUME NEW q \in Requests PROVE Owners(q)'
    BY <1>7 DEF W!Pends, Owners, Order, W!Quiet
  <2>3. ASSUME NEW q \in Requests PROVE Order(q)'
    BY <1>7 DEF W!Pends, Owners, Order, W!Quiet
  <2>4. ASSUME NEW q \in Requests PROVE Knowledge(q)'
    BY <1>7 DEF W!Pends, Order, Knowledge, W!Quiet
  <2> QED
    BY <2>1, <2>2, <2>3, <2>4
<1>8. ASSUME NEW r \in Requests, W!Woken(r) PROVE WinInv'
  <2>1. W!TypeOK'
    BY <1>8 DEF W!Woken
  <2>2. ASSUME NEW q \in Requests PROVE Owners(q)'
    BY <1>8 DEF W!Woken, Owners, Order, W!Quiet
  <2>3. ASSUME NEW q \in Requests PROVE Order(q)'
    BY <1>8 DEF W!Woken, Owners, Order, W!Quiet
  <2>4. ASSUME NEW q \in Requests PROVE Knowledge(q)'
    BY <1>8 DEF W!Woken, Order, Knowledge, W!Quiet
  <2> QED
    BY <2>1, <2>2, <2>3, <2>4
<1>9. ASSUME NEW r \in Requests, W!ReadsStatus(r) PROVE WinInv'
  <2>1. W!TypeOK'
    BY <1>9 DEF W!ReadsStatus, W!Judge, W!Answer, W!IsWpadMiss
  <2>2. ASSUME NEW q \in Requests PROVE Owners(q)'
    BY <1>9 DEF W!ReadsStatus, W!Judge, W!Answer, W!IsWpadMiss, Owners, Order, W!Quiet
  <2>3. ASSUME NEW q \in Requests PROVE Order(q)'
    BY <1>9 DEF W!ReadsStatus, W!Judge, W!Answer, W!IsWpadMiss, Owners, Order, W!Quiet
  <2>4. ASSUME NEW q \in Requests PROVE Knowledge(q)'
    BY <1>9 DEF W!ReadsStatus, W!Judge, W!Answer, W!IsWpadMiss, Order, Knowledge, W!Quiet
  <2> QED
    BY <2>1, <2>2, <2>3, <2>4
<1>10. ASSUME NEW r \in Requests, W!GetResult(r) PROVE WinInv'
  <2>1. W!TypeOK'
    BY <1>10 DEF W!GetResult, W!Answer
  <2>2. ASSUME NEW q \in Requests PROVE Owners(q)'
    BY <1>10 DEF W!GetResult, W!Answer, Owners, Order, W!Quiet
  <2>3. ASSUME NEW q \in Requests PROVE Order(q)'
    BY <1>10 DEF W!GetResult, W!Answer, Owners, Order, W!Quiet
  <2>4. ASSUME NEW q \in Requests PROVE Knowledge(q)'
    BY <1>10 DEF W!GetResult, W!Answer, Order, Knowledge, W!Quiet
  <2> QED
    BY <2>1, <2>2, <2>3, <2>4
<1>11. ASSUME NEW r \in Requests, W!DropLocals(r) PROVE WinInv'
  <2>1. W!TypeOK'
    BY <1>11 DEF W!DropLocals
  <2>2. ASSUME NEW q \in Requests PROVE Owners(q)'
    BY <1>11 DEF W!DropLocals, Owners, Order, W!Quiet
  <2>3. ASSUME NEW q \in Requests PROVE Order(q)'
    BY <1>11 DEF W!DropLocals, Owners, Order, W!Quiet
  <2>4. ASSUME NEW q \in Requests PROVE Knowledge(q)'
    BY <1>11 DEF W!DropLocals, Order, Knowledge, W!Quiet
  <2> QED
    BY <2>1, <2>2, <2>3, <2>4
<1>12. ASSUME NEW r \in Requests, W!Close(r) PROVE WinInv'
  <2>1. W!TypeOK'
    BY <1>12 DEF W!Close, W!Cancels
  <2>2. ASSUME NEW q \in Requests PROVE Owners(q)'
    BY <1>12 DEF W!Close, W!Cancels, Owners, Order, W!Quiet
  <2>3. ASSUME NEW q \in Requests PROVE Order(q)'
    BY <1>12 DEF W!Close, W!Cancels, Owners, Order, W!Quiet
  <2>4. ASSUME NEW q \in Requests PROVE Knowledge(q)'
    BY <1>12 DEF W!Close, W!Cancels, Order, Knowledge, W!Quiet
  <2> QED
    BY <2>1, <2>2, <2>3, <2>4
<1>13. ASSUME NEW r \in Requests, W!Expire(r) PROVE WinInv'
  <2>1. W!TypeOK'
    BY <1>13 DEF W!Expire
  <2>2. ASSUME NEW q \in Requests PROVE Owners(q)'
    BY <1>13 DEF W!Expire, Owners, Order, W!Quiet
  <2>3. ASSUME NEW q \in Requests PROVE Order(q)'
    BY <1>13 DEF W!Expire, Owners, Order, W!Quiet
  <2>4. ASSUME NEW q \in Requests PROVE Knowledge(q)'
    BY <1>13 DEF W!Expire, Order, Knowledge, W!Quiet
  <2> QED
    BY <2>1, <2>2, <2>3, <2>4
<1>14. ASSUME NEW r \in Requests, W!CloseFirst(r) PROVE WinInv'
  <2>1. W!TypeOK'
    BY <1>14 DEF W!CloseFirst, W!Cancels
  <2>2. ASSUME NEW q \in Requests PROVE Owners(q)'
    BY <1>14 DEF W!CloseFirst, W!Cancels, Owners, Order, W!Quiet
  <2>3. ASSUME NEW q \in Requests PROVE Order(q)'
    BY <1>14 DEF W!CloseFirst, W!Cancels, Owners, Order, W!Quiet
  <2>4. ASSUME NEW q \in Requests PROVE Knowledge(q)'
    BY <1>14 DEF W!CloseFirst, W!Cancels, Order, Knowledge, W!Quiet
  <2> QED
    BY <2>1, <2>2, <2>3, <2>4
<1>15. ASSUME NEW r \in Requests, W!DropRest(r) PROVE WinInv'
  <2>1. W!TypeOK'
    BY <1>15 DEF W!DropRest
  <2>2. ASSUME NEW q \in Requests PROVE Owners(q)'
    BY <1>15 DEF W!DropRest, Owners, Order, W!Quiet
  <2>3. ASSUME NEW q \in Requests PROVE Order(q)'
    BY <1>15 DEF W!DropRest, Owners, Order, W!Quiet
  <2>4. ASSUME NEW q \in Requests PROVE Knowledge(q)'
    BY <1>15 DEF W!DropRest, Order, Knowledge, W!Quiet
  <2> QED
    BY <2>1, <2>2, <2>3, <2>4
<1>16. ASSUME NEW r \in Requests, W!OpEnds(r) PROVE WinInv'
  <2>1. W!TypeOK'
    BY <1>16 DEF W!OpEnds
  <2>2. ASSUME NEW q \in Requests PROVE Owners(q)'
    BY <1>16 DEF W!OpEnds, Owners, Order, W!Quiet
  <2>3. ASSUME NEW q \in Requests PROVE Order(q)'
    BY <1>16 DEF W!OpEnds, Owners, Order, W!Quiet
  <2>4. ASSUME NEW q \in Requests PROVE Knowledge(q)'
    BY <1>16 DEF W!OpEnds, Order, Knowledge, W!Quiet
  <2> QED
    BY <2>1, <2>2, <2>3, <2>4
<1>17. ASSUME NEW r \in Requests, W!Store(r) PROVE WinInv'
  <2>1. W!TypeOK'
    BY <1>17 DEF W!Store, Knowledge
  <2>2. ASSUME NEW q \in Requests PROVE Owners(q)'
    BY <1>17 DEF W!Store, Owners, Order, W!Quiet
  <2>3. ASSUME NEW q \in Requests PROVE Order(q)'
    BY <1>17 DEF W!Store, Owners, Order, W!Quiet
  <2>4. ASSUME NEW q \in Requests PROVE Knowledge(q)'
    BY <1>17 DEF W!Store, Order, Knowledge, W!Quiet
  <2> QED
    BY <2>1, <2>2, <2>3, <2>4
<1>18. ASSUME NEW r \in Requests, W!SetDone(r) PROVE WinInv'
  <2>1. W!TypeOK'
    BY <1>18 DEF W!SetDone
  <2>2. ASSUME NEW q \in Requests PROVE Owners(q)'
    BY <1>18 DEF W!SetDone, Owners, Order, W!Quiet
  <2>3. ASSUME NEW q \in Requests PROVE Order(q)'
    BY <1>18 DEF W!SetDone, Owners, Order, W!Quiet
  <2>4. ASSUME NEW q \in Requests PROVE Knowledge(q)'
    BY <1>18 DEF W!SetDone, Order, Knowledge, W!Quiet
  <2> QED
    BY <2>1, <2>2, <2>3, <2>4
<1>19. ASSUME NEW r \in Requests, W!DropContext(r) PROVE WinInv'
  <2>1. W!TypeOK'
    BY <1>19 DEF W!DropContext
  <2>2. ASSUME NEW q \in Requests PROVE Owners(q)'
    BY <1>19 DEF W!DropContext, Owners, Order, W!Quiet
  <2>3. ASSUME NEW q \in Requests PROVE Order(q)'
    BY <1>19 DEF W!DropContext, Owners, Order, W!Quiet
  <2>4. ASSUME NEW q \in Requests PROVE Knowledge(q)'
    BY <1>19 DEF W!DropContext, Order, Knowledge, W!Quiet
  <2> QED
    BY <2>1, <2>2, <2>3, <2>4
<1> QED
    BY <1>1, <1>2, <1>3, <1>4, <1>5, <1>6, <1>7, <1>8, <1>9, <1>10, <1>11, <1>12, <1>13, <1>14, <1>15, <1>16, <1>17, <1>18, <1>19 DEF W!Next, W!Resolving, W!CallingBack

\* A step elsewhere leaves WinHTTP's part alone.
LEMMA WinStutter == WinInv /\ UNCHANGED windows => WinInv'
BY DEF windows, WinInv, W!TypeOK, Owners, Order, Knowledge, W!Quiet, W!Meaning

\* The invariant of WinHTTP says more than its two properties.
LEMMA WinSafe == WinInv => W!UsersOwnWhatTheyUse /\ W!AnswersAreEarned
BY DEF WinInv, W!TypeOK, Owners, Order, Knowledge, W!Quiet,
       W!UsersOwnWhatTheyUse, W!AnswersAreEarned

-----------------------------------------------------------------------------
(* CFNetwork.                                                              *)

\* The frame, the lock and the source go with the place the thread is at.
Frames(t) ==
    /\ frame[t] <=> where[t] \in {"running", "invalidate", "return"}
    /\ lock = t <=> where[t] \in {"start", "running", "invalidate", "return"}
    /\ source[t] # "none" => where[t] \in {"running", "invalidate"}

\* What a walk has behind it: the host `wpad`, not found.
Walks(t) ==
    /\ \A i \in 1 .. at[t] - 1 : i <= Len(entries[t]) /\ entries[t][i] = "wpad"
    /\ where[t] = "walking" => mode[t] = "wpad" /\ at[t] <= Len(entries[t]) + 1
    /\ where[t] \in {"lock", "start", "running", "invalidate", "return", "judge"} =>
            (mode[t] = "wpad" => at[t] <= Len(entries[t]))
    /\ where[t] \in {"walking", "lock", "start", "running", "invalidate", "return"} =>
            ended[t] \in {"none", "nohost"}
    /\ where[t] = "judge" => ended[t] # "none"
    /\ where[t] # "idle" => reply[t] = "none"
    /\ where[t] = "idle" /\ reply[t] = "none" => at[t] = 1 /\ ended[t] = "none"

\* The reply of one thread (RepliesAreEarned).
Earned(t) ==
    /\ reply[t] \in {"direct", "proxy"} =>
        \/ ended[t] = reply[t]
        \/ /\ mode[t] = "wpad"
           /\ ended[t] \in {"none", "nohost"}
           /\ \/ at[t] > Len(entries[t]) /\ entries[t] # <<>> /\ reply[t] = "direct"
              \/ /\ at[t] <= Len(entries[t]) /\ entries[t][at[t]] \notin C!Scripts
                 /\ \E i \in at[t] .. Len(entries[t]) :
                        C!Leads(t, i) /\ reply[t] = entries[t][i]
    /\ reply[t] = "timeout" => ended[t] = "late"

AppleInv ==
    /\ C!TypeOK
    /\ \A t \in Threads : Frames(t) /\ Walks(t) /\ Earned(t)

\* The lists of the system settings.
LEMMA ListsAreSequences ==
    \A list \in C!Lists :
        list \in Seq(C!Entries) /\ Len(list) \in 0 .. MaxEntries
BY MaxEntriesAssumption DEF C!Lists, C!SeqOf

\* The list without an entry is a list.
LEMMA NoEntries == <<>> \in C!Lists
BY MaxEntriesAssumption DEF C!Lists, C!SeqOf

\* CFNetwork begins with no resolution.
LEMMA AppleInit == C!Init => AppleInv
<1> SUFFICES ASSUME C!Init PROVE AppleInv
    OBVIOUS
<1>2. C!TypeOK
    BY NoEntries, MaxEntriesAssumption DEF C!Init, C!TypeOK, C!Modes, C!Ends
<1>3. ASSUME NEW t \in Threads PROVE Frames(t) /\ Walks(t) /\ Earned(t)
    BY NobodyAssumption DEF C!Init, Frames, Walks, Earned
<1> QED
    BY <1>2, <1>3 DEF AppleInv

\* A reply that says nothing of a proxy needs no reason, and one that stays
\* keeps its reason.
LEMMA Reasons ==
    ASSUME NEW u \in Threads,
           \/ reply'[u] \notin {"direct", "proxy", "timeout"}
           \/ /\ Earned(u)
              /\ reply'[u] = reply[u] /\ ended'[u] = ended[u] /\ mode'[u] = mode[u]
              /\ entries'[u] = entries[u] /\ at'[u] = at[u]
    PROVE  Earned(u)'
BY DEF Earned, C!Leads

\* What a miss does to a walk.
LEMMA Missed ==
    ASSUME NEW t \in Threads, C!Judges(t), C!IsWpadMiss(t)
    PROVE  /\ at' = [at EXCEPT ![t] = at[t] + 1]
           /\ where' = [where EXCEPT ![t] = "walking"]
           /\ UNCHANGED <<lock, mode, entries, frame, slot, source, ended, reply>>
BY DEF C!Judges, C!pump

\* Each action keeps the three parts for its thread; the others keep theirs,
\* the lock of another one included.
LEMMA AppleStep == AppleInv /\ C!Next => AppleInv'
<1> SUFFICES ASSUME AppleInv, C!Next PROVE AppleInv'
    OBVIOUS
<1> USE NobodyAssumption, MaxEntriesAssumption
    DEF AppleInv, C!TypeOK, C!Modes, C!Ends, C!walk, C!pump
<1>0. \A t \in Threads : Len(entries[t]) \in 0 .. MaxEntries /\ entries[t] \in Seq(C!Entries)
    BY ListsAreSequences
<1>1. ASSUME NEW t \in Threads, C!ResolveOne(t) PROVE AppleInv'
  <2>1. C!TypeOK'
    BY <1>1, <1>0, NoEntries DEF C!ResolveOne, C!Begins
  <2>2. ASSUME NEW u \in Threads PROVE Frames(u)'
    BY <1>1 DEF C!ResolveOne, C!Begins, Frames
  <2>3. ASSUME NEW u \in Threads PROVE Walks(u)'
    BY <1>1, <1>0 DEF C!ResolveOne, C!Begins, Walks
  <2>4. ASSUME NEW u \in Threads PROVE Earned(u)'
    <3>1. CASE u = t
        BY <1>1, <3>1, Reasons DEF C!ResolveOne, C!Begins, Walks
    <3>2. CASE u # t
        BY <1>1, <3>2, Reasons DEF C!ResolveOne, C!Begins
    <3> QED
        BY <3>1, <3>2
  <2> QED
    BY <2>1, <2>2, <2>3, <2>4
<1>2. ASSUME NEW t \in Threads, C!ResolveWpad(t) PROVE AppleInv'
  <2>1. C!TypeOK'
    BY <1>2, <1>0, NoEntries DEF C!ResolveWpad, C!Begins
  <2>2. ASSUME NEW u \in Threads PROVE Frames(u)'
    BY <1>2 DEF C!ResolveWpad, C!Begins, Frames
  <2>3. ASSUME NEW u \in Threads PROVE Walks(u)'
    BY <1>2, <1>0 DEF C!ResolveWpad, C!Begins, Walks
  <2>4. ASSUME NEW u \in Threads PROVE Earned(u)'
    <3>1. CASE u = t
        BY <1>2, <3>1, Reasons DEF C!ResolveWpad, C!Begins, Walks
    <3>2. CASE u # t
        BY <1>2, <3>2, Reasons DEF C!ResolveWpad, C!Begins
    <3> QED
        BY <3>1, <3>2
  <2> QED
    BY <2>1, <2>2, <2>3, <2>4
<1>3. ASSUME NEW t \in Threads, C!Refuses(t) PROVE AppleInv'
  <2>1. C!TypeOK'
    BY <1>3, <1>0, NoEntries DEF C!Refuses, C!Returns
  <2>2. ASSUME NEW u \in Threads PROVE Frames(u)'
    BY <1>3 DEF C!Refuses, C!Returns, Frames
  <2>3. ASSUME NEW u \in Threads PROVE Walks(u)'
    BY <1>3, <1>0 DEF C!Refuses, C!Returns, Walks
  <2>4. ASSUME NEW u \in Threads PROVE Earned(u)'
    <3>1. CASE u = t
        BY <1>3, <3>1, Reasons DEF C!Refuses, C!Returns, Walks
    <3>2. CASE u # t
        BY <1>3, <3>2, Reasons DEF C!Refuses, C!Returns
    <3> QED
        BY <3>1, <3>2
  <2> QED
    BY <2>1, <2>2, <2>3, <2>4
<1>4. ASSUME NEW t \in Threads, C!Takes(t) PROVE AppleInv'
  <2>1. C!TypeOK'
    BY <1>4, <1>0, NoEntries DEF C!Takes
  <2>2. ASSUME NEW u \in Threads PROVE Frames(u)'
    BY <1>4 DEF C!Takes, Frames
  <2>3. ASSUME NEW u \in Threads PROVE Walks(u)'
    BY <1>4, <1>0 DEF C!Takes, Walks
  <2>4. ASSUME NEW u \in Threads PROVE Earned(u)'
    <3>1. CASE u = t
        BY <1>4, <3>1, Reasons DEF C!Takes, Walks
    <3>2. CASE u # t
        BY <1>4, <3>2, Reasons DEF C!Takes
    <3> QED
        BY <3>1, <3>2
  <2> QED
    BY <2>1, <2>2, <2>3, <2>4
<1>5. ASSUME NEW t \in Threads, C!Walk(t) PROVE AppleInv'
  <2> USE DEF C!Walk, C!Returns, C!Scripts, C!Entries
  <2>1. CASE at[t] > Len(entries[t])
    <3>0. C!Returns(t, IF entries[t] = <<>> THEN "error" ELSE "direct")
        BY <1>5, <1>0, <2>1
    <3>1. C!TypeOK'
        BY <1>5, <3>0
    <3>2. ASSUME NEW u \in Threads PROVE Frames(u)' /\ Walks(u)'
        BY <1>5, <1>0, <2>1 DEF Frames, Walks
    <3>3. Earned(t)'
        BY <1>5, <1>0, <2>1 DEF Walks, Earned
    <3>4. ASSUME NEW u \in Threads, u # t PROVE Earned(u)'
        BY <1>5, <2>1, <3>4, Reasons
    <3> QED
        BY <3>1, <3>2, <3>3, <3>4
  <2>2. CASE at[t] <= Len(entries[t]) /\ entries[t][at[t]] \in C!Scripts
    <3>1. C!TypeOK'
        BY <1>5, <1>0, <2>2
    <3>2. ASSUME NEW u \in Threads PROVE Frames(u)' /\ Walks(u)'
        BY <1>5, <1>0, <2>2 DEF Frames, Walks
    <3>3. ASSUME NEW u \in Threads PROVE Earned(u)'
        BY <1>5, <2>2, Reasons
    <3> QED
        BY <3>1, <3>2, <3>3
  <2>3. ASSUME at[t] <= Len(entries[t]), entries[t][at[t]] \notin C!Scripts,
               NEW i \in at[t] .. Len(entries[t]), C!Leads(t, i), C!Returns(t, entries[t][i])
        PROVE  AppleInv'
    <3>0. entries[t][i] \in {"proxy", "direct"}
        BY <2>3 DEF C!Leads
    <3>1. C!TypeOK'
        BY <1>5, <2>3, <3>0
    <3>2. ASSUME NEW u \in Threads PROVE Frames(u)' /\ Walks(u)'
        BY <1>5, <1>0, <2>3, <3>0 DEF Frames, Walks
    <3>3. Earned(t)'
        BY <1>5, <1>0, <2>3, <3>0 DEF Walks, Earned, C!Leads
    <3>4. ASSUME NEW u \in Threads, u # t PROVE Earned(u)'
        BY <1>5, <2>3, <3>4, Reasons
    <3> QED
        BY <3>1, <3>2, <3>3, <3>4
  <2>4. CASE at[t] <= Len(entries[t]) /\ entries[t][at[t]] \notin C!Scripts /\ C!Returns(t, "error")
    <3>1. C!TypeOK'
        BY <1>5, <2>4
    <3>2. ASSUME NEW u \in Threads PROVE Frames(u)' /\ Walks(u)'
        BY <1>5, <1>0, <2>4 DEF Frames, Walks
    <3>3. ASSUME NEW u \in Threads PROVE Earned(u)'
        BY <1>5, <2>4, Reasons
    <3> QED
        BY <3>1, <3>2, <3>3
  <2> QED
    BY <1>5, <2>1, <2>2, <2>3, <2>4
<1>6. ASSUME NEW t \in Threads, C!Locks(t) PROVE AppleInv'
  <2>1. C!TypeOK'
    BY <1>6, <1>0, NoEntries DEF C!Locks
  <2>2. ASSUME NEW u \in Threads PROVE Frames(u)'
    BY <1>6 DEF C!Locks, Frames
  <2>3. ASSUME NEW u \in Threads PROVE Walks(u)'
    BY <1>6, <1>0 DEF C!Locks, Walks
  <2>4. ASSUME NEW u \in Threads PROVE Earned(u)'
    <3>1. CASE u = t
        BY <1>6, <3>1, Reasons DEF C!Locks, Walks
    <3>2. CASE u # t
        BY <1>6, <3>2, Reasons DEF C!Locks
    <3> QED
        BY <3>1, <3>2
  <2> QED
    BY <2>1, <2>2, <2>3, <2>4
<1>7. ASSUME NEW t \in Threads, C!Starts(t) PROVE AppleInv'
  <2>1. C!TypeOK'
    BY <1>7, <1>0, NoEntries DEF C!Starts, C!Returns
  <2>2. ASSUME NEW u \in Threads PROVE Frames(u)'
    BY <1>7 DEF C!Starts, C!Returns, Frames
  <2>3. ASSUME NEW u \in Threads PROVE Walks(u)'
    BY <1>7, <1>0 DEF C!Starts, C!Returns, Walks
  <2>4. ASSUME NEW u \in Threads PROVE Earned(u)'
    <3>1. CASE u = t
      <4>1. reply'[t] \in {"none", "broken"}
        BY <1>7 DEF C!Starts, C!Returns, Walks
      <4> QED
        BY <3>1, <4>1, Reasons
    <3>2. CASE u # t
        BY <1>7, <3>2, Reasons DEF C!Starts, C!Returns
    <3> QED
        BY <3>1, <3>2
  <2> QED
    BY <2>1, <2>2, <2>3, <2>4
<1>8. ASSUME NEW t \in Threads, C!Delivers(t) PROVE AppleInv'
  <2>1. C!TypeOK'
    BY <1>8, <1>0, NoEntries DEF C!Delivers
  <2>2. ASSUME NEW u \in Threads PROVE Frames(u)'
    BY <1>8 DEF C!Delivers, Frames
  <2>3. ASSUME NEW u \in Threads PROVE Walks(u)'
    BY <1>8, <1>0 DEF C!Delivers, Walks
  <2>4. ASSUME NEW u \in Threads PROVE Earned(u)'
    <3>1. CASE u = t
        BY <1>8, <3>1, Reasons DEF C!Delivers, Walks
    <3>2. CASE u # t
        BY <1>8, <3>2, Reasons DEF C!Delivers
    <3> QED
        BY <3>1, <3>2
  <2> QED
    BY <2>1, <2>2, <2>3, <2>4
<1>9. ASSUME NEW t \in Threads, C!Expires(t) PROVE AppleInv'
  <2>1. C!TypeOK'
    BY <1>9, <1>0, NoEntries DEF C!Expires
  <2>2. ASSUME NEW u \in Threads PROVE Frames(u)'
    BY <1>9 DEF C!Expires, Frames
  <2>3. ASSUME NEW u \in Threads PROVE Walks(u)'
    BY <1>9, <1>0 DEF C!Expires, Walks
  <2>4. ASSUME NEW u \in Threads PROVE Earned(u)'
    <3>1. CASE u = t
        BY <1>9, <3>1, Reasons DEF C!Expires, Walks
    <3>2. CASE u # t
        BY <1>9, <3>2, Reasons DEF C!Expires
    <3> QED
        BY <3>1, <3>2
  <2> QED
    BY <2>1, <2>2, <2>3, <2>4
<1>10. ASSUME NEW t \in Threads, C!Invalidates(t) PROVE AppleInv'
  <2>1. C!TypeOK'
    BY <1>10, <1>0, NoEntries DEF C!Invalidates
  <2>2. ASSUME NEW u \in Threads PROVE Frames(u)'
    BY <1>10 DEF C!Invalidates, Frames
  <2>3. ASSUME NEW u \in Threads PROVE Walks(u)'
    BY <1>10, <1>0 DEF C!Invalidates, Walks
  <2>4. ASSUME NEW u \in Threads PROVE Earned(u)'
    <3>1. CASE u = t
        BY <1>10, <3>1, Reasons DEF C!Invalidates, Walks
    <3>2. CASE u # t
        BY <1>10, <3>2, Reasons DEF C!Invalidates
    <3> QED
        BY <3>1, <3>2
  <2> QED
    BY <2>1, <2>2, <2>3, <2>4
<1>11. ASSUME NEW t \in Threads, C!LeavesFrame(t) PROVE AppleInv'
  <2>1. C!TypeOK'
    BY <1>11, <1>0, NoEntries DEF C!LeavesFrame
  <2>2. ASSUME NEW u \in Threads PROVE Frames(u)'
    BY <1>11 DEF C!LeavesFrame, Frames
  <2>3. ASSUME NEW u \in Threads PROVE Walks(u)'
    BY <1>11, <1>0 DEF C!LeavesFrame, Walks
  <2>4. ASSUME NEW u \in Threads PROVE Earned(u)'
    <3>1. CASE u = t
        BY <1>11, <3>1, Reasons DEF C!LeavesFrame, Walks
    <3>2. CASE u # t
        BY <1>11, <3>2, Reasons DEF C!LeavesFrame
    <3> QED
        BY <3>1, <3>2
  <2> QED
    BY <2>1, <2>2, <2>3, <2>4
<1>12. ASSUME NEW t \in Threads, C!Judges(t) PROVE AppleInv'
  <2> USE DEF C!Judges, C!Returns
  <2>1. CASE C!IsWpadMiss(t)
    <3>0. at[t] <= Len(entries[t]) /\ entries[t][at[t]] = "wpad" /\ ended[t] = "nohost"
        BY <1>12, <2>1 DEF C!IsWpadMiss, Walks
    <3>a. /\ at' = [at EXCEPT ![t] = at[t] + 1]
          /\ where' = [where EXCEPT ![t] = "walking"]
          /\ UNCHANGED <<lock, mode, entries, frame, slot, source, ended, reply>>
        BY <1>12, <2>1, Missed
    <3>b. where[t] = "judge"
        BY <1>12
    <3>c. at[t] + 1 \in 1 .. MaxEntries + 1 /\ at[t] \in Nat
        BY <1>0, <3>0
    <3>1. C!TypeOK'
        BY <3>a, <3>c
    <3>2. ASSUME NEW u \in Threads PROVE Frames(u)' /\ Walks(u)'
        BY <1>0, <2>1, <3>0, <3>a, <3>b, <3>c DEF Frames, Walks, C!IsWpadMiss
    <3>3. ASSUME NEW u \in Threads PROVE Earned(u)'
      <4>1. CASE u = t
        BY <3>a, <3>b, <4>1, Reasons DEF Walks
      <4>2. CASE u # t
        BY <3>a, <4>2, Reasons
      <4> QED
        BY <4>1, <4>2
    <3> QED
        BY <3>1, <3>2, <3>3
  <2>2. CASE ~C!IsWpadMiss(t)
    <3>1. C!TypeOK'
        BY <1>12, <2>2
    <3>2. ASSUME NEW u \in Threads PROVE Frames(u)' /\ Walks(u)'
        BY <1>12, <2>2 DEF Frames, Walks
    <3>3. Earned(t)'
        BY <1>12, <2>2 DEF Earned
    <3>4. ASSUME NEW u \in Threads, u # t PROVE Earned(u)'
        BY <1>12, <2>2, <3>4, Reasons
    <3> QED
        BY <3>1, <3>2, <3>3, <3>4
  <2> QED
    BY <2>1, <2>2
<1>13. ASSUME NEW t \in Threads, C!Signals(t) PROVE AppleInv'
  <2>1. C!TypeOK'
    BY <1>13, <1>0, NoEntries DEF C!Signals
  <2>2. ASSUME NEW u \in Threads PROVE Frames(u)'
    BY <1>13 DEF C!Signals, Frames
  <2>3. ASSUME NEW u \in Threads PROVE Walks(u)'
    BY <1>13, <1>0 DEF C!Signals, Walks
  <2>4. ASSUME NEW u \in Threads PROVE Earned(u)'
    <3>1. CASE u = t
        BY <1>13, <3>1, Reasons DEF C!Signals, Walks
    <3>2. CASE u # t
        BY <1>13, <3>2, Reasons DEF C!Signals
    <3> QED
        BY <3>1, <3>2
  <2> QED
    BY <2>1, <2>2, <2>3, <2>4
<1> QED
    BY <1>1, <1>2, <1>3, <1>4, <1>5, <1>6, <1>7, <1>8, <1>9, <1>10, <1>11, <1>12, <1>13 DEF C!Next, C!Resolving

\* A step elsewhere leaves CFNetwork's part alone.
LEMMA AppleStutter == AppleInv /\ UNCHANGED apple => AppleInv'
BY DEF apple, AppleInv, C!TypeOK, Frames, Walks, Earned, C!Leads

\* The invariant of CFNetwork says more than its two properties.
LEMMA AppleSafe == AppleInv => C!CallbacksFindTheirFrame /\ C!RepliesAreEarned
<1> SUFFICES ASSUME AppleInv PROVE C!CallbacksFindTheirFrame /\ C!RepliesAreEarned
    OBVIOUS
<1>1. C!CallbacksFindTheirFrame
    BY DEF AppleInv, Frames, C!CallbacksFindTheirFrame
<1>2. C!RepliesAreEarned
    BY DEF AppleInv, Walks, Earned, C!RepliesAreEarned
<1> QED
    BY <1>1, <1>2

-----------------------------------------------------------------------------
(* The two behind one resolver.                                            *)

NativeInv == platform \in {"windows", "apple"} /\ WinInv /\ AppleInv

\* Both invariants hold throughout.
LEMMA NativeInvariant == Spec => []NativeInv
<1>1. Init => NativeInv
    BY WinInit, AppleInit DEF Init, NativeInv
<1>2. NativeInv /\ [Next]_vars => NativeInv'
  <2> SUFFICES ASSUME NativeInv, [Next]_vars PROVE NativeInv'
    OBVIOUS
  <2>1. CASE OnWindows
    BY <2>1, WinStep, AppleStutter DEF OnWindows, NativeInv
  <2>2. CASE OnApple
    BY <2>2, AppleStep, WinStutter DEF OnApple, NativeInv
  <2>3. CASE UNCHANGED vars
    BY <2>3, AppleStutter, WinStutter DEF vars, NativeInv
  <2> QED
    BY <2>1, <2>2, <2>3 DEF Next
<1> QED
    BY <1>1, <1>2, PTL DEF Spec

\* No callback of WinHTTP or of CFNetwork writes through what is gone, however
\* many resolutions are given up while theirs is on the way.
THEOREM CallbacksStaySafe == Spec => []CallbacksAreSafe
<1>1. NativeInv => CallbacksAreSafe
    BY WinSafe, AppleSafe DEF NativeInv, WinInv, AppleInv, CallbacksAreSafe, TypeOK
<1> QED
    BY <1>1, NativeInvariant, PTL

\* No failure is answered with Direct but a discovery that found nothing and
\* left nothing.
THEOREM DirectStaysEarned == Spec => []DirectIsEarned
<1>1. NativeInv => DirectIsEarned
    BY WinSafe, AppleSafe DEF NativeInv, DirectIsEarned
<1> QED
    BY <1>1, NativeInvariant, PTL
=============================================================================
