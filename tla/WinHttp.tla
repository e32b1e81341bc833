------------------------------ MODULE WinHttp ------------------------------
(***************************************************************************)
(* PAC through WinHTTP (src/src/pac/winhttp.rs): WinHttpPacResolver with   *)
(* any number of resolutions in flight.                                    *)
(*                                                                         *)
(* WinHttpGetProxyForUrlEx answers at once or later, from a thread of its  *)
(* own, through a callback that owns one reference to the state it reports *)
(* to (Pending).  A resolution that is given up cancels the operation by   *)
(* closing its handle; the callback comes all the same.                    *)
(*                                                                         *)
(* External: WinHTTP, which ends every operation with one callback and     *)
(* reads the two strings of a call until the operation ends or is          *)
(* cancelled; and the registry below the discovery.                        *)
(***************************************************************************)
EXTENDS FiniteSets

CONSTANT Requests

\* How an operation ends: the script ran and answered, discovery found nothing,
\* or anything else went wrong.
Ran == {"direct", "proxy", "unusable"}
Ends == Ran \cup {"miss", "failed"}

VARIABLES
    session,    \* whether the resolver and its session handle exist
    wpad,       \* WinHttpPacResolver::wpad
    pc,         \* where each resolution is
    asked,      \* what is asked of WinHTTP, and what lies beneath
    handle,     \* the resolver handle of each resolution
    buffers,    \* whether its two strings are allocated
    refs,       \* who owns a reference to its Pending
    status,     \* Pending::status
    done,       \* the event
    op,         \* the operation inside WinHTTP
    callback,   \* where WinHTTP's thread is in status_callback
    told,       \* how the operation ended
    answer      \* what the last resolution of this name returned

caller  == <<pc, asked, answer>>
memory  == <<handle, buffers, refs>>
pending == <<status, done>>
system  == <<op, callback, told>>
resolver == <<session, wpad>>
vars == <<caller, memory, pending, system, resolver>>

Asked == [auto : BOOLEAN, url : BOOLEAN, manual : BOOLEAN]
Answers == {"direct", "manual", "proxy", "error", "timeout", "broken", "unsupported"}

TypeOK ==
    /\ session \in BOOLEAN
    /\ wpad \in BOOLEAN
    /\ pc \in [Requests -> {"idle", "asked", "ready", "waiting", "woken", "result",
                            "leaving", "closing", "expired", "dropping"}]
    /\ asked \in [Requests -> Asked]
    /\ handle \in [Requests -> BOOLEAN]
    /\ buffers \in [Requests -> BOOLEAN]
    /\ refs \in [Requests -> SUBSET {"caller", "system"}]
    /\ status \in [Requests -> {"success", "miss", "failed"}]
    /\ done \in [Requests -> BOOLEAN]
    /\ op \in [Requests -> {"none", "running", "cancelled"}]
    /\ callback \in [Requests -> {"none", "store", "set", "drop"}]
    /\ told \in [Requests -> Ends \cup {"nothing"}]
    /\ answer \in [Requests -> Answers \cup {"none"}]

Init ==
    /\ session = FALSE
    /\ wpad = FALSE
    /\ pc = [r \in Requests |-> "idle"]
    /\ asked = [r \in Requests |-> [auto |-> FALSE, url |-> FALSE, manual |-> FALSE]]
    /\ handle = [r \in Requests |-> FALSE]
    /\ buffers = [r \in Requests |-> FALSE]
    /\ refs = [r \in Requests |-> {}]
    /\ status = [r \in Requests |-> "success"]
    /\ done = [r \in Requests |-> FALSE]
    /\ op = [r \in Requests |-> "none"]
    /\ callback = [r \in Requests |-> "none"]
    /\ told = [r \in Requests |-> "nothing"]
    /\ answer = [r \in Requests |-> "none"]

-----------------------------------------------------------------------------
(* The resolver.                                                           *)

Open ==
    /\ ~session
    /\ session' = TRUE
    /\ wpad' \in BOOLEAN
    /\ UNCHANGED <<caller, memory, pending, system>>

\* resolve borrows the resolver, so nothing is in progress when it is dropped;
\* what was given up may be on its way still.
Drop ==
    /\ session
    /\ \A r \in Requests : pc[r] = "idle"
    /\ session' = FALSE
    /\ UNCHANGED <<wpad, caller, memory, pending, system>>

Quiet(r) == op[r] = "none" /\ callback[r] = "none"

\* A resolution begins.  One that was given up under this name has drained: a
\* new one has a Pending of its own.
Begins(r) == session /\ pc[r] = "idle" /\ Quiet(r)

Goes(r, question) ==
    /\ pc' = [pc EXCEPT ![r] = "asked"]
    /\ asked' = [asked EXCEPT ![r] = question]
    /\ answer' = [answer EXCEPT ![r] = "none"]
    /\ told' = [told EXCEPT ![r] = "nothing"]

Refuses(r, why) ==
    /\ answer' = [answer EXCEPT ![r] = why]
    /\ UNCHANGED <<pc, asked, told>>

\* ProxyMode::Pac.
ResolvePac(r) ==
    /\ Begins(r)
    /\ Goes(r, [auto |-> FALSE, url |-> TRUE, manual |-> FALSE])
    /\ UNCHANGED <<memory, pending, op, callback, resolver>>

\* ProxyMode::WpadAutoDetect.  What lies beneath is read again, and only where
\* the snapshot is one of this registry: it may have changed since, and the read
\* may fail.
ResolveWpad(r) ==
    /\ Begins(r)
    /\ \/ ~wpad /\ Refuses(r, "unsupported")
       \/ wpad /\ Refuses(r, "broken")
       \/ /\ wpad
          /\ \E url, manual \in BOOLEAN :
                Goes(r, [auto |-> TRUE, url |-> url, manual |-> manual])
    /\ UNCHANGED <<memory, pending, op, callback, resolver>>

-----------------------------------------------------------------------------
(* resolve_raw.                                                            *)

Answer(r, what) ==
    /\ answer' = [answer EXCEPT ![r] = what]
    /\ pc' = [pc EXCEPT ![r] = "leaving"]

\* Detection that was not asked for cannot have missed.
IsWpadMissAnywhere(r, code) == code = "miss"

IsWpadMiss(r, code) == code = "miss" /\ asked[r].auto

\* A miss falls through to what was configured beneath, and is an answer; any
\* other failure is an error, and nothing beneath is tried.
Judge(r, code) ==
    \/ /\ IsWpadMiss(r, code)
       /\ Answer(r, IF asked[r].manual THEN "manual" ELSE "direct")
    \/ /\ ~IsWpadMiss(r, code)
       /\ code # "success"
       /\ Answer(r, "error")
    \/ /\ code = "success"
       /\ pc' = [pc EXCEPT ![r] = "result"]
       /\ UNCHANGED answer

\* The handle, the strings, the Pending; each of the two that can fail leaves
\* nothing behind.
Prepare(r) ==
    /\ pc[r] = "asked"
    /\ \/ /\ handle' = [handle EXCEPT ![r] = TRUE]
          /\ buffers' = [buffers EXCEPT ![r] = TRUE]
          /\ refs' = [refs EXCEPT ![r] = {"caller", "system"}]
          /\ status' = [status EXCEPT ![r] = "success"]
          /\ done' = [done EXCEPT ![r] = FALSE]
          /\ pc' = [pc EXCEPT ![r] = "ready"]
          /\ UNCHANGED answer
       \/ /\ answer' = [answer EXCEPT ![r] = "broken"]
          /\ pc' = [pc EXCEPT ![r] = "idle"]
          /\ UNCHANGED <<memory, pending>>
    /\ UNCHANGED <<asked, system, resolver>>

StatusOf(end) == IF end \in Ran THEN "success" ELSE end

\* The call answers itself: no callback will run, so its reference is taken back.
AnswersAtOnce(r) ==
    /\ pc[r] = "ready"
    /\ refs' = [refs EXCEPT ![r] = @ \ {"system"}]
    /\ \E end \in Ends :
        /\ told' = [told EXCEPT ![r] = end]
        /\ Judge(r, StatusOf(end))
    /\ UNCHANGED <<asked, handle, buffers, pending, op, callback, resolver>>

\* ERROR_IO_PENDING.
Pends(r) ==
    /\ pc[r] = "ready"
    /\ op' = [op EXCEPT ![r] = "running"]
    /\ pc' = [pc EXCEPT ![r] = "waiting"]
    /\ UNCHANGED <<asked, answer, memory, pending, callback, told, resolver>>

\* WAIT_OBJECT_0.
Woken(r) ==
    /\ pc[r] = "waiting"
    /\ done[r]
    /\ pc' = [pc EXCEPT ![r] = "woken"]
    /\ UNCHANGED <<asked, answer, memory, pending, system, resolver>>

ReadsStatus(r) ==
    /\ pc[r] = "woken"
    /\ Judge(r, status[r])
    /\ UNCHANGED <<asked, memory, pending, system, resolver>>

\* WinHttpGetProxyResult, which has a result only where the script ran; and
\* to_steps, which may find no entry it can use.
GetResult(r) ==
    /\ pc[r] = "result"
    /\ Answer(r, IF told[r] \in {"direct", "proxy"} THEN told[r] ELSE "error")
    /\ UNCHANGED <<asked, memory, pending, system, resolver>>

\* The locals go in reverse order: Pending and the strings, then the handle.
DropLocals(r) ==
    /\ pc[r] = "leaving"
    /\ refs' = [refs EXCEPT ![r] = @ \ {"caller"}]
    /\ buffers' = [buffers EXCEPT ![r] = FALSE]
    /\ pc' = [pc EXCEPT ![r] = "closing"]
    /\ UNCHANGED <<asked, answer, handle, pending, system, resolver>>

\* WinHttpCloseHandle: cancels what is running.
Cancels(r) ==
    /\ handle' = [handle EXCEPT ![r] = FALSE]
    /\ op' = [op EXCEPT ![r] = IF @ = "running" THEN "cancelled" ELSE @]

Close(r) ==
    /\ pc[r] = "closing"
    /\ Cancels(r)
    /\ pc' = [pc EXCEPT ![r] = "idle"]
    /\ UNCHANGED <<asked, answer, buffers, refs, pending, callback, told, resolver>>

\* The wait is given up as any answer is: the locals first.
ExpireLikeAnAnswer(r) ==
    /\ pc[r] = "waiting"
    /\ ~done[r]
    /\ Answer(r, "timeout")
    /\ UNCHANGED <<asked, memory, pending, system, resolver>>

\* WAIT_TIMEOUT, where the event is not set; or a wait that fails.
Expire(r) ==
    /\ pc[r] = "waiting"
    /\ \/ /\ ~done[r]
          /\ answer' = [answer EXCEPT ![r] = "timeout"]
       \/ answer' = [answer EXCEPT ![r] = "broken"]
    /\ pc' = [pc EXCEPT ![r] = "expired"]
    /\ UNCHANGED <<asked, memory, pending, system, resolver>>

\* drop(resolver), ahead of the strings.
CloseFirst(r) ==
    /\ pc[r] = "expired"
    /\ Cancels(r)
    /\ pc' = [pc EXCEPT ![r] = "dropping"]
    /\ UNCHANGED <<asked, answer, buffers, refs, pending, callback, told, resolver>>

DropRest(r) ==
    /\ pc[r] = "dropping"
    /\ refs' = [refs EXCEPT ![r] = @ \ {"caller"}]
    /\ buffers' = [buffers EXCEPT ![r] = FALSE]
    /\ pc' = [pc EXCEPT ![r] = "idle"]
    /\ UNCHANGED <<asked, answer, handle, pending, system, resolver>>

-----------------------------------------------------------------------------
(* WinHTTP's thread.                                                       *)

\* The operation ends, and the one terminal callback of it begins.  What was
\* cancelled fails, or had ended already.  A callback without information tells
\* of a failure too.
OpEnds(r) ==
    /\ op[r] # "none"
    /\ op' = [op EXCEPT ![r] = "none"]
    /\ told' \in {[told EXCEPT ![r] = end] : end \in Ends}
    /\ callback' = [callback EXCEPT ![r] = "store"]
    /\ UNCHANGED <<caller, memory, pending, resolver>>

Store(r) ==
    /\ callback[r] = "store"
    /\ status' = [status EXCEPT ![r] = StatusOf(told[r])]
    /\ callback' = [callback EXCEPT ![r] = "set"]
    /\ UNCHANGED <<caller, memory, done, op, told, resolver>>

SetDone(r) ==
    /\ callback[r] = "set"
    /\ done' = [done EXCEPT ![r] = TRUE]
    /\ callback' = [callback EXCEPT ![r] = "drop"]
    /\ UNCHANGED <<caller, memory, status, op, told, resolver>>

DropContext(r) ==
    /\ callback[r] = "drop"
    /\ refs' = [refs EXCEPT ![r] = @ \ {"system"}]
    /\ callback' = [callback EXCEPT ![r] = "none"]
    /\ UNCHANGED <<caller, handle, buffers, pending, op, told, resolver>>

-----------------------------------------------------------------------------
Resolving(r) ==
    \/ Prepare(r) \/ AnswersAtOnce(r) \/ Pends(r)
    \/ Woken(r) \/ ReadsStatus(r) \/ GetResult(r) \/ DropLocals(r) \/ Close(r)
    \/ Expire(r) \/ CloseFirst(r) \/ DropRest(r)

CallingBack(r) == OpEnds(r) \/ Store(r) \/ SetDone(r) \/ DropContext(r)

Next ==
    \/ Open \/ Drop
    \/ \E r \in Requests :
        ResolvePac(r) \/ ResolveWpad(r) \/ Resolving(r) \/ CallingBack(r)

Spec == Init /\ [][Next]_vars

\* What is used is owned: WinHTTP and its callback have their reference to the
\* Pending, the caller has its own until it lets go, an operation that was not
\* cancelled has its strings and its handle; and once the call and the callback
\* are over nothing is left (winhttp.rs:392, 410, 444, 742).
UsersOwnWhatTheyUse ==
    \A r \in Requests :
        /\ ~Quiet(r) => "system" \in refs[r]
        /\ pc[r] \notin {"idle", "asked", "closing"} => "caller" \in refs[r]
        /\ op[r] = "running" => buffers[r] /\ handle[r]
        /\ pc[r] = "idle" => ~handle[r] /\ ~buffers[r]
        /\ pc[r] = "idle" /\ Quiet(r) => refs[r] = {}
        /\ ~session => ~handle[r]

\* What WinHTTP's end of the operation means for what was asked.
Meaning(question, end) ==
    IF end \in {"direct", "proxy"} THEN end
    ELSE IF end # "miss" \/ ~question.auto THEN "error"
    ELSE IF question.manual THEN "manual" ELSE "direct"

\* An answer that came from WinHTTP is the one WinHTTP gave: Direct is what the
\* script said, or what is left when discovery was asked for, found nothing, and
\* no proxy was configured beneath it; no failure is read as no proxy
\* (winhttp.rs:152, 359 and 523).
AnswersAreEarned ==
    \A r \in Requests :
        answer[r] \in {"direct", "manual", "proxy", "error"} =>
            answer[r] = Meaning(asked[r], told[r])
=============================================================================
