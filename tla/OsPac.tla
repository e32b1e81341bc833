------------------------------- MODULE OsPac -------------------------------
(***************************************************************************)
(* The native engine behind PacResolver (src/src/pac/dispatch.rs): the one *)
(* of the platform the crate is built for, which answers for the modes Pac *)
(* and WpadAutoDetect where no script is at hand.                          *)
(***************************************************************************)
EXTENDS Naturals

CONSTANTS Requests, Threads, MaxEntries, Nobody

ASSUME NobodyAssumption == Nobody \notin Threads
ASSUME MaxEntriesAssumption == MaxEntries \in Nat

VARIABLES
    platform,   \* what the crate is built for
    session, wpad, pc, asked, handle, buffers, refs, status, done, op,
    callback, told, answer,
    lock, where, mode, entries, at, frame, slot, source, ended, reply

W == INSTANCE WinHttp
C == INSTANCE CfNetwork

windows == <<session, wpad, pc, asked, handle, buffers, refs, status, done, op,
             callback, told, answer>>
apple == <<lock, where, mode, entries, at, frame, slot, source, ended, reply>>
vars == <<platform, windows, apple>>

TypeOK == platform \in {"windows", "apple"} /\ W!TypeOK /\ C!TypeOK

Init == platform \in {"windows", "apple"} /\ W!Init /\ C!Init

OnWindows == platform = "windows" /\ W!Next /\ UNCHANGED <<platform, apple>>

OnApple == platform = "apple" /\ C!Next /\ UNCHANGED <<platform, windows>>

Next == OnWindows \/ OnApple

Spec == Init /\ [][Next]_vars

\* Whoever may still call back finds what it uses, and nothing is left when
\* everybody is done: WinHTTP's callback and its Pending, CFNetwork's and the
\* frame that waits for it.
CallbacksAreSafe == TypeOK /\ W!UsersOwnWhatTheyUse /\ C!CallbacksFindTheirFrame

\* The answer is the one the system gave, and no failure of a script that was
\* configured is taken for "no proxy", on either platform.
DirectIsEarned == W!AnswersAreEarned /\ C!RepliesAreEarned
=============================================================================
