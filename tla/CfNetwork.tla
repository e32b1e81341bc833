----------------------------- MODULE CfNetwork -----------------------------
(***************************************************************************)
(* PAC through CFNetwork (src/src/pac/cfnetwork.rs): threads that resolve  *)
(* one after another, each pumping its own run loop in a private mode.     *)
(*                                                                         *)
(* An execution is a run loop source with a callback that writes into the  *)
(* frame of `pump`.  It can run only while its thread runs the mode, which *)
(* the next execution on that thread does as well.                         *)
(*                                                                         *)
(* External: CFNetwork, which signals a source once, and lists the entries *)
(* of the system settings; and those settings.                             *)
(***************************************************************************)
EXTENDS Naturals, Sequences, SequencesExt

CONSTANTS
    Threads,
    MaxEntries, \* bounds what the system settings list
    Nobody      \* none of the threads

\* An entry names a script, by the host `wpad` or by another one, a proxy, no
\* proxy, or something that is skipped.
Entries == {"wpad", "url", "proxy", "direct", "other"}
Scripts == {"wpad", "url"}

\* What the system settings may list.
Lists == SeqOf(Entries, MaxEntries)

\* How an execution ends: the answer of the script, a host that could not be
\* found, or any other failure.
Ends == {"direct", "proxy", "unusable", "nohost", "failed"}

VARIABLES
    lock,       \* the holder of LOCK
    where,      \* where each thread is
    mode,       \* the mode each call resolves
    entries,    \* the entries its answer is walked along
    at,         \* the entry of the walk
    frame,      \* whether the frame of `pump` exists: `answer` and `context`
    slot,       \* `answer` in that frame
    source,     \* the run loop source in the private mode of the thread
    ended,      \* how the last execution of the call ended
    reply      \* what the last call of the thread returned

walk == <<mode, entries, at>>
pump == <<frame, slot, source>>
vars == <<lock, where, walk, pump, ended, reply>>

Modes == {"pac", "inline", "wpad"}

TypeOK ==
    /\ lock \in Threads \cup {Nobody}
    /\ where \in [Threads -> {"idle", "walking", "lock", "start", "running",
                           "invalidate", "return", "judge"}]
    /\ mode \in [Threads -> Modes]
    /\ entries \in [Threads -> Lists]
    /\ at \in [Threads -> 1 .. MaxEntries + 1]
    /\ frame \in [Threads -> BOOLEAN]
    /\ slot \in [Threads -> Ends \cup {"none"}]
    /\ source \in [Threads -> {"none", "armed", "signalled"}]
    /\ ended \in [Threads -> Ends \cup {"none", "late"}]
    /\ reply \in [Threads -> {"none", "direct", "proxy", "error", "timeout",
                               "broken", "unsupported"}]

Init ==
    /\ lock = Nobody
    /\ where = [t \in Threads |-> "idle"]
    /\ mode = [t \in Threads |-> "pac"]
    /\ entries = [t \in Threads |-> <<>>]
    /\ at = [t \in Threads |-> 1]
    /\ frame = [t \in Threads |-> FALSE]
    /\ slot = [t \in Threads |-> "none"]
    /\ source = [t \in Threads |-> "none"]
    /\ ended = [t \in Threads |-> "none"]
    /\ reply = [t \in Threads |-> "none"]

-----------------------------------------------------------------------------
(* resolve_config.                                                         *)

Begins(t, what, list, there) ==
    /\ where[t] = "idle"
    /\ reply[t] = "none"
    /\ mode' = [mode EXCEPT ![t] = what]
    /\ entries' = [entries EXCEPT ![t] = list]
    /\ where' = [where EXCEPT ![t] = there]
    /\ UNCHANGED <<lock, at, pump, ended, reply>>

Returns(t, what) ==
    /\ reply' = [reply EXCEPT ![t] = what]
    /\ where' = [where EXCEPT ![t] = "idle"]

\* The caller has its answer; nothing of the call is left.
Takes(t) ==
    /\ where[t] = "idle"
    /\ reply[t] # "none"
    /\ mode' = [mode EXCEPT ![t] = "pac"]
    /\ entries' = [entries EXCEPT ![t] = <<>>]
    /\ at' = [at EXCEPT ![t] = 1]
    /\ ended' = [ended EXCEPT ![t] = "none"]
    /\ reply' = [reply EXCEPT ![t] = "none"]
    /\ UNCHANGED <<lock, where, pump>>

\* ProxyMode::Pac and ProxyMode::PacInline: one execution.
ResolveOne(t) ==
    \E what \in {"pac", "inline"} : Begins(t, what, <<>>, "lock")

\* ProxyMode::WpadAutoDetect, allowed and from the scope of the settings that
\* are read now: what they list is walked.
ResolveWpad(t) ==
    \E list \in Lists : Begins(t, "wpad", list, "walking")

\* It is not allowed, or of another scope; the settings cannot be read, or no
\* longer run a script.
Refuses(t) ==
    /\ where[t] = "idle"
    /\ reply[t] = "none"
    /\ \E why \in {"unsupported", "broken"} : Returns(t, why)
    /\ UNCHANGED <<lock, walk, pump, ended>>

\* entries_to_steps: the first entry that can be used begins the chain.
Leads(t, i) ==
    /\ i \in at[t] .. Len(entries[t])
    /\ entries[t][i] \in {"proxy", "direct"}
    /\ \A j \in at[t] .. i - 1 : entries[t][j] \notin {"proxy", "direct"}

\* walk_system_entries: a script is run, and the first entry that is none ends
\* the walk with what is left, of which nothing may be usable.
Walk(t) ==
    /\ where[t] = "walking"
    /\ \/ /\ at[t] > Len(entries[t])
          /\ Returns(t, IF entries[t] = <<>> THEN "error" ELSE "direct")
       \/ /\ at[t] <= Len(entries[t])
          /\ entries[t][at[t]] \in Scripts
          /\ where' = [where EXCEPT ![t] = "lock"]
          /\ UNCHANGED reply
       \/ /\ at[t] <= Len(entries[t])
          /\ entries[t][at[t]] \notin Scripts
          /\ \/ \E i \in at[t] .. Len(entries[t]) :
                    Leads(t, i) /\ Returns(t, entries[t][i])
             \/ /\ \A i \in at[t] .. Len(entries[t]) : ~Leads(t, i)
                /\ Returns(t, "error")
    /\ UNCHANGED <<lock, walk, pump, ended>>

-----------------------------------------------------------------------------
(* pump.                                                                   *)

\* The frame is entered when the lock is held.
Locks(t) ==
    /\ where[t] = "lock"
    /\ lock = Nobody
    /\ lock' = t
    /\ where' = [where EXCEPT ![t] = "start"]
    /\ UNCHANGED <<walk, pump, ended, reply>>

\* The call of CFNetwork, after the one that warms it up.
Starts(t) ==
    /\ where[t] = "start"
    /\ \/ /\ frame' = [frame EXCEPT ![t] = TRUE]
          /\ source' = [source EXCEPT ![t] = "armed"]
          /\ where' = [where EXCEPT ![t] = "running"]
          /\ UNCHANGED <<lock, slot, reply>>
       \/ /\ Returns(t, "broken")
          /\ lock' = Nobody
          /\ UNCHANGED pump
    /\ UNCHANGED <<walk, ended>>

\* CFNetwork has an answer, at any time.
Signals(t) ==
    /\ source[t] = "armed"
    /\ source' = [source EXCEPT ![t] = "signalled"]
    /\ UNCHANGED <<lock, where, walk, frame, slot, ended, reply>>

\* run_in_mode calls back, and on_result stops it.
Delivers(t) ==
    /\ where[t] = "running"
    /\ slot[t] = "none"
    /\ source[t] = "signalled"
    /\ source' = [source EXCEPT ![t] = "none"]
    /\ slot' \in {[slot EXCEPT ![t] = end] : end \in Ends}
    /\ where' = [where EXCEPT ![t] = "invalidate"]
    /\ UNCHANGED <<lock, walk, frame, ended, reply>>

\* The deadline of the call, which began before the lock and is shared by all
\* entries of a walk.
Expires(t) ==
    /\ where[t] = "running"
    /\ slot[t] = "none"
    /\ where' = [where EXCEPT ![t] = "invalidate"]
    /\ UNCHANGED <<lock, walk, pump, ended, reply>>

Invalidates(t) ==
    /\ where[t] = "invalidate"
    /\ source' = [source EXCEPT ![t] = "none"]
    /\ where' = [where EXCEPT ![t] = "return"]
    /\ UNCHANGED <<lock, walk, frame, slot, ended, reply>>

\* The frame is left, and the lock with it.
LeavesFrame(t) ==
    /\ where[t] = "return"
    /\ frame' = [frame EXCEPT ![t] = FALSE]
    /\ slot' = [slot EXCEPT ![t] = "none"]
    /\ lock' = Nobody
    /\ ended' = [ended EXCEPT ![t] = IF slot[t] = "none" THEN "late" ELSE slot[t]]
    /\ where' = [where EXCEPT ![t] = "judge"]
    /\ UNCHANGED <<walk, source, reply>>

\* A miss is the host `wpad` of a discovery, not found.
IsWpadMiss(t) ==
    /\ ended[t] = "nohost"
    /\ mode[t] = "wpad"
    /\ entries[t][at[t]] = "wpad"

Judges(t) ==
    /\ where[t] = "judge"
    /\ IF IsWpadMiss(t)
       THEN /\ at' = [at EXCEPT ![t] = @ + 1]
            /\ where' = [where EXCEPT ![t] = "walking"]
            /\ UNCHANGED reply
       ELSE /\ Returns(t, IF ended[t] \in {"direct", "proxy"} THEN ended[t]
                          ELSE IF ended[t] = "late" THEN "timeout" ELSE "error")
            /\ UNCHANGED at
    /\ UNCHANGED <<lock, mode, entries, pump, ended>>

-----------------------------------------------------------------------------
Resolving(t) ==
    \/ Walk(t) \/ Locks(t) \/ Starts(t) \/ Delivers(t) \/ Expires(t)
    \/ Invalidates(t) \/ LeavesFrame(t) \/ Judges(t)

Next ==
    \E t \in Threads :
        \/ ResolveOne(t) \/ ResolveWpad(t) \/ Refuses(t) \/ Takes(t)
        \/ Resolving(t) \/ Signals(t)

Spec == Init /\ [][Next]_vars

\* A callback finds the frame it writes into: a source that may still call back
\* belongs to the execution that holds the lock and whose frame exists, also
\* when its thread gave it up and runs the same mode for the next one
\* (cfnetwork.rs:699).
CallbacksFindTheirFrame ==
    \A t \in Threads : source[t] # "none" => frame[t] /\ lock = t

\* Direct is what a script answered, or where a discovery ended: every entry
\* before was the host `wpad`, not found, and nothing was left or an entry that
\* is no proxy.  A proxy comes from the same two places, and a timeout from an
\* execution without an answer (cfnetwork.rs:118 and 146).
RepliesAreEarned ==
    \A t \in Threads :
        /\ reply[t] \in {"direct", "proxy"} =>
            \/ ended[t] = reply[t]
            \/ /\ mode[t] = "wpad"
               /\ ended[t] \in {"none", "nohost"}
               /\ \A i \in 1 .. at[t] - 1 : entries[t][i] = "wpad"
               /\ \/ at[t] > Len(entries[t]) /\ entries[t] # <<>> /\ reply[t] = "direct"
                  \/ /\ at[t] <= Len(entries[t]) /\ entries[t][at[t]] \notin Scripts
                     /\ \E i \in at[t] .. Len(entries[t]) :
                            Leads(t, i) /\ reply[t] = entries[t][i]
        /\ reply[t] = "timeout" => ended[t] = "late"
=============================================================================
