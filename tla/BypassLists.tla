------------------------------ MODULE BypassLists ------------------------------
(***************************************************************************)
(* What is asked about the bypass lists: the lists of entries, those that  *)
(* lost an entry on the way, and the destinations each is asked about.     *)
(***************************************************************************)
EXTENDS PacFunctions

B == INSTANCE BypassEntries

\* Lists of entries, and an entry that was dropped between two others.
EntryLists == SeqOf(B!Patterns, 2) \cup
    {<<p, [kind |-> "subtract"], p>> : p \in B!Patterns}

DroppedEntries ==
    {<<before, p, after>> : before \in SeqOf(B!Patterns, 1), after \in SeqOf(B!Patterns, 1),
                            p \in B!Patterns \ {[kind |-> "subtract"]}}

\* The dialects, hosts and ports a list is asked about; and the destinations of
\* an entry alone, and of a list of macOS, which knows destinations of its own.
Questions == B!Dialects \X B!Hosts \X {80, 443}
Asked == B!Destinations \X {80, 443}
AskedOfMac == (B!Destinations \cup B!Hosts) \X {80, 443}
=============================================================================
