------------------------------- MODULE Modes -------------------------------
(***************************************************************************)
(* What a reader of settings hands over and what a request makes of it:    *)
(* ProxyMode (src/src/mode.rs) and `resolve` (src/src/resolve.rs).         *)
(*                                                                         *)
(* A proxy is named by the setting it comes from.  Its port, its protocol  *)
(* and its credentials ride along and are left out, as is the text of a    *)
(* record of something dropped: what is kept of it is the scheme it names. *)
(***************************************************************************)
EXTENDS Sequences, SequencesExt

Schemes == {"http", "https", "ftp", "socks", "all"}

\* A slot of `per_scheme` holds a proxy, ProxyEntry::Disabled (off), the record
\* of a proxy that was dropped (lost), or nothing.
NoEntries == [s \in Schemes |-> "none"]

Direct == [kind |-> "direct"]
Wpad == [kind |-> "wpad"]
Pac == [kind |-> "pac"]
PacInline == [kind |-> "inline"]

\* The read itself ended in an error: there is no mode.
Fails == [kind |-> "fails"]

\* with_rejected: the record of a drop is filed under the scheme it names,
\* where nothing stands yet.  A record that names none is in no slot.
Filed(entries, dropped) ==
    [s \in Schemes |->
        IF entries[s] = "none" /\ s \in dropped THEN "lost" ELSE entries[s]]

Manual(entries, dropped) ==
    [kind |-> "manual", entries |-> Filed(entries, dropped)]

\* first_answer: the first entry that is an answer, else a drop.
FirstAnswer(chain) ==
    LET first == SelectInSeq(chain, LAMBDA e : e \notin {"none", "lost"}) IN
    IF first # 0 THEN chain[first]
    ELSE IF Contains(chain, "lost") THEN "lost" ELSE "none"

EntryFor(entries, s) == FirstAnswer(<<entries[s], entries["all"]>>)

\* websocket_entry: off does not stop the chain before the catch-all.
WebsocketEntry(entries) ==
    LET configured(s) == IF entries[s] = "off" THEN "none" ELSE entries[s] IN
    FirstAnswer(<<configured("socks"), configured("https"), configured("http"),
                  entries["all"]>>)

-----------------------------------------------------------------------------
\* A request, by the scheme of its URL, and what else decides it: `hostless` is
\* a URL without a host, `bypassed` one with a host on the bypass list.
Requests == {"http", "https", "ftp", "socks", "ws", "other"}

request_scheme(request) == IF request \in Schemes THEN request ELSE "all"

\* resolve_mode, for a URL with a host the bypass list does not name.
Routed(mode, request) ==
    LET entry == IF request = "ws" THEN WebsocketEntry(mode.entries)
                 ELSE EntryFor(mode.entries, request_scheme(request)) IN
    IF entry \in {"off", "none"} THEN "direct"
    ELSE IF entry = "lost" THEN "unusable" ELSE entry

resolve_mode(mode, request) ==
    CASE mode.kind = "direct" -> "direct"
      [] mode.kind \in {"pac", "inline", "wpad"} -> "script"
      [] mode.kind = "manual" -> Routed(mode, request)
      [] mode.kind = "fails" -> "fails"

-----------------------------------------------------------------------------
(* The answers a store asks for, stated apart from the code: candidates in *)
(* order of preference, each a proxy, off, bad (named, and of no use) or   *)
(* unset.  The first proxy or off is the answer; with none, a bad one is   *)
(* an error, and only a request nothing was named for goes direct.         *)

Asked(candidates) ==
    LET decides(i) == candidates[i] \notin {"bad", "unset"} IN
    IF \E i \in 1 .. Len(candidates) : decides(i)
    THEN LET first == CHOOSE i \in 1 .. Len(candidates) :
                          decides(i) /\ \A j \in 1 .. i - 1 : ~decides(j) IN
         IF candidates[first] = "off" THEN "direct" ELSE candidates[first]
    ELSE IF \E i \in 1 .. Len(candidates) : candidates[i] = "bad"
         THEN "unusable" ELSE "direct"

\* Off does not end these.
Skipped(candidate) == IF candidate = "off" THEN "unset" ELSE candidate
=============================================================================
