--------------------------- MODULE WindowsStores ---------------------------
(***************************************************************************)
(* The per-user settings of Windows (src/src/sys/win/mod.rs) and the proxy *)
(* string they hold (src/src/parse.rs).                                    *)
(*                                                                         *)
(* A token of the string has a key, the scheme it names or `unknown` (a    *)
(* bare host:port has the key `all`), and a value: a proxy, blank, or a    *)
(* text that is none.                                                      *)
(***************************************************************************)
EXTENDS Naturals, Modes

\* What the tokens with a key leave in its slot: each that is not skipped
\* replaces the one before.
Written(tokens, s) ==
    LET last == SelectLastInSeq(tokens, LAMBDA t : t.key = s /\ t.value # "bad") IN
    IF last = 0 THEN "none"
    ELSE IF tokens[last].value = "blank" THEN "off" ELSE tokens[last].value

\* apply_socks_catch_all.
FilledBySocks(entries) ==
    IF entries["all"] # "none" \/ entries["socks"] \in {"none", "off"} THEN entries
    ELSE [s \in Schemes |-> IF entries[s] = "none" THEN entries["socks"] ELSE entries[s]]

\* proxy_server_with_rejected: the second half, the schemes of what it skipped.
\* A key nobody knows names none, and keeps the mode Manual.
Skips(tokens) ==
    {IF tokens[i].key = "socks" THEN "all" ELSE tokens[i].key :
        i \in {n \in 1 .. Len(tokens) :
                  tokens[n].value = "bad" \/ tokens[n].key = "unknown"}}

\* windows_manual.
windows_manual(tokens) ==
    LET entries == FilledBySocks([s \in Schemes |-> Written(tokens, s)]) IN
    IF entries = NoEntries /\ Skips(tokens) = {} THEN Direct
    ELSE Manual(entries, Skips(tokens))

\* The values of the per-user settings: fAutoDetect, the AutoConfigURL and the
\* proxy string, if ProxyEnable is exactly 1.
UserValues(strings) ==
    [detect : BOOLEAN, url : {"blank", "good", "bad"}, enable : {0, 1, 2},
     server : strings]

Server(values) == IF values.enable = 1 THEN values.server ELSE <<>>

\* resolve_mode, and mode_from_registry before it.
UserMode(values) ==
    CASE values.detect -> Wpad
      [] ~values.detect /\ values.url = "good" -> Pac
      [] ~values.detect /\ values.url = "bad" -> Fails
      [] ~values.detect /\ values.url = "blank" -> windows_manual(Server(values))

\* wpad_fallback_beneath: what is left under auto-detect, the script and the
\* mode, of which a script that cannot be named costs nothing.
Beneath(values) ==
    [script |-> values.url = "good", mode |-> windows_manual(Server(values))]

\* The tokens with a key, those of them that are of use, and what the last of
\* these says.
With(tokens, s) == {i \in 1 .. Len(tokens) : tokens[i].key = s}
Useful(tokens, s) == {i \in With(tokens, s) : tokens[i].value # "bad"}
LastOf(tokens, s) ==
    tokens[CHOOSE i \in Useful(tokens, s) : \A j \in Useful(tokens, s) : j <= i].value

StringNames(tokens, s) ==
    IF With(tokens, s) = {} THEN "unset"
    ELSE IF Useful(tokens, s) = {} THEN "bad"
    ELSE IF LastOf(tokens, s) = "blank" THEN "off" ELSE LastOf(tokens, s)

\* What the string asks for: the scheme's last token that is of use, then the
\* last one of `all`, and only without one socks.  A token that is of no use
\* counts where no other is.
WindowsAsks(tokens, request) ==
    LET named(s) == StringNames(tokens, s)
        spoilt == \E i \in With(tokens, "socks") : tokens[i].value = "bad"
        catchall == <<named("all"),
                      IF Useful(tokens, "all") # {} THEN "unset" ELSE Skipped(named("socks")),
                      IF spoilt THEN "bad" ELSE "unset">>
    IN
    CASE request \in Schemes \ {"all"} -> Asked(<<named(request)>> \o catchall)
      [] request = "other" -> Asked(catchall)
      [] request = "ws" ->
            Asked(<<Skipped(named("socks")), Skipped(named("https")),
                    Skipped(named("http"))>> \o catchall)

UserAsks(values, request) ==
    CASE values.detect -> "script"
      [] ~values.detect /\ values.url = "good" -> "script"
      [] ~values.detect /\ values.url = "bad" -> "fails"
      [] ~values.detect /\ values.url = "blank" ->
            WindowsAsks(IF values.enable = 1 THEN values.server ELSE <<>>, request)
=============================================================================
