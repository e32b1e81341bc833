---------------------------- MODULE AppleStores ----------------------------
(***************************************************************************)
(* The proxy dictionary of macOS and iOS (src/src/sys/proxy_dict.rs).      *)
(*                                                                         *)
(* A flag is on, off, absent or unreadable; a text is blank or absent      *)
(* (blank), one that parses (good) or not (bad), or of another type        *)
(* (unreadable).                                                           *)
(***************************************************************************)
EXTENDS Modes

Slots == {"http", "https", "ftp", "socks"}
Flags == {"on", "off", "absent", "unreadable"}
Texts == {"blank", "good", "bad", "unreadable"}

\* The keys of a family: <Scheme>Enable, <Scheme>Proxy and <Scheme>Port.
Families == [enable : Flags, host : Texts, port : {"good", "bad"}]

\* A family this cannot route, Gopher or RTSP, that left a record.
Dictionaries(families) ==
    [wpad : Flags, pac : Flags, script : {"blank", "good", "unreadable"},
     url : Texts, family : families, stray : BOOLEAN]

\* The loop over SCHEMES, one turn: what the family writes into its slot.
FamilyEntry(keys, s) ==
    CASE keys.enable \in {"absent", "unreadable"} -> "none"
      [] keys.enable = "off" -> "off"
      [] keys.enable = "on" /\ keys.host = "blank" -> "off"
      [] keys.enable = "on" /\ keys.host \in {"bad", "unreadable"} -> "none"
      [] keys.enable = "on" /\ keys.host = "good" ->
            IF keys.port = "good" THEN s ELSE "none"

\* And whether it is dropped.
FamilyDropped(keys) ==
    \/ keys.enable = "unreadable"
    \/ /\ keys.enable = "on"
       /\ \/ keys.host \in {"bad", "unreadable"}
          \/ keys.host = "good" /\ keys.port = "bad"

\* apply_socks_fallback: over everything that is no proxy.
FilledBySocks(entries) ==
    IF entries["socks"] \in {"none", "off"} THEN entries
    ELSE [s \in Schemes |-> IF entries[s] \in {"none", "off"} THEN entries["socks"]
                            ELSE entries[s]]

\* The switches of a script that were recorded, each for every scheme.
SwitchDropped(dict) ==
    \/ dict.wpad = "unreadable"
    \/ dict.pac = "unreadable"
    \/ dict.pac = "on" /\ "unreadable" \in {dict.script, dict.url}

Dropped(dict) ==
    {IF s = "socks" THEN "all" ELSE s : s \in {f \in Slots : FamilyDropped(dict.family[f])}}
        \cup {s \in {"all"} : SwitchDropped(dict)}

\* Off stays, whatever was lost.
KeepsOff(entries, dropped) == entries

\* Off stands only where nothing was lost that would have replaced it.
ClearedOfOff(entries, dropped) ==
    IF "all" \in dropped
    THEN [s \in Schemes |-> IF entries[s] = "off" THEN "none" ELSE entries[s]]
    ELSE entries

\* mode_from_dict, past the scripts.
ManualMode(dict) ==
    LET own == [s \in Schemes |->
                   IF s = "all" THEN "none" ELSE FamilyEntry(dict.family[s], s)] IN
    IF (\A s \in Schemes : own[s] \in {"none", "off"}) /\ Dropped(dict) = {} /\ ~dict.stray
    THEN Direct
    ELSE Manual(ClearedOfOff(FilledBySocks(own), Dropped(dict)), Dropped(dict))

mode_from_dict(dict) ==
    IF dict.wpad = "on" THEN Wpad
    ELSE IF dict.pac = "on" /\ dict.script = "good" THEN PacInline
    ELSE IF dict.pac = "on" /\ dict.url = "good" THEN Pac
    ELSE IF dict.pac = "on" /\ dict.url = "bad" THEN Fails
    ELSE ManualMode(dict)

\* What the keys of a family name.
FamilyNames(keys, s) ==
    CASE keys.enable = "unreadable" -> "bad"
      [] keys.enable \in {"off", "absent"} -> "unset"
      [] keys.enable = "on" /\ keys.host = "blank" -> "unset"
      [] keys.enable = "on" /\ keys.host = "good" /\ keys.port = "good" -> s
      [] OTHER -> "bad"

\* What the dictionary asks for: a script, if one is switched on; else the proxy
\* of the family, then that of socks, which also stands in for a family that is
\* off.  A switch or a script nobody can read is a proxy that is of no use.
AppleAsks(dict, request) ==
    LET named(s) == FamilyNames(dict.family[s], s)
        spare == <<named("socks"), IF SwitchDropped(dict) THEN "bad" ELSE "unset">>
    IN
    IF dict.wpad = "on" \/ (dict.pac = "on" /\ "good" \in {dict.script, dict.url})
    THEN "script"
    ELSE IF dict.pac = "on" /\ dict.url = "bad" THEN "fails"
    ELSE CASE request \in Slots -> Asked(<<named(request)>> \o spare)
           [] request = "other" -> Asked(spare)
           [] request = "ws" ->
                Asked(<<named("socks"), named("https"), named("http")>> \o spare)
=============================================================================
