---------------------------- MODULE LinuxStores ----------------------------
(***************************************************************************)
(* The stores of a Linux desktop, and what each asks for:                  *)
(*   - GSettings, org.gnome.system.proxy (sys/linux/gsettings_map.rs);     *)
(*   - kioslaverc, `[Proxy Settings]` (sys/linux/kioslaverc.rs);           *)
(*   - the ProxyResolver portal (sys/linux/portal.rs);                     *)
(* and the environment, which kioslaverc may delegate to (src/src/env.rs). *)
(*                                                                         *)
(* The value of a key that names a proxy is: blank, a text that parses     *)
(* (`proxy`), one that does not (`bad`), and for kioslaverc one that KDE   *)
(* would have expanded (`expand`) or no such key (`absent`).               *)
(***************************************************************************)
EXTENDS Modes

Slots == {"http", "https", "ftp", "socks"}

Values == {"blank", "proxy", "bad"}

-----------------------------------------------------------------------------
(* GSettings.                                                              *)

\* The keys of the schema: `mode`, `autoconfig-url`, `use-same-proxy`, and
\* the `host` of each child.
GnomeSettings ==
    [mode : {"none", "auto", "manual"}, url : {"blank", "proxy", "bad"},
     same : BOOLEAN, host : [Slots -> Values]]

\* endpoint_for.
Endpoint(keys, s) == IF keys.host[s] = "proxy" THEN s ELSE "none"

\* The drop of a child that was a catch-all is as wide as what it caught.
Attributed(keys, s) ==
    IF s = "socks" \/ (s = "http" /\ keys.same) THEN "all" ELSE s

\* https inherits http's value where its own is blank, and http's drop.
Inherits(keys) == ~keys.same /\ keys.host["https"] = "blank"

GnomeDropped(keys) ==
    {Attributed(keys, s) : s \in {c \in Slots : keys.host[c] = "bad"}}
        \cup {s \in {"https"} : Inherits(keys) /\ keys.host["http"] = "bad"}

\* Off is written only where nothing would have caught the scheme.
GnomeSlot(keys, s) ==
    LET own == IF s = "https" /\ Inherits(keys) THEN Endpoint(keys, "http")
               ELSE Endpoint(keys, s) IN
    IF keys.same
    THEN IF s = "http" THEN "none" ELSE own
    ELSE IF own = "none" /\ keys.host["socks"] = "blank"
                 /\ s \notin GnomeDropped(keys)
         THEN "off" ELSE own

GnomeCatchAll(keys) ==
    IF keys.same /\ keys.host["http"] = "proxy" THEN "http"
    ELSE Endpoint(keys, "socks")

\* manual_mode.
GnomeManual(keys) ==
    LET entries == [s \in Schemes |->
            IF s = "all" THEN GnomeCatchAll(keys) ELSE GnomeSlot(keys, s)] IN
    IF GnomeDropped(keys) = {} /\ \A s \in Schemes : entries[s] \in {"none", "off"}
    THEN Direct ELSE Manual(entries, GnomeDropped(keys))

mode_from_settings(keys) ==
    CASE keys.mode = "manual" -> GnomeManual(keys)
      [] keys.mode = "auto" /\ keys.url = "blank" -> Wpad
      [] keys.mode = "auto" /\ keys.url = "proxy" -> Pac
      [] keys.mode = "auto" /\ keys.url = "bad" -> Fails
      [] keys.mode = "none" -> Direct

\* What a child names.
GnomeNames(keys, s) ==
    CASE keys.host[s] = "proxy" -> s
      [] keys.host[s] = "bad" -> "bad"
      [] keys.host[s] = "blank" -> "unset"

\* What the keys ask for: the child's own proxy; then http's, for all schemes
\* when `use-same-proxy` says so and for https alone when it does not; then
\* that of socks.  A websocket asks socks, https and http in turn.
GnomeAsks(keys, request) ==
    LET named(s) == GnomeNames(keys, s)
        spare == IF keys.same THEN <<named("http"), named("socks")>>
                 ELSE <<named("socks")>>
    IN
    CASE keys.mode = "none" -> "direct"
      [] keys.mode = "auto" -> IF keys.url = "bad" THEN "fails" ELSE "script"
      [] keys.mode = "manual" /\ request = "https" ->
            Asked(IF Inherits(keys) THEN <<named("http")>> \o spare
                  ELSE <<named("https")>> \o spare)
      [] keys.mode = "manual" /\ request \in {"http", "ftp", "socks"} ->
            Asked(<<named(request)>> \o spare)
      [] keys.mode = "manual" /\ request = "ws" ->
            Asked(<<named("socks"), named("https"), named("http")>>)
      [] keys.mode = "manual" /\ request = "other" -> Asked(spare)

-----------------------------------------------------------------------------
(* The environment.                                                        *)

EnvSlots == {"http", "https", "ftp", "all"}

\* lookup: the lower case name is asked first.
LookedUp(vars, s) ==
    IF vars.lower[s] # "unset" THEN vars.lower[s] ELSE vars.upper[s]

\* The proxy of a variable is named by its slot.
EnvEntry(value, s) ==
    CASE value = "proxy" -> s
      [] value = "blank" -> "off"
      [] value \in {"bad", "unset"} -> "none"

\* from_vars and to_mode: the map of the slots that are set, and the drops.
EnvMode(value) ==
    LET dropped == {s \in DOMAIN value : value[s] = "bad"}
        entries == [s \in Schemes |->
                       IF s \in DOMAIN value THEN EnvEntry(value[s], s) ELSE "none"]
    IN
    IF dropped = {} /\ entries = NoEntries THEN Direct ELSE Manual(entries, dropped)

\* A request header can set HTTP_PROXY in a CGI process: with the variable in
\* either case there, nothing is read at all.
FromVars(vars) ==
    IF vars.cgi /\ (vars.lower["http"] # "unset" \/ vars.upper["http"] # "unset")
    THEN Fails ELSE EnvMode([s \in EnvSlots |-> LookedUp(vars, s)])

\* What a variable names, in the case that decides.
EnvNames(vars, s) ==
    LET set == IF vars.lower[s] = "unset" THEN vars.upper[s] ELSE vars.lower[s] IN
    CASE set = "proxy" -> s
      [] set = "blank" -> "off"
      [] set \in {"bad", "unset"} -> set

\* What the variables ask for: the scheme's own, then all_proxy.
EnvAsks(vars, request) ==
    LET named(s) == EnvNames(vars, s) IN
    CASE vars.cgi /\ (vars.lower["http"] # "unset" \/ vars.upper["http"] # "unset")
            -> "fails"
      [] ~(vars.cgi /\ (vars.lower["http"] # "unset" \/ vars.upper["http"] # "unset"))
            -> CASE request \in EnvSlots -> Asked(<<named(request), named("all")>>)
                 [] request \in {"socks", "other"} -> Asked(<<named("all")>>)
                 [] request = "ws" -> Asked(<<Skipped(named("https")),
                                          Skipped(named("http")), named("all")>>)

-----------------------------------------------------------------------------
(* kioslaverc.                                                             *)

\* `ProxyType`; 7 and `banana` are both unreadable.
ProxyTypes == {"absent", "unreadable", "none", "manual", "pac", "wpad", "env"}

\* Under ProxyType = 1 a slot holds a proxy.  Under ProxyType = 4 it names a
\* variable, which is unset or holds a value, and which a request header can set
\* if its name begins with HTTP_ (forged).  NoProxyFor does the same.
KdeValues == {"absent", "expand"} \cup Values
KdeNames == KdeValues \cup {"unset", "forged"}

KdeDropped(file) == {s \in Slots : file.slot[s] \in {"bad", "expand"}}

\* manual_mode: a blank slot is off, if there is no socks proxy to catch it, and
\* none that was dropped.
KdeManual(file) ==
    LET socks == IF file.slot["socks"] = "proxy" THEN "socks" ELSE "none"
        entry(s) == CASE file.slot[s] = "proxy" -> s
                      [] file.slot[s] = "blank" /\ file.slot["socks"] \in {"blank", "absent"}
                            -> "off"
                      [] OTHER -> "none"
        entries == [s \in Schemes |-> IF s = "all" THEN socks ELSE entry(s)]
        dropped == {IF s = "socks" THEN "all" ELSE s : s \in KdeDropped(file)}
    IN
    IF dropped = {} /\ \A s \in Schemes : entries[s] \in {"none", "off"}
    THEN Direct ELSE Manual(entries, dropped)

\* env_mode: the variables are read as those of the environment are; a slot that
\* names none this can read is dropped, and socks has no variable at all.
KdeEnv(file) ==
    LET readable == {"http", "https", "ftp"}
        value == [s \in readable |->
                    CASE file.slot[s] \in {"proxy", "forged"} -> "proxy"
                      [] file.slot[s] = "blank" -> "blank"
                      [] file.slot[s] \in {"bad", "expand"} -> "bad"
                      [] file.slot[s] \in {"absent", "unset"} -> "unset"]
        entries == [s \in Schemes |->
                       IF s \in readable THEN EnvEntry(value[s], s) ELSE "none"]
        dropped == {s \in readable : value[s] = "bad"}
                       \cup {s \in {"all"} : file.slot["socks"] # "absent"}
        forged == {s \in readable : file.slot[s] = "forged"}
    IN
    IF file.cgi /\ (forged # {} \/ file.list = "forged") THEN Fails
    ELSE IF dropped = {} /\ entries = NoEntries THEN Direct
    ELSE Manual(entries, dropped)

\* pac_mode.
KdePac(file) ==
    CASE file.script \in {"blank", "absent"} -> Direct
      [] file.script = "expand" -> Manual(NoEntries, {"all"})
      [] file.script = "bad" -> Fails
      [] file.script = "proxy" -> Pac

config_from_kioslaverc(file) ==
    CASE file.type \in {"absent", "unreadable", "none"} -> Direct
      [] file.type = "wpad" -> Wpad
      [] file.type = "pac" -> KdePac(file)
      [] file.type = "manual" -> KdeManual(file)
      [] file.type = "env" -> KdeEnv(file)

\* What a slot names.
KdeNamed(file, s) ==
    CASE file.slot[s] = "proxy" -> s
      [] file.slot[s] \in {"bad", "expand"} -> "bad"
      [] file.slot[s] \in {"blank", "absent"} -> "unset"

\* What the file asks for: a slot's own proxy, then that of socks.
KdeAsksManually(file, request) ==
    LET named(s) == KdeNamed(file, s) IN
    CASE request \in Slots -> Asked(<<named(request), named("socks")>>)
      [] request = "ws" -> Asked(<<named("socks"), named("https"), named("http")>>)
      [] request = "other" -> Asked(<<named("socks")>>)

\* What the variable of a slot names; socks has none that is read.
KdeNamedByEnv(file, s) ==
    CASE s = "socks" -> IF file.slot[s] = "absent" THEN "unset" ELSE "bad"
      [] s # "socks" /\ file.slot[s] \in {"proxy", "forged"} -> s
      [] s # "socks" /\ file.slot[s] = "blank" -> "off"
      [] s # "socks" /\ file.slot[s] \in {"bad", "expand"} -> "bad"
      [] s # "socks" /\ file.slot[s] \in {"absent", "unset"} -> "unset"

KdeAsksTheEnvironment(file, request) ==
    LET named(s) == KdeNamedByEnv(file, s) IN
    CASE request \in Slots -> Asked(<<named(request), named("socks")>>)
      [] request = "ws" -> Asked(<<named("socks"), Skipped(named("https")),
                                   Skipped(named("http"))>>)
      [] request = "other" -> Asked(<<named("socks")>>)

KdeAsks(file, request) ==
    CASE file.type = "manual" -> KdeAsksManually(file, request)
      [] file.type = "env" ->
            IF file.cgi /\ (file.list = "forged"
                            \/ \E s \in Slots \ {"socks"} : file.slot[s] = "forged")
            THEN "fails" ELSE KdeAsksTheEnvironment(file, request)
      [] file.type = "wpad" -> "script"
      [] file.type \in {"absent", "unreadable", "none"} -> "direct"
      [] file.type = "pac" -> CASE file.script = "proxy" -> "script"
                                [] file.script = "bad" -> "fails"
                                [] file.script = "expand" -> "unusable"
                                [] file.script \in {"absent", "blank"} -> "direct"

KdeManualFiles ==
    [type : {"manual"}, slot : [Slots -> KdeValues], script : {"absent"},
     list : {"blank"}, cgi : {FALSE}]

KdeEnvFiles ==
    [type : {"env"}, slot : [Slots -> KdeNames], script : {"absent"},
     list : {"blank", "forged"}, cgi : BOOLEAN]

KdeOtherFiles ==
    [type : ProxyTypes \ {"manual", "env"}, slot : [Slots -> {"absent"}],
     script : KdeValues, list : {"blank"}, cgi : {FALSE}]

-----------------------------------------------------------------------------
(* The portal, asked about one probe for each scheme.                      *)

\* first_choice: the first answer that is not blank.
FirstChoice(answers) ==
    LET said == SelectInSeq(answers, LAMBDA a : a # "blank") IN
    IF said = 0 THEN "direct" ELSE answers[said]

\* read_mode: a call that fails, or a proxy nobody can read, fails the read.
PortalMode(answers) ==
    LET choice == [s \in Schemes |-> FirstChoice(answers[s])] IN
    IF \E s \in Schemes : choice[s] = "bad" \/ answers[s] = <<"failed">> THEN Fails
    ELSE IF \A s \in Schemes : choice[s] = "direct" THEN Direct
    ELSE Manual([s \in Schemes |-> IF choice[s] = "proxy" THEN s ELSE "off"], {})

PortalAnswers ==
    [Schemes -> {<<>>, <<"direct", "proxy">>, <<"blank", "proxy">>, <<"bad">>,
                 <<"failed">>}]

\* What the portal was told about the scheme's probe.
PortalTold(answers, s) ==
    CASE answers[s] = <<"blank", "proxy">> -> s
      [] answers[s] \in {<<>>, <<"direct", "proxy">>} -> "off"

PortalAsks(answers, request) ==
    LET named(s) == PortalTold(answers, s) IN
    IF \E s \in Schemes : answers[s] \in {<<"bad">>, <<"failed">>} THEN "fails"
    ELSE CASE request \in Schemes -> Asked(<<named(request)>>)
           [] request = "other" -> Asked(<<named("all")>>)
           [] request = "ws" ->
                Asked(<<Skipped(named("socks")), Skipped(named("https")),
                        Skipped(named("http")), named("all")>>)
=============================================================================
