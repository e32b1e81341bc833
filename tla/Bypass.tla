------------------------------- MODULE Bypass -------------------------------
(***************************************************************************)
(* Bypass lists, BypassRules (src/src/bypass.rs), over a few hosts that    *)
(* differ in what the rules can tell apart.                                *)
(*                                                                         *)
(* A name is its labels, outermost last, and whether a dot ends it.  An    *)
(* address is written as itself; `Mapped` are the IPv4 addresses in IPv6.  *)
(* A wildcard is the set of hosts its pattern matches.                     *)
(***************************************************************************)
EXTENDS Naturals, Sequences, SequencesExt, FiniteSetsExt

Name(labels, dot) == [labels |-> labels, dot |-> dot, ip |-> "none"]
Address(ip) == [labels |-> <<>>, dot |-> FALSE, ip |-> ip]

Mapped(ip) ==
    CASE ip = "::ffff:127.0.0.1" -> "127.0.0.1"
      [] ip = "::ffff:10.0.0.1" -> "10.0.0.1"
      [] OTHER -> ip
IsMapped(ip) == Mapped(ip) # ip

\* reduce_mapped_net: a net of nothing but mapped addresses is one of IPv4.
MappedNet(net) ==
    IF \A ip \in net : IsMapped(ip) THEN {Mapped(ip) : ip \in net} ELSE net

HasDot(host) ==
    IF host.ip = "none" THEN host.dot \/ Len(host.labels) > 1
    ELSE host.ip \notin {"::1", "fe80::1"}

\* is_loopback, is_loopback_address and is_link_local.
Loopbacks == {"127.0.0.1", "127.0.0.2", "::1"}
LocalHosts == {"127.0.0.1", "::1"}
LinkLocals == {"169.254.0.1", "fe80::1"}

\* ImplicitBypass::covers.
covers(implicit, host) ==
    CASE implicit = "broad" /\ host.ip # "none" -> Mapped(host.ip) \in Loopbacks
      [] implicit = "broad" /\ host.ip = "none" ->
            host.labels = <<"loopback">> \/ Last(host.labels) = "localhost"
      [] implicit = "wininet" /\ host.ip # "none" -> host.ip \in LocalHosts \cup LinkLocals
      [] implicit = "wininet" /\ host.ip = "none" ->
            host.labels \in {<<"localhost">>, <<"loopback">>} /\ ~host.dot
      [] implicit = "cfnetwork" /\ host.ip # "none" -> host.ip \in LocalHosts
      [] implicit = "cfnetwork" /\ host.ip = "none" ->
            host.labels = <<"localhost">> /\ ~host.dot
      [] implicit = "empty" -> FALSE

NoPort == 0
port_matches(rule, port) == rule \in {NoPort, port}

\* The host as the entries see it: the dot at its end goes, if the list says so.
Stripped(rules, host) ==
    IF rules.strip_trailing_dot THEN [host EXCEPT !.dot = FALSE] ELSE host

\* HostPattern::matches.
PatternMatches(rules, pattern, host, port) ==
    LET reduce == rules.ipv4_mapped_as_ipv4
        seen(ip) == IF reduce THEN Mapped(ip) ELSE ip
        text == Stripped(rules, host)
    IN
    CASE pattern.kind = "all" -> TRUE
      [] pattern.kind = "subtract" -> FALSE
      [] pattern.kind = "local" -> host.ip = "none" /\ ~HasDot(host)
      [] pattern.kind = "cidr" ->
            /\ host.ip # "none"
            /\ seen(host.ip) \in IF reduce THEN MappedNet(pattern.net) ELSE pattern.net
      [] pattern.kind = "exact" ->
            /\ IF host.ip # "none" /\ pattern.host.ip # "none"
               THEN seen(host.ip) = seen(pattern.host.ip)
               ELSE text = pattern.host
            /\ port_matches(pattern.port, port)
      [] pattern.kind = "domain" ->
            /\ text.ip = "none" /\ ~text.dot
            /\ IsSuffix(pattern.labels, text.labels)
            /\ pattern.match_self \/ Len(text.labels) > Len(pattern.labels)
            /\ port_matches(pattern.port, port)
      [] pattern.kind = "wildcard" ->
            text \in pattern.hosts /\ port_matches(pattern.port, port)

Subtracts(pattern) == pattern.kind = "subtract"

\* matches, before the walk: what no entry names, under a reversed list.  With
\* an entry dropped nobody knows what it named.
UnnamedTrustingly(rules) == rules.reversed_exceptions
Unnamed(rules) == rules.reversed_exceptions /\ rules.rejected = {}

\* matches: the last entry that has something to say of the host decides.
matches(rules, host, port) ==
    LET implicit == covers(rules.implicit, host)
        says(i) == IF Subtracts(rules.patterns[i]) THEN implicit
                   ELSE PatternMatches(rules, rules.patterns[i], host, port)
        speaking == {i \in 1 .. Len(rules.patterns) : says(i)}
        subtracted == \E i \in 1 .. Len(rules.patterns) : Subtracts(rules.patterns[i])
    IN
    CASE rules.exclude_simple_hostnames /\ ~HasDot(host) /\ ~(subtracted /\ implicit)
            -> TRUE
      [] OTHER ->
            IF speaking = {} THEN implicit \/ Unnamed(rules)
            ELSE IF Subtracts(rules.patterns[Max(speaking)]) THEN Unnamed(rules)
            ELSE ~rules.reversed_exceptions

\* dedup_patterns: the second of two equal entries goes, if no subtraction
\* stands between them.
Deduped(s, p) ==
    CASE Subtracts(p) -> [kept |-> Append(s.kept, p), seen |-> {}]
      [] ~Subtracts(p) /\ p \in s.seen -> s
      [] ~Subtracts(p) /\ p \notin s.seen ->
            [kept |-> Append(s.kept, p), seen |-> s.seen \cup {p}]

dedup_patterns(patterns) ==
    FoldLeft(Deduped, [kept |-> <<>>, seen |-> {}], patterns).kept

\* The Android list begins by giving up the implicit rules.
Entries(dialect, patterns) ==
    IF dialect = "android" THEN <<[kind |-> "subtract"]>> \o patterns ELSE patterns

\* The list a dialect's reader builds from its entries: bypass_entries_in,
\* bypass_from_settings, bypass_from, bypass_from_dict and bypass.  macOS has
\* implicit rules only beside a list or the switch for simple names.
Reader(dialect, patterns, rejected) ==
    [patterns |-> dedup_patterns(Entries(dialect, patterns)),
     rejected |-> rejected,
     implicit |-> CASE dialect \in {"suffix", "android"} -> "broad"
                    [] dialect = "windows" -> "wininet"
                    [] dialect = "macos" /\ patterns = <<>> /\ rejected = {} -> "empty"
                    [] dialect = "macos_simple" -> "cfnetwork"
                    [] dialect = "macos" /\ ~(patterns = <<>> /\ rejected = {}) -> "cfnetwork"
                    [] dialect \in {"gnome", "kde", "kde_reversed"} -> "empty",
     ipv4_mapped_as_ipv4 |-> dialect = "suffix",
     strip_trailing_dot |-> dialect \in {"suffix", "macos", "macos_simple"},
     exclude_simple_hostnames |-> dialect = "macos_simple",
     reversed_exceptions |-> dialect = "kde_reversed"]

Dialects ==
    {"suffix", "windows", "macos", "macos_simple", "gnome", "kde", "kde_reversed",
     "android"}

\* The hosts and the entries of the checks.
Hosts ==
    {Name(<<"localhost">>, FALSE), Name(<<"localhost">>, TRUE), Name(<<"a">>, FALSE),
     Name(<<"b", "a">>, FALSE), Name(<<"b", "a">>, TRUE), Name(<<"x", "localhost">>, FALSE)}
        \cup {Address(ip) : ip \in {"127.0.0.1", "127.0.0.2", "::1", "10.0.0.1",
                                    "::ffff:127.0.0.1", "::ffff:10.0.0.1", "fe80::1"}}

Patterns ==
    {[kind |-> "subtract"], [kind |-> "local"], [kind |-> "all"],
     [kind |-> "wildcard", port |-> NoPort,
      hosts |-> {Address("127.0.0.1"), Address("127.0.0.2")}],
     [kind |-> "cidr", net |-> {"127.0.0.1", "127.0.0.2"}],
     [kind |-> "cidr", net |-> {"::ffff:10.0.0.1"}],
     [kind |-> "exact", host |-> Name(<<"localhost">>, FALSE), port |-> NoPort],
     [kind |-> "exact", host |-> Address("10.0.0.1"), port |-> 80],
     [kind |-> "domain", labels |-> <<"a">>, match_self |-> FALSE, port |-> NoPort],
     [kind |-> "domain", labels |-> <<"localhost">>, match_self |-> TRUE, port |-> 80]}
=============================================================================
