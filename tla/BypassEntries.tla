---------------------------- MODULE BypassEntries ----------------------------
(***************************************************************************)
(* The entries of a bypass list, HostPattern::parse_in (src/src/bypass.rs) *)
(* in the dialect of the list, and what the reader of each store makes of  *)
(* the same text.                                                          *)
(*                                                                         *)
(* An entry is its labels, what stands in front of them (`lead`), whether  *)
(* a dot ends it, its port, spaces at an edge, and one mark for a text     *)
(* that is no name.  A block of addresses is named by the way it is        *)
(* written.  "u8" is a label that is not ASCII, and "xn" its other form.    *)
(***************************************************************************)
EXTENDS Bypass

EntryDialects == {"suffix", "windows", "macos", "gnome", "kde"}

Blank == [edge |-> "", lead |-> "", labels |-> <<>>, dot |-> FALSE, port |-> NoPort,
          net |-> "none", mark |-> ""]
Written(labels) == [Blank EXCEPT !.labels = labels]

Numbers == {"1", "10", "010", "0"}
Starred(label) == label \in {"*", "a*", "u8*"}
HasStar(labels) == \E i \in 1 .. Len(labels) : Starred(labels[i])

\* Host::parse of a text of numbers: in four decimal octets, and otherwise.
Quad == <<"10", "0", "0", "1">>
Octal == <<"010", "0", "0", "1">>
FoldedAddress(labels) ==
    CASE labels = Quad -> "10.0.0.1"
      [] labels = Octal -> "8.0.0.1"
      [] labels = <<"1">> -> "0.0.0.1"
      [] labels = <<"1", "1">> -> "1.0.0.1"
      [] labels = <<"::1">> -> "::1"
      [] OTHER -> "none"

\* The text of an address, for a rule that compares text.
AddressLabels(ip) ==
    CASE ip = "10.0.0.1" -> Quad
      [] ip = "8.0.0.1" -> <<"8", "0", "0", "1">>
      [] ip = "0.0.0.1" -> <<"0", "0", "0", "1">>
      [] ip = "1.0.0.1" -> <<"1", "0", "0", "1">>
      [] ip = "::1" -> <<"::1">>

\* parse_host: an address, a name, or neither.
parse_host(labels) ==
    IF labels = <<>> THEN "fails"
    ELSE IF FoldedAddress(labels) # "none" THEN "address"
    ELSE IF Last(labels) \in Numbers THEN "fails" ELSE "name"

\* A text ends in an empty label if a dot ends it.
Root(dot) == IF dot THEN <<"">> ELSE <<>>
HostText(host) ==
    IF host.ip = "none" THEN host.labels \o Root(host.dot) ELSE AddressLabels(host.ip)

\* glob_match, of whole labels: a star stands for one of them or more.
Glob(pattern, text) ==
    LET n == Len(pattern)
        m == Len(text)
        fits[p \in 1 .. n + 1, t \in 1 .. m + 1] ==
            IF p > n THEN t > m
            ELSE CASE pattern[p] = "*" -> \E k \in t + 1 .. m + 1 : fits[p + 1, k]
                   [] pattern[p] = "a*" ->
                        t <= m /\ text[t] = "a" /\ \E k \in t + 1 .. m + 1 : fits[p + 1, k]
                   [] OTHER -> t <= m /\ text[t] = pattern[p] /\ fits[p + 1, t + 1]
    IN fits[1, 1]

DestinationLabels ==
    {l \in SeqOf({"a", "b", "xn", "1"}, 3) \ {<<>>} : Last(l) # "1"}
Destinations ==
    {Name(l, dot) : l \in DestinationLabels, dot \in BOOLEAN}
        \cup {Address(ip) : ip \in {"10.0.0.1", "8.0.0.1", "0.0.0.1", "1.0.0.1", "::1"}}

-----------------------------------------------------------------------------
(* parse_in: the guards, and the shapes in the order they are tried.       *)

Refused == [kind |-> "refused"]
NoRule == [kind |-> "none"]

NameRule(labels, match_self, port) ==
    [kind |-> "domain", labels |-> labels, match_self |-> match_self, port |-> port]
ExactRule(host, port) == [kind |-> "exact", host |-> host, port |-> port]
GlobRule(labels, port) ==
    [kind |-> "wildcard", port |-> port,
     hosts |-> {h \in Destinations : Glob(labels, HostText(h))}]
NetRule(first) ==
    [kind |-> "cidr",
     net |-> {ip \in {"10.0.0.1", "8.0.0.1", "0.0.0.1", "1.0.0.1"} :
                 AddressLabels(ip)[1] = first}]

trim(dialect, e) ==
    CASE dialect = "macos" -> e
      [] dialect = "gnome" -> IF e.edge = "after" THEN [e EXCEPT !.edge = ""] ELSE e
      [] OTHER -> [e EXCEPT !.edge = ""]

Word(e, word) == e = Written(<<word>>)

\* The text begins with a dot, and more than dots follows.
LeadingDot(e) ==
    /\ e.lead = "." \/ (e.lead = "" /\ e.labels = <<>> /\ e.dot)
    /\ e.labels # <<>> \/ e.port # NoPort

\* Credentials, a space, a scheme; and what Windows reads as the end of the list.
Unreadable(dialect, e) ==
    \/ e.edge # ""
    \/ e.mark \in {"@", " ", "://"}
    \/ dialect = "windows" /\ e.net # "none"
    \/ dialect = "windows" /\ LeadingDot(e)

\* A block: octets other than decimal are folded, or refused where the readers
\* differ; the short form and what is no block are refused.
NetParsed(dialect, e) ==
    CASE e.net \in {"plain", "bits"} -> NetRule("10")
      [] e.net = "octal" ->
            IF dialect \in {"macos", "kde"} THEN Refused ELSE NetRule("8")
      [] e.net \in {"short", "bad"} -> Refused

\* A port that is none, a dot or a port the store compares as written, brackets
\* about a name, a character that no host has.
Misplaced(dialect, e) ==
    \/ e.mark = ":"
    \/ dialect \in {"windows", "kde"} /\ e.dot /\ \E i \in DOMAIN e.labels : e.labels[i] # "*"
    \/ dialect = "macos" /\ e.port # NoPort
    \/ e.mark = "[" /\ parse_host(e.labels) # "address"
    \/ e.mark = "%"

\* idna_ascii, and whether it fails.
Ascii(labels) == [i \in 1 .. Len(labels) |-> IF labels[i] = "u8" THEN "xn" ELSE labels[i]]
NotIdna(labels) == Contains(labels, "u8*")

\* Stars and numbers that could lie over four octets, with one label in front.
FitsADottedQuad(labels) ==
    /\ HasStar(labels)
    /\ Len(labels) <= 3
    /\ \A i \in 1 .. Len(labels) : labels[i] \in Numbers \cup {"*"}

\* An empty label, or a subdomain of what has none.
Unreachable(e, labels) ==
    \/ e.mark = ".."
    \/ /\ e.lead # ""
       /\ labels # <<>>
       /\ \/ parse_host(labels) = "address"
          \/ parse_host(labels) = "fails" /\ ~FitsADottedQuad(labels)

\* `*.name` and `.name`, without a star in the name.
Subdomains(dialect, labels, port) == NameRule(labels, dialect = "gnome", port)

\* A star as a character: a name in GNOME's list, and anywhere but at one end in
\* the list of macOS.
StarParsed(dialect, e, labels) ==
    CASE dialect = "gnome" -> Refused
      [] dialect = "macos" ->
            IF /\ e.lead = ""
               /\ Len(labels) > 1 /\ Last(labels) = "*"
               /\ ~HasStar(Front(labels))
            THEN GlobRule(labels, e.port) ELSE Refused
      [] OTHER ->
            GlobRule((IF e.lead = "" THEN <<>> ELSE <<"*">>) \o labels, e.port)

\* An octal spelling is read as the address it would be in a URL.
BareFolded(dialect, labels, port) ==
    CASE parse_host(labels) = "fails" -> Refused
      [] parse_host(labels) = "address" ->
            ExactRule(Address(FoldedAddress(labels)), port)
      [] OTHER ->
            IF dialect \in {"windows", "macos"} THEN ExactRule(Name(labels, FALSE), port)
            ELSE NameRule(labels, TRUE, port)

\* A name without a lead or a star, or an address that is not four decimal octets.
BareParsed(dialect, labels, port) ==
    CASE parse_host(labels) = "fails" -> Refused
      [] parse_host(labels) = "address" ->
            IF dialect \in {"windows", "macos", "kde"} THEN Refused
            ELSE ExactRule(Address(FoldedAddress(labels)), port)
      [] OTHER ->
            IF dialect \in {"windows", "macos"} THEN ExactRule(Name(labels, FALSE), port)
            ELSE NameRule(labels, TRUE, port)

NameParsed(dialect, e) ==
    LET labels == Ascii(e.labels) IN
    IF NotIdna(e.labels) \/ Unreachable(e, labels) THEN Refused
    ELSE IF labels = <<>> THEN NoRule
    ELSE IF labels \in {Quad, <<"::1">>}
    THEN ExactRule(Address(FoldedAddress(labels)), e.port)
    ELSE IF HasStar(labels) THEN StarParsed(dialect, e, labels)
    ELSE IF e.lead # "" THEN Subdomains(dialect, labels, e.port)
    ELSE BareParsed(dialect, labels, e.port)

parse_in(dialect, text) ==
    LET e == trim(dialect, text) IN
    CASE e = Blank -> NoRule
      [] Word(e, "*") /\ dialect \notin {"macos", "gnome"} -> [kind |-> "all"]
      [] Word(e, "<local>") -> [kind |-> "local"]
      [] Word(e, "<-loopback>") -> [kind |-> "subtract"]
      [] OTHER ->
            IF Unreadable(dialect, e) THEN Refused
            ELSE IF e.net # "none" THEN NetParsed(dialect, e)
            ELSE IF Misplaced(dialect, e) THEN Refused
            ELSE NameParsed(dialect, e)

\* expand_abbreviated_cidr: the short form of a block is padded with zeros.
expand_abbreviated_cidr(e) ==
    IF e.net = "short" /\ e.edge = "" THEN [e EXCEPT !.net = "plain"] ELSE e

-----------------------------------------------------------------------------
(* push_gnome_entries: a mask or an address first, and the names until one *)
(* is empty.                                                               *)

IsAddressText(labels) == labels \in {Quad, <<"::1">>}

\* glib_mask: an address, or a block without a bit past its prefix.
Mask(e) == Word(e, "::1") \/ e = Written(Quad) \/ e = [Blank EXCEPT !.net = "plain"]
glib_mask(e) ==
    IF e.net = "plain" THEN NetRule("10")
    ELSE [kind |-> "cidr", net |-> {FoldedAddress(e.labels)}]

\* glib_name: brackets need a port, a port its digits; what is stripped in front
\* is left to parse_in, which strips the same.
NoGlibName(e) == e.mark \in {":", "://"} \/ (e.mark = "[" /\ e.port = NoPort)

\* A name that GLib compares as written, and no destination is written so.
NeverMet(e) ==
    \/ e.labels \in {<<"<local>">>, <<"<-loopback>">>}
    \/ Contains(e.labels, "u8") \/ Contains(e.labels, "u8*")
    \/ e.dot
    \/ e.net # "none"
    \/ ~IsAddressText(e.labels) /\ parse_host(e.labels) = "address"

Nameless(e) == e.labels = <<>> /\ e.net = "none" /\ ~NoGlibName(e)

\* One entry: a mask, a name that is refused, or one that push_entry_in takes.
GnomeStep(s, text) ==
    LET e == trim("gnome", text)
        parsed == parse_in("gnome", e)
        unmet == ~Nameless(e) /\ (s.names_ended \/ NeverMet(e))
        past == [s EXCEPT !.names_ended = @ \/ Nameless(e)]
    IN
    IF Mask(e) THEN [s EXCEPT !.patterns = Append(@, glib_mask(e))]
    ELSE IF NoGlibName(e) \/ unmet \/ parsed = Refused
    THEN [past EXCEPT !.rejected = Append(@, e)]
    ELSE IF parsed = NoRule THEN past
    ELSE [past EXCEPT !.patterns = Append(@, parsed)]

push_gnome_entries(entries) ==
    FoldLeft(GnomeStep, [patterns |-> <<>>, rejected |-> <<>>, names_ended |-> FALSE], entries)

\* An entry alone in the list of its dialect: what becomes of it.
ReadAlone(dialect, e) ==
    LET gnome == push_gnome_entries(<<e>>) IN
    CASE dialect = "macos" -> parse_in(dialect, expand_abbreviated_cidr(e))
      [] dialect = "gnome" -> IF gnome.rejected # <<>> THEN Refused
                              ELSE IF gnome.patterns = <<>> THEN NoRule ELSE gnome.patterns[1]
      [] OTHER -> parse_in(dialect, e)

\* push_entry_in, of an entry of macOS: a rule, a refusal, or nothing.
MacStep(s, e) ==
    LET parsed == parse_in("macos", expand_abbreviated_cidr(e)) IN
    IF parsed = Refused THEN [s EXCEPT !.lost = @ + 1]
    ELSE IF parsed = NoRule THEN s
    ELSE [s EXCEPT !.kept = Append(@, parsed)]

\* bypass_from_dict: a list of macOS, of which a part may be unreadable, and the
\* switch for simple names.
bypass_from_dict(dict) ==
    LET list == IF dict.usable THEN dict.list ELSE <<>>
        unreadable == IF dict.usable THEN dict.unreadable ELSE 0
        read == FoldLeft(MacStep, [kept |-> <<>>, lost |-> 0], list)
        keyed == list # <<>> \/ unreadable > 0 \/ dict.simple = "on"
    IN
    [Reader("macos", read.kept, {}) EXCEPT
        !.implicit = IF keyed THEN "cfnetwork" ELSE "empty",
        !.exclude_simple_hostnames = (dict.simple = "on"),
        !.rejected = [entries |-> read.lost, unreadable |-> unreadable,
                      list |-> ~dict.usable, simple |-> dict.simple = "unusable"]]

-----------------------------------------------------------------------------
(* What the reader of each store makes of an entry.                        *)

\* The addresses a block names to its reader; where two readers of the store
\* differ, those that both name.
BlockNames(dialect, net) ==
    CASE net \in {"plain", "bits"} /\ dialect # "windows" -> {"10"}
      [] net = "octal" /\ dialect = "suffix" -> {"8"}
      [] net = "short" /\ dialect = "macos" -> {"10"}
      [] OTHER -> {}

\* An address names itself; the environment's readers fold its other spellings.
NamesAddress(dialect, e, ip) ==
    /\ e.lead = ""
    /\ e.dot => dialect \in {"suffix", "macos"}
    /\ \/ IsAddressText(e.labels) /\ FoldedAddress(e.labels) = ip
       \/ dialect = "suffix" /\ FoldedAddress(Ascii(e.labels)) = ip

\* A name, and what may stand in front of it.
NamesName(dialect, e, host) ==
    LET labels == IF dialect = "gnome" THEN e.labels ELSE Ascii(e.labels)
        below == IsSuffix(labels, host.labels) /\ Len(host.labels) > Len(labels)
        self == host.labels = labels
    IN
    /\ labels # <<>> /\ ~HasStar(labels)
    /\ ~host.dot \/ dialect \in {"suffix", "macos"}
    /\ e.dot => dialect \in {"suffix", "macos"}
    /\ CASE dialect = "gnome" -> below \/ self
         [] dialect \in {"suffix", "kde"} -> below \/ (e.lead = "" /\ self)
         [] dialect \in {"windows", "macos"} ->
               \/ e.lead = "" /\ self
               \/ e.lead = "*." /\ below
               \/ e.lead = "." /\ dialect = "macos" /\ below

\* A star as a character: of the whole text for the readers of globs, the last
\* label of it for macOS, and nothing for GNOME.
NamesByStar(dialect, e, host) ==
    LET labels == Ascii(e.labels)
        text == (IF e.lead = "" THEN <<>> ELSE <<"*">>) \o labels
        seen == IF dialect \in {"suffix", "macos"}
                THEN HostText([host EXCEPT !.dot = FALSE]) ELSE HostText(host)
    IN
    /\ HasStar(labels) /\ Glob(text, seen)
    /\ CASE dialect \in {"suffix", "kde"} -> TRUE
         [] dialect = "windows" -> e.lead # "."
         [] dialect = "macos" ->
               e.lead = "" /\ Len(labels) > 1 /\ Last(labels) = "*" /\ ~HasStar(Front(labels))
         [] dialect = "gnome" -> FALSE

Grants(dialect, text, host, port) ==
    LET e == trim(dialect, text) IN
    /\ e.edge = "" /\ e.mark \in {"", "["}
    /\ port_matches(e.port, port)
    /\ dialect = "macos" => e.port = NoPort
    /\ IF e.net # "none"
       THEN /\ host.ip \in {"10.0.0.1", "8.0.0.1", "0.0.0.1", "1.0.0.1"}
            /\ AddressLabels(host.ip)[1] \in BlockNames(dialect, e.net)
       ELSE \/ host.ip # "none" /\ NamesAddress(dialect, e, host.ip)
            \/ host.ip = "none" /\ e.mark = "" /\ NamesName(dialect, e, host)
            \/ e.mark = "" /\ NamesByStar(dialect, e, host)
            \/ Word(e, "*") /\ dialect \notin {"macos", "gnome"}

\* GLib reads masks wherever they stand, and names until one is empty.
GnomeReads(list) ==
    {list[i] : i \in {k \in DOMAIN list :
        \/ Mask(trim("gnome", list[k]))
        \/ \A n \in 1 .. k : ~Nameless(trim("gnome", list[n]))}}

\* CFNetwork: the entries of an array, the switch, and its own destinations once
\* it sees either of them.
MacAsks(dict, host, port) ==
    \/ dict.usable /\ \E i \in DOMAIN dict.list : Grants("macos", dict.list[i], host, port)
    \/ dict.simple = "on" /\ ~HasDot(host)
    \/ /\ covers("cfnetwork", host)
       /\ \/ dict.simple = "on"
          \/ dict.usable /\ (dict.list # <<>> \/ dict.unreadable > 0)

-----------------------------------------------------------------------------
(* The entries of the checks: names and addresses in every form, and the   *)
(* other marks of an entry about a few of them.                            *)

Names ==
    (SeqOf({"a", "b", "u8", "*", "a*", "1"}, 2) \ {<<>>})
        \cup {Quad, Octal, <<"::1">>, <<"10", "*">>, <<"u8*">>, <<"*", "0", "1">>}

NameEntries ==
    {e \in [edge : {""}, lead : {"", ".", "*."}, labels : Names \cup {<<>>}, dot : BOOLEAN,
            port : {NoPort, 80}, net : {"none"}, mark : {""}] :
        /\ e.labels = <<>> => ~e.dot
        /\ e.labels = <<"*">> => ~e.dot
        /\ Len(e.labels) > 1 /\ e.labels[1] = "*" => e.lead # ""
        /\ e.labels = <<"::1">> => e.port = NoPort}

MarkedEntries ==
    {[Written(l) EXCEPT !.mark = m, !.port = p] :
        l \in {<<"a">>, <<"b", "a">>, Quad, <<"::1">>}, p \in {NoPort, 80},
        m \in {"@", " ", "://", "%", "..", "[", ":"}}
    \cup {[Written(l) EXCEPT !.edge = e] :
            l \in {<<"a">>, Quad, <<"*">>, <<"10", "*">>}, e \in {"before", "after"}}
    \cup {[Blank EXCEPT !.net = n, !.edge = e] :
            n \in {"plain", "bits", "octal", "short", "bad"}, e \in {"", "before", "after"}}

ListEntries ==
    {Blank, Written(<<"a">>), Written(<<"u8">>), Written(Quad), Written(Octal),
     Written(<<"<local>">>), [Blank EXCEPT !.lead = "."],
     [Blank EXCEPT !.port = 80], [Written(<<"b", "a">>) EXCEPT !.lead = "*."],
     [Written(<<"a">>) EXCEPT !.dot = TRUE], [Written(<<"a">>) EXCEPT !.mark = ":"],
     [Written(Quad) EXCEPT !.mark = "[", !.port = 80], [Blank EXCEPT !.net = "plain"],
     [Blank EXCEPT !.net = "bits"], [Written(<<"a">>) EXCEPT !.edge = "after"]}

MacLists ==
    [list : SeqOf({Written(<<"a">>), [Blank EXCEPT !.net = "short"], Blank,
                   [Written(<<"a">>) EXCEPT !.port = 80],
                   [Written(<<"a">>) EXCEPT !.edge = "after"]}, 2),
     usable : BOOLEAN, unreadable : 0 .. 1, simple : {"on", "off", "unusable"}]
=============================================================================
