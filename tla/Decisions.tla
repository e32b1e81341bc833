----------------------------- MODULE Decisions -----------------------------
(***************************************************************************)
(* The decisions the crate takes from one set of inputs, next to what the  *)
(* inputs ask for: which store is in effect, what a store says of a        *)
(* request, whether a bypass list names a host, and what a PAC script is   *)
(* told.  A behaviour is one question and its answer.                      *)
(***************************************************************************)
EXTENDS BypassLists

L == INSTANCE LinuxStores
W == INSTANCE WindowsStores
A == INSTANCE AppleStores
N == INSTANCE AndroidStores
R == INSTANCE Reads
K == INSTANCE KConfig
T == INSTANCE Routing
S == INSTANCE PacLookups

VARIABLES
    topic,   \* what is asked about
    given,   \* the inputs
    stage,   \* asked, walking (inside the matcher's loop), answered
    answer   \* what the code makes of the inputs

vars == <<topic, given, stage, answer>>

-----------------------------------------------------------------------------
(* The questions.  A store is asked about every request.                   *)

Requests == L!Requests

\* The variables of the environment in upper case that matter to the rules.
UpperCase ==
    {[s \in L!EnvSlots |-> CASE s = "http" -> h [] s = "all" -> a
                             [] OTHER -> "unset"] :
        h \in {"unset", "proxy", "bad"}, a \in {"unset", "proxy", "blank"}}

Environments ==
    [lower : [L!EnvSlots -> L!Values \cup {"unset"}], upper : UpperCase, cgi : BOOLEAN]

\* A string of tokens, one of two keys and one spare, and the user's values.
TokenStrings ==
    SeqOf([key : {"http", "socks", "all", "unknown"}, value : {"p", "q", "blank", "bad"}], 2)
        \cup {<<s, t, u>> : s, t, u \in [key : {"http", "socks", "all"},
                                          value : {"p", "blank", "bad"}]}

UserStrings == {<<>>, <<[key |-> "http", value |-> "p"]>>, <<[key |-> "all", value |-> "bad"]>>}

\* Two families of the dictionary vary, the others are off or on.
Plain(enable) == [enable |-> enable, host |-> "good", port |-> "good"]

TwoFamilies ==
    {[s \in A!Slots |-> CASE s = "http" -> h [] s = "socks" -> k [] s = "https" -> x
                          [] s = "ftp" -> Plain("off")] :
        h \in A!Families, k \in A!Families, x \in {Plain("off"), Plain("on")}}

OneFamily ==
    {[s \in A!Slots |-> IF s = "socks" THEN k ELSE Plain("off")] :
        k \in {Plain("on"), Plain("off"), Plain("unreadable")}}

Dictionaries ==
    A!Dictionaries(OneFamily) \cup
        [wpad : {"off"}, pac : {"off"}, script : {"blank"}, url : {"blank"},
         family : TwoFamilies, stray : {FALSE}]

\* A session and a host, of which only what is asked varies.
Sessions ==
    {env \in R!Sessions : env.tokens # {} =>
        env.session = "unknown" /\ ~env.gnome_id /\ ~env.kde_full}

LinuxInputs ==
    [env : Sessions, host : {h \in R!Hosts : h.flatpak = "absent" \/ h.snap = "none"},
     compiled : SUBSET R!Stores, schema : R!Schemata, kioslaverc : R!Readings,
     portal : {"direct", "proxied", "failed"}]

\* Layers of kioslaverc that begin with a header.
Layers(n) ==
    {[state |-> "read", lines |-> <<[header |-> h, flags |-> "none"]>> \o s] :
        h \in K!Headers, s \in SeqOf(K!Lines, n)}

Cascades ==
    {<<a, b>> : a \in Layers(2), b \in Layers(1)}
        \cup {<<a, b, c>> : a \in Layers(1) \cup {K!Missing, K!Unreadable},
                            b \in {K!Missing, K!Unreadable},
                            c \in Layers(1) \cup {K!Missing, K!Unreadable}}

GlobPatterns == SeqOf({"a", "b", "*", "?"}, 4)
\* A text may hold a star of its own, which stands for itself.
Texts == SeqOf({"a", "b"}, 4) \cup SeqOf({"a", "b", "*"}, 3)

\* Days of 400 years and more, and some about the turn to year 0.
DaysBetween(first, last) == first .. last
CalendarDays == DaysBetween(-1200, 146100) \cup DaysBetween(-720968, -719068)

Halves == {d \in Days : d.day \in {1, 2, 30, 31} /\ d.month \in {1, 2, 11, 12}}

\* Times of the day, and ranges between two of them.
Clock == [hour : {0, 1, 12, 23}, minute : {0, 59}, second : {0, 59}]

Init ==
    /\ stage = "asked" /\ answer = <<>>
    /\ \/ topic = "gnome" /\ given \in L!GnomeSettings
       \/ topic = "kde" /\ given \in L!KdeManualFiles \cup L!KdeEnvFiles \cup L!KdeOtherFiles
       \/ topic = "portal" /\ given \in L!PortalAnswers
       \/ topic = "env" /\ given \in Environments
       \/ topic = "windows" /\ given \in W!UserValues(UserStrings)
       \/ topic = "string" /\ given \in TokenStrings
       \/ topic = "apple" /\ given \in Dictionaries
       \/ topic = "android" /\ given \in N!ProxyInfos
       \/ topic = "linux" /\ given \in LinuxInputs
       \/ topic = "win" /\ given \in R!WindowsInputs
       \/ topic = "mac" /\ given \in R!AppleInputs
       \/ topic = "layers" /\ given \in Cascades
       \/ topic = "repeats" /\ given \in EntryLists
       \/ topic = "drop" /\ given \in DroppedEntries
       \/ topic = "entry" /\ given \in B!NameEntries \cup B!MarkedEntries
       \/ topic = "gnome_list" /\ given \in SeqOf(B!ListEntries, 3)
       \/ topic = "mac_list" /\ given \in B!MacLists
       \/ topic = "route" /\ given \in T!Questions
       \/ topic = "url" /\ given \in S!Urls
       \/ topic = "lookup" /\ given \in S!Lookups
       \/ topic = "glob" /\ given \in GlobPatterns \X Texts
       \/ topic = "day" /\ given \in CalendarDays
       \/ topic = "dates" /\ given \in Halves \X Halves
       \/ topic = "hours" /\ given \in Clock \X Clock
       \/ topic = "chain" /\ given \in SeqOf(Candidates, 2)
       \/ topic = "selected" /\ given \in SeqOf(Selections, 4)

-----------------------------------------------------------------------------
(* The answers.                                                            *)

Answer(about, value) ==
    /\ topic = about /\ stage = "asked"
    /\ stage' = "answered" /\ answer' = value
    /\ UNCHANGED <<topic, given>>

\* What resolving each request under a mode gives.
Resolved(mode) == [r \in Requests |-> L!resolve_mode(mode, r)]

AskGnome == Answer("gnome", Resolved(L!mode_from_settings(given)))
AskKde == Answer("kde", Resolved(L!config_from_kioslaverc(given)))
AskPortal == Answer("portal", Resolved(L!PortalMode(given)))
AskEnv == Answer("env", Resolved(L!FromVars(given)))
AskWindows == Answer("windows", [resolved |-> W!UserMode(given), beneath |-> W!Beneath(given)])
AskString == Answer("string", [r \in Requests |-> W!resolve_mode(W!windows_manual(given), r)])
AskApple == Answer("apple", [r \in Requests |-> A!resolve_mode(A!mode_from_dict(given), r)])
AskAndroid ==
    Answer("android", [r \in Requests |-> N!resolve_mode(N!mode_from_proxy_info(given), r)])

\* A configuration alone, and with the environment folded in.
WithEnv(config) ==
    [alone |-> config,
     folded |-> [e \in R!Environments \X R!EnvPrecedence |-> R!with_env(config, e[1], e[2])]]

AskLinux == Answer("linux", WithEnv(R!LinuxConfig(given)))
AskWin == Answer("win", WithEnv(R!WindowsConfig(given)))
AskMac == Answer("mac", WithEnv(R!AppleConfig(given)))
AskLayers == Answer("layers", K!KdeReading(given))

\* Whether each host is sent around the proxy by the list of each dialect.
AskRepeats ==
    Answer("repeats", [q \in Questions |-> B!matches(B!Reader(q[1], given, {}), q[2], q[3])])
AskDrop ==
    Answer("drop", [q \in Questions |->
        B!matches(B!Reader(q[1], given[1] \o given[3], {"dropped"}), q[2], q[3])])

\* What one entry means in the list of each dialect.
AskEntry ==
    Answer("entry", [d \in B!EntryDialects |-> B!ReadAlone(d, given)])
AskGnomeList == Answer("gnome_list", B!push_gnome_entries(given))
AskMacList == Answer("mac_list", B!bypass_from_dict(given))

\* A request under a configuration, by way of the bindings and of PacResolver.
AskRoute ==
    Answer("route", [route |-> T!route(given),
                     resolver |-> T!resolve_config(given, given.platform # "linux", given.wpad),
                     bodies |-> T!resolve_config(given, FALSE, given.wpad)])

\* What a script is handed, and what its questions about a name give.
AskUrl == Answer("url", [e \in S!Engines |-> S!Handed(e, given)])
AskLookup ==
    Answer("lookup", [resolves |-> S!dns_resolve(given), resolvable |-> S!is_resolvable(given),
                      inNet |-> S!is_in_net(given, "10"), inNone |-> S!is_in_net(given, "none")])

\* wildcard_match: the loop is walked a turn at a time.
BeginMatch ==
    /\ topic = "glob" /\ stage = "asked"
    /\ stage' = "walking" /\ answer' = MatchBegins(given[1], given[2])
    /\ UNCHANGED <<topic, given>>

Match ==
    /\ stage = "walking"
    /\ answer' = MatchTurn(answer)
    /\ stage' = IF answer'.out = "none" THEN "walking" ELSE "answered"
    /\ UNCHANGED <<topic, given>>

AskDay ==
    Answer("day", [day |-> civil_from_days(given), next |-> civil_from_days(given + 1),
                   era |-> civil_from_days(given + 146097),
                   weekdays |-> <<weekday(given), weekday(given + 1)>>])

AskDates ==
    Answer("dates", [d \in Halves |->
        date_range(<<<<"day", given[1].day>>, <<"month", given[1].month>>,
                     <<"day", given[2].day>>, <<"month", given[2].month>>>>, d)])

AskHours ==
    Answer("hours", [c \in Clock |->
        [minutes |-> time_range(<<given[1].hour, given[1].minute,
                                  given[2].hour, given[2].minute>>, c),
         seconds |-> time_range(<<given[1].hour, given[1].minute, given[1].second,
                                  given[2].hour, given[2].minute, given[2].second>>, c)]])

AskChain == Answer("chain", parse_find_proxy_result(given))
AskSelected == Answer("selected", steps_from_selected(given))

\* A question is asked once.
Rest == stage = "answered" /\ UNCHANGED vars

Next ==
    \/ AskGnome \/ AskKde \/ AskPortal \/ AskEnv \/ AskWindows \/ AskString
    \/ AskApple \/ AskAndroid \/ AskLinux \/ AskWin \/ AskMac \/ AskLayers
    \/ AskRepeats \/ AskDrop \/ AskEntry \/ AskGnomeList \/ AskMacList \/ AskRoute
    \/ AskUrl \/ AskLookup
    \/ BeginMatch \/ Match \/ AskDay \/ AskDates
    \/ AskHours \/ AskChain \/ AskSelected \/ Rest

Spec == Init /\ [][Next]_vars

-----------------------------------------------------------------------------
Answered(about) == topic = about /\ stage = "answered"

\* A request gets what the store asks for: the proxy of its own family, else the
\* catch-all of that store, and a proxy that was named and lost is an error,
\* never a direct connection.
StoresAreObeyed ==
    /\ Answered("gnome") => \A r \in Requests : answer[r] = L!GnomeAsks(given, r)
    /\ Answered("kde") => \A r \in Requests : answer[r] = L!KdeAsks(given, r)
    /\ Answered("portal") => \A r \in Requests : answer[r] = L!PortalAsks(given, r)
    /\ Answered("env") => \A r \in Requests : answer[r] = L!EnvAsks(given, r)
    /\ Answered("string") => \A r \in Requests : answer[r] = W!WindowsAsks(given, r)
    /\ Answered("apple") => \A r \in Requests : answer[r] = A!AppleAsks(given, r)
    /\ Answered("android") => \A r \in Requests : answer[r] = N!AndroidAsks(given, r)
    /\ Answered("windows") => \A r \in Requests :
           /\ W!resolve_mode(answer.resolved, r) = W!UserAsks(given, r)
           /\ answer.resolved.kind = "manual" => answer.beneath.mode = answer.resolved

\* The mode in effect is that of the store that should decide.  A store that
\* could have decided and could not be read is an error or, beneath one that did
\* decide, a fallback that is recorded.  The environment decides over a system
\* that configured something only if it was asked to come first.
EffectiveIsMeasured ==
    \A read \in {"linux", "win", "mac"} : Answered(read) =>
        LET asks == CASE read = "linux" -> R!LinuxAsks(given)
                      [] read = "win" -> R!WindowsAsks(given)
                      [] read = "mac" -> R!AppleAsks(given)
            lacks == CASE read = "linux" -> R!LinuxLacks(given)
                       [] read = "win" -> R!WindowsLacks(given)
                       [] read = "mac" -> R!AppleLacks(given)
            config == answer.alone
        IN
        IF asks = "failed"
        THEN \A e \in DOMAIN answer.folded : answer.folded[e].failed
        ELSE /\ ~config.failed /\ config.effective = asks /\ config.fallbacks = lacks
             /\ \A e \in DOMAIN answer.folded :
                    answer.folded[e].effective =
                        IF e[1] = "set" /\ (e[2] = "before" \/ config.sources = <<>>)
                        THEN "proxied" ELSE asks

\* The entry of kioslaverc in effect is the one KConfig means: of all the layers
\* and lines the most specific, unless one before it is immutable.
LayersWin == Answered("layers") => answer = K!KdeMeans(given)

\* What is lost of a bypass list, a repeated entry or one nobody can read, sends
\* no request around the proxy that the whole list would send through it.
ListsFailClosed ==
    /\ Answered("repeats") => \A q \in Questions :
           answer[q] <=> B!matches([B!Reader(q[1], given, {}) EXCEPT
                                        !.patterns = B!Entries(q[1], given)], q[2], q[3])
    /\ Answered("drop") => \A q \in Questions :
           answer[q] => B!matches(B!Reader(q[1], given[1] \o <<given[2]>> \o given[3], {}),
                                  q[2], q[3])

\* An entry that becomes a rule sends around the proxy the destinations its own
\* store grants, and no other, and it grants at least one unless it is a glob.
\* A list sends around only what an entry of it grants while its reader still
\* reads, and all of that unless an entry is recorded as lost; and only a list
\* its reader sees brings the implicit destinations with it.
EntriesFailClosed ==
    /\ Answered("entry") => \A d \in B!EntryDialects :
           LET rule == answer[d]
               asked == {q \in Asked : B!Grants(d, given, q[1], q[2])}
               sent == {q \in Asked :
                           B!PatternMatches(B!Reader(d, <<>>, {}), rule, q[1], q[2])}
           IN
           rule.kind \notin {"refused", "none"} =>
               /\ sent = asked
               /\ rule.kind # "wildcard" => sent # {}
    /\ Answered("gnome_list") =>
           LET read == B!GnomeReads(given)
               asked == {q \in Asked : \E e \in read : B!Grants("gnome", e, q[1], q[2])}
               sent == {q \in Asked :
                           B!matches(B!Reader("gnome", answer.patterns, {}), q[1], q[2])}
           IN
           /\ sent \subseteq asked
           /\ answer.rejected = <<>> => sent = asked
    /\ Answered("mac_list") =>
           LET asked == {q \in AskedOfMac : B!MacAsks(given, q[1], q[2])}
               sent == {q \in AskedOfMac : B!matches(answer, q[1], q[2])}
           IN
           /\ sent \subseteq asked
           /\ answer.rejected.entries = 0 => sent = asked

\* A request goes direct because its mode or a script that ran says so, or
\* because a discovery found nothing and nothing lies beneath it in the store it
\* was configured in.  What runs is what the mode or the caller names, on an
\* engine that was asked for; its failure is an error, never another answer; and
\* a script is the caller's to run only where no engine it asked for could.
RoutesAreEarned ==
    Answered("route") =>
        LET ran == answer.route IN
        /\ \A way \in DOMAIN answer :
               T!WhatIsTrue(given, answer[way]) /\ T!EndIsTrue(given, answer[way])
        /\ ran.engine = "native" => given.pac \in {"native", "auto"}
        /\ ran.engine = "quickjs" => given.pac \in {"quickjs", "auto"} /\ given.quickjs
        /\ ran.end = "caller" => T!Wanted(given) # "nothing" /\ ~T!Able(given) /\ ~given.script
        /\ T!Able(given) /\ ran.what = "nothing" =>
               /\ ran.end = "failed"
               /\ \/ T!Refuses(given) \/ ~given.opens \/ ~given.live
                  \/ given.beneath.end = "failed"

\* A script sees of a request no credentials and no fragment, and of an encrypted
\* one the host alone, whatever became of the host.  It asks the system for a
\* name only where the policy that governs it allows, which for a worker is its
\* parent's, sees of the answers the first it may see, and learns from the three
\* functions the same of one host.
ScriptsKnowTheirShare ==
    /\ Answered("url") => \A e \in S!Engines :
           /\ answer[e].parts =
                  IF given.scheme \in {"https", "wss"} THEN {}
                  ELSE given.parts \ {"user", "password", "fragment"}
           /\ answer[e].host = given.host
    /\ Answered("lookup") =>
           LET told == answer.resolves.address
               seen == S!Visible(given)
               name == given.text = "name"
           IN
           /\ (answer.resolves.asked \/ answer.inNet.asked) => S!Governing(given).dns
           /\ ~answer.inNone.asked /\ ~answer.inNone.is
           /\ name /\ told # "null" =>
                  \E i \in seen : S!to_ipv4(given.system[i]) = told /\ \A k \in seen : k >= i
           /\ name /\ S!Governing(given).dns /\ seen # {} => told # "null"
           /\ given.text # "::1" /\ given.text # "[::1]" => (answer.resolvable <=> told # "null")
           /\ name => (answer.inNet.is <=> told = "10.1.2.3")

\* A pattern is said to match exactly the texts it fits, unless the budget is spent.
PatternIsTold(pattern, text, m) ==
    /\ m.out = "yes" => Fits(pattern, text)
    /\ m.out = "no" => ~Fits(pattern, text)
    /\ m.out = "gives_up" => m.budget = 0
    /\ ~Contains(pattern, "?") => (glob_match(pattern, text) <=> Fits(pattern, text))

\* Days follow one another as those of the calendar do.
DayIsTold(day, told) ==
    /\ told.next = DayAfter(told.day)
    /\ told.era = [told.day EXCEPT !.year = @ + 400]
    /\ told.weekdays[2] = (told.weekdays[1] + 1) % 7
    /\ day = 0 => /\ told.day = [year |-> 1970, month |-> 1, day |-> 1]
                  /\ told.weekdays[1] = 4

\* A range holds what comes after its first end and not after its last one.
DatesAreTold(from, to, told) == \A d \in Halves : told[d] <=> ComesBefore(from, to, d)

HoursAreTold(from, to, told) == \A c \in Clock :
    /\ told[c].seconds <=> ClockReaches(from, to, c)
    /\ told[c].minutes <=>
           ClockReaches([from EXCEPT !.second = 0], [to EXCEPT !.second = 59], c)

\* A script is told the truth of a pattern, a day and a range, and a chain has
\* every step once, in the order of its first naming.
ScriptsAreAnswered ==
    /\ Answered("glob") => PatternIsTold(given[1], given[2], answer)
    /\ Answered("day") => DayIsTold(given, answer)
    /\ Answered("dates") => DatesAreTold(given[1], given[2], answer)
    /\ Answered("hours") => HoursAreTold(given[1], given[2], answer)
    /\ Answered("chain") =>
           answer = ChainAsked([i \in 1 .. Len(given) |-> parse_candidate(given[i])])
    /\ Answered("selected") =>
           answer = ChainAsked([i \in 1 .. Len(given) |-> SelectedStep(given[i])])
=============================================================================
