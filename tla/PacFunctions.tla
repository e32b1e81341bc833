---------------------------- MODULE PacFunctions ----------------------------
(***************************************************************************)
(* What a PAC script is given to ask with, and what is made of its answer: *)
(* the patterns of shExpMatch (src/src/pac/hostfn.rs, src/src/util.rs),    *)
(* the clock (src/src/pac/time.rs and hostfn.rs) and the chain of proxies  *)
(* (src/src/pac/result.rs).                                                *)
(*                                                                         *)
(* A text is a sequence of characters.  Integers stand far below the width *)
(* of an i64, past which the code saturates or gives up.                   *)
(***************************************************************************)
EXTENDS Integers, Sequences, SequencesExt, FiniteSetsExt

CONSTANTS
    MaxMatchSteps,  \* MAX_MATCH_STEPS: turns of the matcher's loop
    MaxChain        \* MAX_CHAIN: steps of a chain

ASSUME BoundsAssumption == MaxMatchSteps \in Nat /\ MaxChain \in Nat \ {0}

-----------------------------------------------------------------------------
(* Patterns.                                                               *)

From(seq, i) == SubSeq(seq, i, Len(seq))

\* The ends of a part that is looked for behind the first characters taken, and
\* what is taken when it has been found at the first of them, or nowhere.
EndsOf(part, text, taken) ==
    {n \in taken + Len(part) .. Len(text) : SubSeq(text, n - Len(part) + 1, n) = part}

Found(part, text, taken) ==
    IF EndsOf(part, text, taken) = {} THEN Len(text) + 1 ELSE Min(EndsOf(part, text, taken))

\* glob_match, of a pattern without `?`: what stands before the first star is a
\* prefix, what stands between two is looked for from the left, and what stands
\* after the last is a suffix of what is left.
Stars(pattern) == {i \in 1 .. Len(pattern) : pattern[i] = "*"}
Between(pattern, i) == SubSeq(pattern, i + 1, Min({j \in Stars(pattern) : j > i}) - 1)

glob_match(pattern, text) ==
    LET first == SubSeq(pattern, 1, Min(Stars(pattern)) - 1)
        last == From(pattern, Max(Stars(pattern)) + 1)
        taken == FoldLeftDomain(LAMBDA n, i : IF i \in Stars(pattern) \ {Max(Stars(pattern))}
                                              THEN Found(Between(pattern, i), text, n) ELSE n,
                                Len(first), pattern)
    IN
    IF Stars(pattern) = {} THEN pattern = text
    ELSE /\ IsPrefix(first, text)
         /\ taken + Len(last) <= Len(text)
         /\ IsSuffix(last, text)

\* wildcard_match, before its loop: the places in the pattern and in the text,
\* the last star (0 is none) and where its match would be taken up again.
MatchBegins(pattern, text) ==
    [pattern |-> pattern, text |-> text, p |-> 1, t |-> 1, star |-> 0, resume |-> 1,
     budget |-> MaxMatchSteps, out |-> "none"]

\* The turn of a matcher that takes up behind the star where it stands.
TurnInPlace(m) ==
    [m EXCEPT !.budget = @ - 1, !.p = m.star + 1, !.t = @ + 1]

\* No character of the pattern fits: the star before takes one more.
TakeMore(m) ==
    [m EXCEPT !.budget = @ - 1, !.p = m.star + 1, !.resume = @ + 1, !.t = m.resume + 1]

\* One turn of the loop, or what follows it.  A star of the pattern is one before
\* it is a character like that of the text.
MatchTurn(m) ==
    LET going == m.t <= Len(m.text)
        turns == going /\ m.budget > 0
        there == m.p <= Len(m.pattern)
        starred == there /\ m.pattern[m.p] = "*"
        fits == there /\ ~starred /\ m.pattern[m.p] \in {"?", m.text[m.t]}
    IN
    CASE ~going ->
            [m EXCEPT !.out = IF \A i \in m.p .. Len(m.pattern) : m.pattern[i] = "*"
                              THEN "yes" ELSE "no"]
      [] going /\ ~turns -> [m EXCEPT !.out = "gives_up"]
      [] turns /\ starred ->
            [m EXCEPT !.budget = @ - 1, !.star = m.p, !.resume = m.t, !.p = @ + 1]
      [] turns /\ fits -> [m EXCEPT !.budget = @ - 1, !.p = @ + 1, !.t = @ + 1]
      [] turns /\ ~starred /\ ~fits /\ m.star # 0 -> TakeMore(m)
      [] turns /\ ~starred /\ ~fits /\ m.star = 0 ->
            [m EXCEPT !.budget = @ - 1, !.out = "no"]

\* What a pattern means: the text can be cut so that each character of the
\* pattern has its piece, one character for all but the stars.
Fits(pattern, text) ==
    LET n == Len(pattern)
        ends == [0 .. n -> 0 .. Len(text)] IN
    \E cut \in ends :
        /\ cut[0] = 0 /\ cut[n] = Len(text)
        /\ \A i \in 1 .. n :
               IF pattern[i] = "*" THEN cut[i] >= cut[i - 1]
               ELSE /\ cut[i] = cut[i - 1] + 1
                    /\ pattern[i] \in {"?", text[cut[i]]}

-----------------------------------------------------------------------------
(* The clock.                                                              *)

\* Division as the machine does it, towards zero.
Quotient(a, b) == IF a >= 0 THEN a \div b ELSE -((-a) \div b)

\* civil_from_days: days since 1970-01-01.
civil_from_days(day) ==
    LET z == day + 719468
        era == Quotient(IF z >= 0 THEN z ELSE z - 146096, 146097)
        doe == z - era * 146097
        yoe == (doe - doe \div 1460 + doe \div 36524 - doe \div 146096) \div 365
        doy == doe - (365 * yoe + yoe \div 4 - yoe \div 100)
        mp == (5 * doy + 2) \div 153
        month == IF mp < 10 THEN mp + 3 ELSE mp - 9
    IN
    [year |-> yoe + era * 400 + (IF month <= 2 THEN 1 ELSE 0), month |-> month,
     day |-> doy - (153 * mp + 2) \div 5 + 1]

\* The weekday of civil_from_unix; 0 is a Sunday.
weekday(day) == (day + 4) % 7

in_cyclic_range(value, lo, hi) ==
    IF lo <= hi THEN lo <= value /\ value <= hi ELSE value >= lo \/ value <= hi

\* date_range and weekday_range, of the parts a caller gave in the order they
\* were given.  Parts in any other order are no range.
date_range(parts, now) ==
    LET units == [i \in 1 .. Len(parts) |-> parts[i][1]]
        v(i) == parts[i][2] IN
    CASE Len(parts) = 1 -> now[units[1]] = v(1)
      [] Len(parts) = 2 /\ units[1] = units[2] -> in_cyclic_range(now[units[1]], v(1), v(2))
      [] units = <<"day", "month", "day", "month">> ->
            in_cyclic_range(now.month * 100 + now.day, v(2) * 100 + v(1), v(4) * 100 + v(3))
      [] units = <<"month", "year", "month", "year">> ->
            in_cyclic_range(now.year * 100 + now.month, v(2) * 100 + v(1), v(4) * 100 + v(3))
      [] units = <<"day", "month", "year", "day", "month", "year">> ->
            in_cyclic_range(now.year * 10000 + now.month * 100 + now.day,
                            v(3) * 10000 + v(2) * 100 + v(1), v(6) * 10000 + v(5) * 100 + v(4))
      [] OTHER -> FALSE

\* time_range: two hours do not wrap around midnight, what is finer does.
time_range(v, now) ==
    LET seconds == now.hour * 3600 + now.minute * 60 + now.second
        hms(h, m, s) == h * 3600 + m * 60 + s IN
    CASE Len(v) = 1 -> now.hour = v[1]
      [] Len(v) = 2 -> v[1] <= now.hour /\ now.hour <= v[2]
      [] Len(v) = 4 -> in_cyclic_range(seconds, hms(v[1], v[2], 0), hms(v[3], v[4], 59))
      [] Len(v) = 6 ->
            in_cyclic_range(seconds, hms(v[1], v[2], v[3]), hms(v[4], v[5], v[6]))
      [] OTHER -> FALSE

\* The day after, by the rules of the Gregorian calendar.
IsLeap(year) == year % 4 = 0 /\ (year % 100 # 0 \/ year % 400 = 0)
DaysOf(year, month) ==
    IF month = 2 THEN IF IsLeap(year) THEN 29 ELSE 28
    ELSE IF month \in {4, 6, 9, 11} THEN 30 ELSE 31

DayAfter(date) ==
    IF date.day < DaysOf(date.year, date.month) THEN [date EXCEPT !.day = @ + 1]
    ELSE IF date.month < 12 THEN [date EXCEPT !.day = 1, !.month = @ + 1]
    ELSE [day |-> 1, month |-> 1, year |-> date.year + 1]

\* A date is in a range that does not name the year if, going forward from its
\* first day, it comes no later than the last.
Days == [month : 1 .. 12, day : 1 .. 31]
Ahead(from, date) == ((date.month - from.month) * 31 + date.day - from.day) % 372
ComesBefore(from, to, date) == Ahead(from, date) <= Ahead(from, to)

\* And a time is, if the clock reaches it from the first end before it has left
\* the last.
Until(from, time) ==
    ((time.hour - from.hour) * 3600 + (time.minute - from.minute) * 60
        + time.second - from.second) % 86400
ClockReaches(from, to, time) == Until(from, time) <= Until(from, to)

-----------------------------------------------------------------------------
(* The chain.                                                              *)

\* Chain::push: a step that is there already does not count.
push(chain, step) ==
    IF Len(chain) < MaxChain /\ ~Contains(chain, step) THEN Append(chain, step) ELSE chain

\* parse_candidate: a keyword, an address and nothing else.  `none` is no step.
Candidates ==
    [keyword : {"DIRECT", "PROXY", "SOCKS", "BANANA", "blank"},
     address : {"none", "host", "path"}, more : BOOLEAN]

parse_candidate(c) ==
    IF c.keyword \in {"BANANA", "blank"} \/ c.more THEN "none"
    ELSE IF c.keyword = "DIRECT" THEN IF c.address = "none" THEN "direct" ELSE "none"
    ELSE IF c.address = "host" THEN c.keyword ELSE "none"

\* The steps of a chain; <<>> is the error.
Chained(steps) ==
    FoldLeft(LAMBDA chain, s : IF s = "none" THEN chain ELSE push(chain, s), <<>>, steps)

parse_find_proxy_result(candidates) ==
    Chained([i \in 1 .. Len(candidates) |-> parse_candidate(candidates[i])])

\* steps_from_selected: what Android's ProxySelector chose.  An address it has
\* no use for is passed over, and is the error only where nothing else is left.
Selections == [kind : {"DIRECT", "HTTP", "SOCKS", "OTHER"}, usable : BOOLEAN]

SelectedStep(s) ==
    IF s.kind = "DIRECT" THEN "direct"
    ELSE IF s.kind = "OTHER" \/ ~s.usable THEN "none" ELSE s.kind

steps_from_selected(selected) ==
    Chained([i \in 1 .. Len(selected) |-> SelectedStep(selected[i])])

\* The chain these steps ask for: each where it was named first, and no more
\* than fit.
ChainAsked(steps) ==
    LET firsts == {i \in 1 .. Len(steps) :
                      steps[i] # "none" /\ \A j \in 1 .. i - 1 : steps[j] # steps[i]}
        kept == {i \in firsts : Cardinality({j \in firsts : j < i}) < MaxChain}
    IN
    [n \in 1 .. Cardinality(kept) |->
        steps[CHOOSE i \in kept : Cardinality({j \in kept : j < i}) = n - 1]]
=============================================================================
