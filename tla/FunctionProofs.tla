---------------------------- MODULE FunctionProofs ---------------------------
(***************************************************************************)
(* What the functions of the decisions compute, for every input.  Those of *)
(* PacFunctions: the loop of wildcard_match tells the truth of any pattern *)
(* and any text, glob_match of any without a question mark, the days       *)
(* follow one another for ever, a range holds what comes between its ends, *)
(* and a chain has the steps that were named.  Those of Bypass and of      *)
(* BypassEntries: a repeated entry changes nothing, a dropped one sends no *)
(* request around the proxy, an entry becomes a rule for what its store    *)
(* grants by it or none, and a list sends around what its entries grant.   *)
(* A fold has no theorem of its own to cite: the lemmas on folds name the  *)
(* values it runs through and climb them one by one.                       *)
(***************************************************************************)
EXTENDS BypassLists, SequenceTheorems, FunctionTheorems, FiniteSetTheorems, NaturalsInduction,
        WellFoundedInduction, TLAPS
-----------------------------------------------------------------------------
(* Positions and folds.                                                    *)

\* Some position is the first of those that are meant.
LEMMA SomeIsFirst ==
  ASSUME NEW n \in Nat, NEW I \in SUBSET (1 .. n), I # {}
  PROVE  \E i \in I : \A j \in I : i <= j
<1>1. I \subseteq Nat
  OBVIOUS
<1>2. PICK i \in I : \A j \in I : <<j, i>> \notin OpToRel(<, Nat)
  BY <1>1, NatLessThanWellFounded, WFMin, Zenon
<1>3. ASSUME NEW j \in I
      PROVE  i <= j
  <2>1. i \in Nat /\ j \in Nat
    BY <1>1
  <2>2. ~(j < i)
    BY <1>2, <2>1 DEF OpToRel
  <2> QED
    BY <2>1, <2>2
<1> QED
  BY <1>3

\* Some position is the last of those that are meant.
LEMMA SomeIsLast ==
  ASSUME NEW n \in Nat, NEW I \in SUBSET (1 .. n), I # {}
  PROVE  \E i \in I : \A j \in I : j <= i
<1> DEFINE back == {n - i : i \in I}
<1>1. back \subseteq Nat /\ back # {}
  <2>1. \A i \in I : n - i \in Nat
    OBVIOUS
  <2> QED
    BY <2>1
<1>2. PICK m \in back : \A k \in back : <<k, m>> \notin OpToRel(<, Nat)
  BY <1>1, NatLessThanWellFounded, WFMin, Zenon
<1>3. PICK i \in I : m = n - i
  OBVIOUS
<1>4. \A j \in I : j <= i
  <2> TAKE j \in I
  <2>1. n - j \in back
    OBVIOUS
  <2>2. ~(n - j < m)
    BY <1>1, <1>2, <2>1 DEF OpToRel
  <2> QED
    BY <1>3, <2>2
<1> QED
  BY <1>4

\* A position that fits, and none before it, is the one that is found.
LEMMA SelectedFirst ==
  ASSUME NEW n \in Nat, NEW I \in SUBSET (1 .. n), NEW i \in I,
         \A j \in I : i <= j
  PROVE  Min(I) = i
  <1>1. \A k \in I : (\A j \in I : k <= j) => k = i
    OBVIOUS
  <1>2. Min(I) \in I /\ \A j \in I : Min(I) <= j
    BY DEF Min
  <1> QED BY <1>1, <1>2

\* The greatest of some positions is the one no other is above.
LEMMA SelectedLast ==
  ASSUME NEW n \in Nat, NEW I \in SUBSET (1 .. n), NEW i \in I,
         \A j \in I : i >= j
  PROVE  Max(I) = i
  <1>1. \A k \in I : (\A j \in I : k >= j) => k = i
    OBVIOUS
  <1>2. Max(I) \in I /\ \A j \in I : Max(I) >= j
    BY DEF Max
  <1> QED BY <1>1, <1>2

\* The greatest of some positions.
LEMMA GreatestIs ==
  ASSUME NEW n \in Nat, NEW I \in SUBSET (1 .. n), I # {}
  PROVE  Max(I) \in I /\ \A j \in I : j <= Max(I)
<1>1. PICK i \in I : \A j \in I : j <= i
  BY SomeIsLast
<1>2. i \in 1 .. n /\ \A j \in I : i >= j
  BY <1>1
<1>3. Max(I) = i
  BY <1>1, <1>2, SelectedLast
<1> QED
  BY <1>1, <1>3

\* What holds of nothing, and of one more whenever it holds, holds throughout.
LEMMA Climbs ==
  ASSUME NEW n \in Nat, NEW G, 0 \in G, \A k \in 1 .. n : k - 1 \in G => k \in G
  PROVE  \A k \in 0 .. n : k \in G
<1> DEFINE bad == {k \in 0 .. n : k \notin G}
<1> SUFFICES ASSUME bad # {}
             PROVE  FALSE
  OBVIOUS
<1>1. bad \in SUBSET Nat
  OBVIOUS
<1>2. PICK m \in bad : \A k \in bad : <<k, m>> \notin OpToRel(<, Nat)
  <2> HIDE DEF bad
  <2> QED
    BY <1>1, NatLessThanWellFounded, WFMin, Zenon
<1>3. m \in 1 .. n /\ m - 1 \in 0 .. n /\ m - 1 < m
  OBVIOUS
<1>4. m - 1 \notin bad
  <2>1. m - 1 \in Nat /\ m \in Nat
    BY <1>3
  <2> HIDE DEF bad
  <2> QED
    BY <1>2, <1>3, <2>1 DEF OpToRel
<1> QED
  BY <1>3, <1>4

\* What a fold makes of the first positions, from a step that is a function.
Runs(iter, n, base, F) ==
    \A s \in SUBSET (1 .. n) :
        iter[s] = IF s = {} THEN base ELSE F[<<iter[s \ {Max(s)}], Max(s)>>]

\* A run over some positions goes on over one more.
LEMMA RunGoesOn ==
  ASSUME NEW n \in Nat, NEW m \in 1 .. n, NEW V, NEW base \in V,
         NEW F \in [V \X (1 .. n) -> V],
         NEW iter \in [SUBSET (1 .. (m - 1)) -> V], Runs(iter, m - 1, base, F)
  PROVE  \E next \in [SUBSET (1 .. m) -> V] : Runs(next, m, base, F)
<1> DEFINE next == [s \in SUBSET (1 .. m) |->
                       IF m \in s THEN F[<<iter[s \ {m}], m>>] ELSE iter[s]]
<1>1. \A s \in SUBSET (1 .. m) : s \ {m} \in SUBSET (1 .. (m - 1))
  OBVIOUS
<1>2. \A s \in SUBSET (1 .. m) : m \notin s => s \in SUBSET (1 .. (m - 1))
  OBVIOUS
<1>3. next \in [SUBSET (1 .. m) -> V]
  <2> SUFFICES ASSUME NEW s \in SUBSET (1 .. m)
               PROVE  (IF m \in s THEN F[<<iter[s \ {m}], m>>] ELSE iter[s]) \in V
    OBVIOUS
  <2>1. CASE m \in s
    <3>1. iter[s \ {m}] \in V
      BY <1>1
    <3> QED
      BY <2>1, <3>1
  <2>2. CASE m \notin s
    BY <1>2, <2>2
  <2> QED
    BY <2>1, <2>2
<1>4. ASSUME NEW s \in SUBSET (1 .. m)
      PROVE  next[s] = IF s = {} THEN base ELSE F[<<next[s \ {Max(s)}], Max(s)>>]
  <2>1. CASE m \in s
    <3>1. Max(s) = m
      <4>1. m \in Nat /\ \A j \in s : m >= j
        BY <1>4
      <4> QED
        BY <2>1, <4>1, SelectedLast
    <3>2. next[s \ {m}] = iter[s \ {m}]
      BY <1>1
    <3> QED
      BY <2>1, <3>1, <3>2
  <2>2. CASE m \notin s
    <3>1. s \in SUBSET (1 .. (m - 1)) /\ next[s] = iter[s]
      BY <1>2, <2>2
    <3>2. iter[s] = IF s = {} THEN base ELSE F[<<iter[s \ {Max(s)}], Max(s)>>]
      BY <3>1 DEF Runs
    <3>3. m \notin s \ {Max(s)} /\ s \ {Max(s)} \in SUBSET (1 .. m)
      BY <2>2
    <3>4. next[s \ {Max(s)}] = iter[s \ {Max(s)}]
      BY <3>3
    <3> QED
      BY <3>1, <3>2, <3>4
  <2> QED
    BY <2>1, <2>2
<1> HIDE DEF next
<1> QED
  BY <1>3, <1>4 DEF Runs

\* There is a run over any number of positions.
LEMMA RunExists ==
  ASSUME NEW n \in Nat, NEW V, NEW base \in V, NEW F \in [V \X (1 .. n) -> V]
  PROVE  \E iter \in [SUBSET (1 .. n) -> V] : Runs(iter, n, base, F)
<1> DEFINE Good(m) == \E iter \in [SUBSET (1 .. m) -> V] : Runs(iter, m, base, F)
           G == {m \in 0 .. n : Good(m)}
<1>1. Good(0)
  <2> DEFINE iter == [s \in SUBSET (1 .. 0) |-> base]
  <2>1. iter \in [SUBSET (1 .. 0) -> V]
    OBVIOUS
  <2>2. \A s \in SUBSET (1 .. 0) : s = {} /\ iter[s] = base
    OBVIOUS
  <2>3. Runs(iter, 0, base, F)
    BY <2>2 DEF Runs
  <2> QED
    BY <2>1, <2>3
<1>2. ASSUME NEW m \in 1 .. n, Good(m - 1)
      PROVE  Good(m)
  <2>1. PICK iter \in [SUBSET (1 .. (m - 1)) -> V] : Runs(iter, m - 1, base, F)
    BY <1>2
  <2> QED
    BY <2>1, RunGoesOn
<1> HIDE DEF Good
<1>3. 0 \in G /\ \A m \in 1 .. n : m - 1 \in G => m \in G
  BY <1>1, <1>2
<1>4. n \in G
  <2> HIDE DEF G
  <2> QED
    BY <1>3, Climbs
<1> QED
  BY <1>4 DEF Good
-----------------------------------------------------------------------------
(* The matcher of patterns.                                                *)

\* A character of a pattern that takes one of the text, and this one.
Meets(c, x) == c # "*" /\ c \in {"?", x}

\* A cut of the first k characters of a text among the first n of a pattern.
IsCut(pattern, text, cut, n, k) ==
    /\ cut \in [0 .. n -> 0 .. k]
    /\ cut[0] = 0 /\ cut[n] = k
    /\ \A i \in 1 .. n :
           IF pattern[i] = "*" THEN cut[i] >= cut[i - 1]
           ELSE cut[i] = cut[i - 1] + 1 /\ pattern[i] \in {"?", text[cut[i]]}

Cuts(pattern, text, n, k) == \E cut : IsCut(pattern, text, cut, n, k)

\* To fit is to be cut up to both ends.
LEMMA FitsIsCut ==
  ASSUME NEW pattern, NEW text
  PROVE  Fits(pattern, text) <=> Cuts(pattern, text, Len(pattern), Len(text))
  BY DEF Fits, Cuts, IsCut

\* The characters behind position a of a pattern meet those behind b of a text.
MeetFrom(pattern, text, a, b, n) ==
    \A k \in 1 .. n : Meets(pattern[a + k], text[b + k])

\* Whether the n characters behind position a of a pattern are stars, or none is.
AllStars(pattern, a, n) == \A i \in a + 1 .. a + n : pattern[i] = "*"
NoStars(pattern, a, n) == \A i \in a + 1 .. a + n : pattern[i] # "*"

\* A cut goes on over characters that are met.
LEMMA CutGoesOn ==
  ASSUME NEW pattern, NEW text, NEW a \in Nat, NEW b \in Nat, NEW n \in Nat,
         Cuts(pattern, text, a, b), MeetFrom(pattern, text, a, b, n)
  PROVE  Cuts(pattern, text, a + n, b + n)
<1>1. PICK cut : IsCut(pattern, text, cut, a, b)
  BY DEF Cuts
<1> DEFINE more == [i \in 0 .. a + n |-> IF i <= a THEN cut[i] ELSE b + (i - a)]
<1>2. more \in [0 .. a + n -> 0 .. b + n]
  BY <1>1 DEF IsCut
<1>3. more[0] = 0 /\ more[a + n] = b + n
  BY <1>1 DEF IsCut
<1>4. ASSUME NEW i \in 1 .. a + n
      PROVE  IF pattern[i] = "*" THEN more[i] >= more[i - 1]
             ELSE more[i] = more[i - 1] + 1 /\ pattern[i] \in {"?", text[more[i]]}
  <2>1. CASE i <= a
    <3>1. more[i] = cut[i] /\ more[i - 1] = cut[i - 1] /\ i \in 1 .. a
      BY <2>1
    <3> HIDE DEF more
    <3> QED
      BY <1>1, <3>1 DEF IsCut
  <2>2. CASE i > a
    <3> DEFINE k == i - a
    <3>1. k \in 1 .. n /\ a + k = i
      BY <2>2
    <3>2. more[i] = b + k /\ more[i - 1] = b + k - 1
      BY <1>1, <2>2 DEF IsCut
    <3> HIDE DEF more, k
    <3>3. Meets(pattern[i], text[b + k])
      BY <3>1 DEF MeetFrom
    <3> QED
      BY <3>1, <3>2, <3>3 DEF Meets
  <2> QED
    BY <2>1, <2>2
<1> HIDE DEF more
<1> QED
  BY <1>2, <1>3, <1>4 DEF Cuts, IsCut

\* And over stars, of which the last may take as much as there is.
LEMMA CutOverStars ==
  ASSUME NEW pattern, NEW text, NEW a \in Nat, NEW b \in Nat, NEW n \in Nat \ {0},
         NEW c \in Nat, b <= c,
         Cuts(pattern, text, a, b), AllStars(pattern, a, n)
  PROVE  Cuts(pattern, text, a + n, c)
<1>1. PICK cut : IsCut(pattern, text, cut, a, b)
  BY DEF Cuts
<1> DEFINE more == [i \in 0 .. a + n |-> IF i <= a THEN cut[i] ELSE c]
<1>2. more \in [0 .. a + n -> 0 .. c]
  BY <1>1 DEF IsCut
<1>3. more[0] = 0 /\ more[a + n] = c
  BY <1>1 DEF IsCut
<1>4. ASSUME NEW i \in 1 .. a + n
      PROVE  IF pattern[i] = "*" THEN more[i] >= more[i - 1]
             ELSE more[i] = more[i - 1] + 1 /\ pattern[i] \in {"?", text[more[i]]}
  <2>1. CASE i <= a
    <3>1. more[i] = cut[i] /\ more[i - 1] = cut[i - 1] /\ i \in 1 .. a
      BY <2>1
    <3> HIDE DEF more
    <3> QED
      BY <1>1, <3>1 DEF IsCut
  <2>2. CASE i > a
    <3>1. more[i] = c /\ more[i - 1] \in 0 .. c
      BY <1>2, <2>2
    <3>2. pattern[i] = "*"
      BY <2>2 DEF AllStars
    <3> HIDE DEF more
    <3> QED
      BY <3>1, <3>2
  <2> QED
    BY <2>1, <2>2
<1> HIDE DEF more
<1> QED
  BY <1>2, <1>3, <1>4 DEF Cuts, IsCut

\* Between two stars a cut goes on by one character at a time.
LEMMA CutIsForced ==
  ASSUME NEW pattern, NEW text, NEW last \in Nat, NEW end \in Nat, NEW cut,
         IsCut(pattern, text, cut, last, end),
         NEW a \in Nat, NEW n \in Nat, a + n <= last, NoStars(pattern, a, n)
  PROVE  \A k \in 0 .. n : cut[a + k] = cut[a] + k
<1> DEFINE G == {k \in 0 .. n : cut[a + k] = cut[a] + k}
<1>1. \A i \in 0 .. last : cut[i] \in Nat
  BY DEF IsCut
<1>2. 0 \in G
  BY <1>1
<1>3. ASSUME NEW k \in 1 .. n, k - 1 \in G
      PROVE  k \in G
  <2>1. a + k \in 1 .. last /\ a + k \in a + 1 .. a + n /\ (a + k) - 1 = a + (k - 1)
    OBVIOUS
  <2>2. cut[a + k] = cut[(a + k) - 1] + 1
    BY <2>1 DEF IsCut, NoStars
  <2>3. cut[a + (k - 1)] = cut[a] + (k - 1) /\ cut[a] \in Nat
    BY <1>1, <1>3
  <2> QED
    BY <2>1, <2>2, <2>3
<1>4. \A k \in 0 .. n : k \in G
  <2> HIDE DEF G
  <2> QED
    BY <1>2, <1>3, Climbs
<1> QED
  BY <1>4

\* A cut never goes back.
LEMMA CutGrows ==
  ASSUME NEW pattern, NEW text, NEW last \in Nat, NEW end \in Nat, NEW cut,
         IsCut(pattern, text, cut, last, end),
         NEW a \in Nat, NEW b \in Nat, a <= b, b <= last
  PROVE  cut[a] \in Nat /\ cut[b] \in Nat /\ cut[a] <= cut[b]
<1> DEFINE n == b - a
           G == {k \in 0 .. n : cut[a] <= cut[a + k]}
<1>1. \A i \in 0 .. last : cut[i] \in Nat
  BY DEF IsCut
<1>2. 0 \in G /\ n \in Nat
  BY <1>1
<1>3. ASSUME NEW k \in 1 .. n, k - 1 \in G
      PROVE  k \in G
  <2>1. a + k \in 1 .. last /\ (a + k) - 1 = a + (k - 1)
    OBVIOUS
  <2>2. cut[a + k] >= cut[(a + k) - 1]
    <3>1. cut[a + k] \in Nat /\ cut[(a + k) - 1] \in Nat
      BY <1>1, <2>1
    <3> QED
      BY <2>1, <3>1 DEF IsCut
  <2>3. cut[a] <= cut[a + (k - 1)] /\ cut[a] \in Nat /\ cut[a + (k - 1)] \in Nat
        /\ cut[a + k] \in Nat
    BY <1>1, <1>3, <2>1
  <2> QED
    BY <2>1, <2>2, <2>3
<1>4. \A k \in 0 .. n : k \in G
  <2> HIDE DEF G, n
  <2> QED
    BY <1>2, <1>3, Climbs
<1>5. n \in 0 .. n /\ a + n = b
  BY <1>2
<1> QED
  BY <1>1, <1>4, <1>5

\* Where a walk stands.  What lies before the last star was cut so that the star
\* ends before `resume`, what lies behind it was met from there on, and a text that
\* fits has a cut in which the star ends no earlier.
Leaves(pattern, text, star, c) ==
    \E cut : IsCut(pattern, text, cut, Len(pattern), Len(text)) /\ cut[star] >= c

Standing(pattern, text, p, t, star, resume) ==
    /\ p \in 1 .. Len(pattern) + 1 /\ t \in 1 .. Len(text) + 1
    /\ star \in 0 .. p - 1 /\ resume \in 1 .. t
    /\ t - resume = p - star - 1
    /\ star = 0 => resume = 1
    /\ star # 0 => pattern[star] = "*"
    /\ Cuts(pattern, text, star, resume - 1)
    /\ MeetFrom(pattern, text, star, resume - 1, p - star - 1)
    /\ Fits(pattern, text) => Leaves(pattern, text, star, resume - 1)

\* Nothing is cut among nothing.
LEMMA NothingIsCut ==
  ASSUME NEW pattern, NEW text
  PROVE  Cuts(pattern, text, 0, 0)
<1> DEFINE cut == [i \in 0 .. 0 |-> 0]
<1>1. cut \in [0 .. 0 -> 0 .. 0] /\ cut[0] = 0 /\ 1 .. 0 = {}
  OBVIOUS
<1> HIDE DEF cut
<1> QED
  BY <1>1 DEF Cuts, IsCut

\* A walk begins before both, with nothing cut.
LEMMA StandsAtFirst ==
  ASSUME NEW pattern, NEW text, Len(pattern) \in Nat, Len(text) \in Nat
  PROVE  Standing(pattern, text, 1, 1, 0, 1)
<1>1. Cuts(pattern, text, 0, 0)
  BY NothingIsCut
<1>2. MeetFrom(pattern, text, 0, 0, 0)
  BY DEF MeetFrom
<1>3. Fits(pattern, text) => Leaves(pattern, text, 0, 0)
  BY FitsIsCut DEF Cuts, Leaves, IsCut
<1>4. 1 - 1 = 0 /\ (1 - 0) - 1 = 0
  OBVIOUS
<1> QED
  BY <1>1, <1>2, <1>3, <1>4 DEF Standing

\* What was met is a cut up to where the walk stands.
LEMMA StandingIsCut ==
  ASSUME NEW pattern, NEW text, Len(pattern) \in Nat, Len(text) \in Nat,
         NEW p, NEW t, NEW star, NEW resume, Standing(pattern, text, p, t, star, resume)
  PROVE  /\ Cuts(pattern, text, p - 1, t - 1)
         /\ p - 1 \in Nat /\ t - 1 \in Nat
<1> DEFINE b == resume - 1
           n == p - star - 1
<1>1. /\ star \in Nat /\ b \in Nat /\ n \in Nat
      /\ star + n = p - 1 /\ b + n = t - 1
      /\ p - 1 \in Nat /\ t - 1 \in Nat
  BY DEF Standing
<1>2. Cuts(pattern, text, star, b) /\ MeetFrom(pattern, text, star, b, n)
  BY DEF Standing
<1> HIDE DEF b, n
<1>3. Cuts(pattern, text, star + n, b + n)
  BY <1>1, <1>2, CutGoesOn
<1> QED
  BY <1>1, <1>3

\* In a cut of the whole, the pieces behind the last star follow one another.
LEMMA LeftAtTheStar ==
  ASSUME NEW pattern, NEW text, Len(pattern) \in Nat, Len(text) \in Nat,
         NEW p, NEW t, NEW star, NEW resume, Standing(pattern, text, p, t, star, resume),
         NEW cut, IsCut(pattern, text, cut, Len(pattern), Len(text))
  PROVE  /\ cut[star] \in Nat /\ cut[p - 1] = cut[star] + (t - resume)
         /\ \A i \in 0 .. Len(pattern) : cut[i] \in 0 .. Len(text)
<1> DEFINE n == p - star - 1
           len == Len(pattern)
           end == Len(text)
<1>1. /\ star \in Nat /\ n \in Nat /\ star + n = p - 1 /\ t - resume = n
      /\ star + n <= len /\ star \in 0 .. len /\ len \in Nat /\ end \in Nat
  BY DEF Standing
<1>2. MeetFrom(pattern, text, star, resume - 1, n)
  BY DEF Standing
<1>3. IsCut(pattern, text, cut, len, end)
  OBVIOUS
<1> HIDE DEF n, len, end
<1>4. NoStars(pattern, star, n)
  <2> SUFFICES ASSUME NEW i \in star + 1 .. star + n PROVE pattern[i] # "*"
    BY DEF NoStars
  <2> DEFINE k == i - star
  <2>1. k \in 1 .. n /\ star + k = i
    BY <1>1
  <2> HIDE DEF k
  <2> QED
    BY <1>2, <2>1 DEF MeetFrom, Meets
<1>8. star \in Nat /\ n \in Nat /\ len \in Nat /\ end \in Nat /\ star + n <= len
  BY <1>1
<1>5. \A k \in 0 .. n : cut[star + k] = cut[star] + k
  BY ONLY <1>3, <1>4, <1>8, CutIsForced
<1>6. cut[star + n] = cut[star] + n
  BY <1>1, <1>5
<1>7. \A i \in 0 .. len : cut[i] \in 0 .. end
  BY <1>3 DEF IsCut
<1> QED
  BY <1>1, <1>6, <1>7 DEF len, end

\* At a star the walk stands anew.
LEMMA StarStands ==
  ASSUME NEW pattern, NEW text, Len(pattern) \in Nat, Len(text) \in Nat,
         NEW p, NEW t, NEW star, NEW resume, Standing(pattern, text, p, t, star, resume),
         p <= Len(pattern), pattern[p] = "*"
  PROVE  Standing(pattern, text, p + 1, t, p, t)
<1>1. /\ p \in 1 .. Len(pattern) /\ t \in 1 .. Len(text) + 1 /\ p \in Nat /\ t \in Nat
      /\ star \in Nat /\ resume \in Nat
  BY DEF Standing
<1>2. Cuts(pattern, text, p, t - 1)
  <2> DEFINE a == p - 1
             b == t - 1
  <2>1. Cuts(pattern, text, a, b) /\ a \in Nat /\ b \in Nat /\ a + 1 = p
    BY <1>1, StandingIsCut
  <2> HIDE DEF a, b
  <2>2. AllStars(pattern, a, 1)
    BY <2>1 DEF AllStars
  <2>3. Cuts(pattern, text, a + 1, b)
    BY <2>1, <2>2, CutOverStars
  <2> QED
    BY <2>1, <2>3 DEF b
<1>3. MeetFrom(pattern, text, p, t - 1, 0)
  BY DEF MeetFrom
<1>4. Fits(pattern, text) => Leaves(pattern, text, p, t - 1)
  <2> SUFFICES ASSUME Fits(pattern, text) PROVE Leaves(pattern, text, p, t - 1)
    OBVIOUS
  <2>1. PICK cut : /\ IsCut(pattern, text, cut, Len(pattern), Len(text))
                   /\ cut[star] >= resume - 1
    BY DEF Standing, Leaves
  <2>2. /\ cut[star] \in Nat /\ cut[p - 1] = cut[star] + (t - resume)
        /\ cut[p] \in Nat
    BY <1>1, <2>1, LeftAtTheStar
  <2>3. cut[p] >= cut[p - 1]
    BY <1>1, <2>1 DEF IsCut
  <2>4. cut[p] >= t - 1
    BY <1>1, <2>1, <2>2, <2>3
  <2> QED
    BY <2>1, <2>4 DEF Leaves
<1>5. ((p + 1) - p) - 1 = 0 /\ t - t = 0
  BY <1>1
<1> QED
  BY <1>1, <1>2, <1>3, <1>4, <1>5 DEF Standing

\* A character that is met moves it on.
LEMMA NextStands ==
  ASSUME NEW pattern, NEW text, Len(pattern) \in Nat, Len(text) \in Nat,
         NEW p, NEW t, NEW star, NEW resume, Standing(pattern, text, p, t, star, resume),
         p <= Len(pattern), t <= Len(text), Meets(pattern[p], text[t])
  PROVE  Standing(pattern, text, p + 1, t + 1, star, resume)
<1> DEFINE n == p - star - 1
           b == resume - 1
<1>1. /\ n \in Nat /\ b \in Nat /\ star \in Nat /\ ((p + 1) - star) - 1 = n + 1
      /\ star + (n + 1) = p /\ b + (n + 1) = t
  BY DEF Standing
<1>2. MeetFrom(pattern, text, star, b, n)
  BY DEF Standing
<1> HIDE DEF n, b
<1>3. \A k \in 1 .. n + 1 : k \in 1 .. n \/ k = n + 1
  BY <1>1
<1>4. MeetFrom(pattern, text, star, b, n + 1)
  BY <1>1, <1>2, <1>3 DEF MeetFrom
<1>5. MeetFrom(pattern, text, star, resume - 1, ((p + 1) - star) - 1)
  BY <1>1, <1>4 DEF b
<1>6. /\ p + 1 \in 1 .. Len(pattern) + 1 /\ t + 1 \in 1 .. Len(text) + 1
      /\ star \in 0 .. (p + 1) - 1 /\ resume \in 1 .. t + 1
      /\ (t + 1) - resume = ((p + 1) - star) - 1
  BY DEF Standing
<1> QED
  BY <1>5, <1>6 DEF Standing

\* The place is stuck if the pattern has nothing there that takes the character.
Stuck(pattern, text, p, t) ==
    /\ t <= Len(text)
    /\ p <= Len(pattern) => pattern[p] # "*" /\ ~Meets(pattern[p], text[t])

\* No cut of the whole passes a place that is stuck.
LEMMA NoCutPasses ==
  ASSUME NEW pattern, NEW text, Len(pattern) \in Nat, Len(text) \in Nat,
         NEW p \in 1 .. Len(pattern) + 1, NEW t \in 1 .. Len(text) + 1, Stuck(pattern, text, p, t),
         NEW cut, IsCut(pattern, text, cut, Len(pattern), Len(text))
  PROVE  cut[p - 1] # t - 1
<1> SUFFICES ASSUME cut[p - 1] = t - 1 PROVE FALSE
  OBVIOUS
<1>1. CASE p <= Len(pattern)
  <2>1. p \in 1 .. Len(pattern) /\ pattern[p] # "*"
    BY <1>1 DEF Stuck
  <2>2. cut[p] = cut[p - 1] + 1 /\ pattern[p] \in {"?", text[cut[p]]}
    BY <2>1 DEF IsCut
  <2>3. cut[p] = t
    BY <2>2
  <2> QED
    BY <1>1, <2>1, <2>2, <2>3 DEF Stuck, Meets
<1>2. CASE p = Len(pattern) + 1
  <2>1. p - 1 = Len(pattern)
    BY <1>2
  <2>2. t - 1 = Len(text)
    BY <2>1 DEF IsCut
  <2> QED
    BY <2>2 DEF Stuck
<1> QED
  BY <1>1, <1>2

\* From a place that is stuck the star takes one more.
LEMMA MoreStands ==
  ASSUME NEW pattern, NEW text, Len(pattern) \in Nat, Len(text) \in Nat,
         NEW p, NEW t, NEW star, NEW resume, Standing(pattern, text, p, t, star, resume),
         Stuck(pattern, text, p, t), star # 0
  PROVE  Standing(pattern, text, star + 1, resume + 1, star, resume + 1)
<1>1. /\ star \in 1 .. Len(pattern) /\ star \in Nat /\ resume \in 1 .. Len(text)
      /\ resume \in Nat /\ pattern[star] = "*"
      /\ p \in 1 .. Len(pattern) + 1 /\ t \in 1 .. Len(text) + 1
  BY DEF Standing, Stuck
<1>2. Cuts(pattern, text, star, resume)
  <2> DEFINE b == resume - 1
  <2>1. PICK cut : IsCut(pattern, text, cut, star, b)
    BY DEF Standing, Cuts
  <2> DEFINE more == [cut EXCEPT ![star] = resume]
  <2>2. cut \in [0 .. star -> 0 .. b] /\ b \in Nat /\ b + 1 = resume
    BY <1>1, <2>1 DEF IsCut
  <2> HIDE DEF b
  <2>3. more \in [0 .. star -> 0 .. resume] /\ more[star] = resume /\ more[0] = 0
        /\ \A i \in 0 .. star - 1 : more[i] = cut[i] /\ more[i] \in 0 .. b
    BY <1>1, <2>1, <2>2 DEF IsCut
  <2> HIDE DEF more
  <2>4. ASSUME NEW i \in 1 .. star
        PROVE  IF pattern[i] = "*" THEN more[i] >= more[i - 1]
               ELSE more[i] = more[i - 1] + 1 /\ pattern[i] \in {"?", text[more[i]]}
    <3>1. CASE i = star
      <4>1. more[i - 1] \in 0 .. b
        BY <1>1, <2>3, <3>1
      <4> QED
        BY <1>1, <2>2, <2>3, <3>1, <4>1
    <3>2. CASE i # star
      <4>1. more[i] = cut[i] /\ more[i - 1] = cut[i - 1]
        BY <1>1, <2>3, <3>2
      <4> QED
        BY <2>1, <4>1 DEF IsCut
    <3> QED
      BY <3>1, <3>2
  <2> QED
    BY <2>3, <2>4 DEF Cuts, IsCut
<1>3. MeetFrom(pattern, text, star, resume, 0)
  BY DEF MeetFrom
<1>4. Fits(pattern, text) => Leaves(pattern, text, star, resume)
  <2> SUFFICES ASSUME Fits(pattern, text) PROVE Leaves(pattern, text, star, resume)
    OBVIOUS
  <2>1. PICK cut : /\ IsCut(pattern, text, cut, Len(pattern), Len(text))
                   /\ cut[star] >= resume - 1
    BY DEF Standing, Leaves
  <2>2. cut[star] \in Nat /\ cut[p - 1] = cut[star] + (t - resume)
    BY <2>1, LeftAtTheStar
  <2>3. cut[p - 1] # t - 1
    BY <1>1, <2>1, NoCutPasses
  <2>4. cut[star] >= resume
    BY <1>1, <2>1, <2>2, <2>3
  <2> QED
    BY <2>1, <2>4 DEF Leaves
<1>5. (resume + 1) - 1 = resume /\ ((star + 1) - star) - 1 = 0
  BY <1>1
<1> QED
  BY <1>1, <1>2, <1>3, <1>4, <1>5 DEF Standing

\* With no star before it, it is the end.
LEMMA NothingFits ==
  ASSUME NEW pattern, NEW text, Len(pattern) \in Nat, Len(text) \in Nat,
         NEW p, NEW t, NEW star, NEW resume, Standing(pattern, text, p, t, star, resume),
         Stuck(pattern, text, p, t), star = 0
  PROVE  ~Fits(pattern, text)
<1> SUFFICES ASSUME Fits(pattern, text) PROVE FALSE
  OBVIOUS
<1>1. p \in 1 .. Len(pattern) + 1 /\ t \in 1 .. Len(text) + 1 /\ resume = 1
  BY DEF Standing
<1>2. PICK cut : IsCut(pattern, text, cut, Len(pattern), Len(text))
  BY DEF Standing, Leaves
<1>3. cut[star] \in Nat /\ cut[p - 1] = cut[star] + (t - resume)
  BY <1>2, LeftAtTheStar
<1>4. cut[star] = 0
  BY <1>2 DEF IsCut
<1>5. cut[p - 1] # t - 1
  BY <1>1, <1>2, NoCutPasses
<1> QED
  BY <1>1, <1>3, <1>4, <1>5

\* At the end of the text, what is left of the pattern decides.
LEMMA TheEndDecides ==
  ASSUME NEW pattern, NEW text, Len(pattern) \in Nat, Len(text) \in Nat,
         NEW p, NEW t, NEW star, NEW resume, Standing(pattern, text, p, t, star, resume),
         ~(t <= Len(text))
  PROVE  Fits(pattern, text) <=> \A i \in p .. Len(pattern) : pattern[i] = "*"
<1> DEFINE len == Len(pattern)
           end == Len(text)
           a == p - 1
<1>1. /\ len \in Nat /\ end \in Nat /\ a \in Nat /\ a <= len /\ a + 1 = p
      /\ t - 1 = end /\ star \in Nat /\ resume \in Nat /\ t \in Nat
  BY DEF Standing
<1>2. Cuts(pattern, text, a, end)
  BY <1>1, StandingIsCut
<1>3. ASSUME \A i \in p .. len : pattern[i] = "*"
      PROVE  Cuts(pattern, text, len, end)
  <2>1. CASE a = len
    BY <1>2, <2>1
  <2>2. CASE a # len
    <3> DEFINE n == len - a
    <3>1. n \in Nat \ {0} /\ a + n = len
      BY <1>1, <2>2
    <3> HIDE DEF n, a, len, end
    <3>2. AllStars(pattern, a, n)
      BY <1>1, <1>3, <3>1 DEF AllStars
    <3>4. a \in Nat /\ end \in Nat /\ end <= end
      BY <1>1
    <3>3. Cuts(pattern, text, a + n, end)
      BY <1>2, <3>1, <3>2, <3>4, CutOverStars
    <3> QED
      BY <3>1, <3>3
  <2> QED
    BY <2>1, <2>2
<1>4. ASSUME Fits(pattern, text), NEW i \in p .. len, pattern[i] # "*"
      PROVE  FALSE
  <2>1. PICK cut : IsCut(pattern, text, cut, len, end) /\ cut[star] >= resume - 1
    BY <1>4 DEF Standing, Leaves
  <2>2. /\ cut[star] \in Nat /\ cut[a] = cut[star] + (t - resume)
        /\ \A j \in 0 .. len : cut[j] \in 0 .. end
    BY <2>1, LeftAtTheStar
  <2> HIDE DEF len, end, a
  <2>3. cut[a] >= end
    BY <1>1, <2>1, <2>2
  <2>4. i - 1 \in Nat /\ a <= i - 1 /\ i - 1 <= len /\ i \in 1 .. len
    BY <1>1
  <2>5. cut[a] <= cut[i - 1] /\ cut[i - 1] \in Nat
    BY <1>1, <2>1, <2>4, CutGrows
  <2>6. cut[i] = cut[i - 1] + 1
    BY <1>4, <2>1, <2>4 DEF IsCut
  <2>7. cut[i] \in 0 .. end
    BY <2>2, <2>4
  <2> QED
    BY <1>1, <2>2, <2>3, <2>5, <2>6, <2>7
<1> QED
  BY <1>3, <1>4, FitsIsCut

\* A walk, and one that is on its way from the ends of this pattern and this text.
Walk(pattern, text, p, t, star, resume, budget, out) ==
    [pattern |-> pattern, text |-> text, p |-> p, t |-> t, star |-> star,
     resume |-> resume, budget |-> budget, out |-> out]

OnItsWay(m, pattern, text) ==
    \E p, t, star, resume, budget :
        /\ budget \in Nat
        /\ m = Walk(pattern, text, p, t, star, resume, budget, "none")
        /\ Standing(pattern, text, p, t, star, resume)

\* What a walk tells when it is over.
WalkTells(m, pattern, text) ==
    /\ m.out = "yes" => Fits(pattern, text)
    /\ m.out = "no" => ~Fits(pattern, text)
    /\ m.out = "gives_up" => m.budget = 0

\* A walk begins on its way.
LEMMA WalkBegins ==
  ASSUME NEW pattern, NEW text, Len(pattern) \in Nat, Len(text) \in Nat
  PROVE  OnItsWay(MatchBegins(pattern, text), pattern, text)
<1>1. MatchBegins(pattern, text) = Walk(pattern, text, 1, 1, 0, 1, MaxMatchSteps, "none")
  BY DEF MatchBegins, Walk
<1>2. MaxMatchSteps \in Nat
  BY BoundsAssumption
<1> QED
  BY <1>1, <1>2, StandsAtFirst DEF OnItsWay

\* A turn leaves the walk on its way, or tells what is true.
LEMMA TurnIsTrue ==
  ASSUME NEW pattern, NEW text, Len(pattern) \in Nat, Len(text) \in Nat,
         NEW m, OnItsWay(m, pattern, text)
  PROVE  /\ MatchTurn(m).out = "none" => OnItsWay(MatchTurn(m), pattern, text)
         /\ WalkTells(MatchTurn(m), pattern, text)
<1> DEFINE next == MatchTurn(m)
<1>1. PICK p, t, star, resume, budget :
         /\ budget \in Nat
         /\ m = Walk(pattern, text, p, t, star, resume, budget, "none")
         /\ Standing(pattern, text, p, t, star, resume)
  BY DEF OnItsWay
<1>2. /\ m.pattern = pattern /\ m.text = text /\ m.p = p /\ m.t = t /\ m.star = star
      /\ m.resume = resume /\ m.budget = budget
  BY <1>1 DEF Walk
<1> DEFINE going == t <= Len(text)
           there == p <= Len(pattern)
           starred == there /\ pattern[p] = "*"
           fits == there /\ ~starred /\ pattern[p] \in {"?", text[t]}
<1>3. budget \in Nat
  BY <1>1
<1>4. CASE ~going
  <2>1. next = Walk(pattern, text, p, t, star, resume, budget,
                    IF \A i \in p .. Len(pattern) : pattern[i] = "*" THEN "yes" ELSE "no")
    BY <1>1, <1>2, <1>4 DEF MatchTurn, Walk
  <2>2. next.out = IF \A i \in p .. Len(pattern) : pattern[i] = "*" THEN "yes" ELSE "no"
    BY <2>1 DEF Walk
  <2>3. Fits(pattern, text) <=> \A i \in p .. Len(pattern) : pattern[i] = "*"
    BY <1>1, <1>4, TheEndDecides
  <2> QED
    BY <2>2, <2>3 DEF WalkTells
<1>5. CASE going /\ budget = 0
  <2>1. next = Walk(pattern, text, p, t, star, resume, budget, "gives_up")
    BY <1>1, <1>2, <1>5 DEF MatchTurn, Walk
  <2>2. next.out = "gives_up" /\ next.budget = 0
    BY <1>5, <2>1 DEF Walk
  <2> QED
    BY <2>2 DEF WalkTells
<1>6. CASE going /\ budget # 0 /\ starred
  <2>1. budget - 1 \in Nat
    BY <1>3, <1>6
  <2>5. next = [m EXCEPT !.budget = @ - 1, !.star = m.p, !.resume = m.t, !.p = @ + 1]
    BY <1>2, <1>3, <1>6 DEF MatchTurn
  <2>2. next = Walk(pattern, text, p + 1, t, p, t, budget - 1, "none")
    BY <1>1, <1>2, <2>5 DEF Walk
  <2>3. Standing(pattern, text, p + 1, t, p, t)
    BY <1>1, <1>6, StarStands
  <2>4. next.out = "none"
    BY <2>2 DEF Walk
  <2> QED
    BY <2>1, <2>2, <2>3, <2>4 DEF WalkTells, OnItsWay
<1>7. CASE going /\ budget # 0 /\ ~starred /\ fits
  <2>1. budget - 1 \in Nat
    BY <1>3, <1>7
  <2>5. next = [m EXCEPT !.budget = @ - 1, !.p = @ + 1, !.t = @ + 1]
    BY <1>2, <1>3, <1>7 DEF MatchTurn
  <2>2. next = Walk(pattern, text, p + 1, t + 1, star, resume, budget - 1, "none")
    BY <1>1, <1>2, <2>5 DEF Walk
  <2>3. Standing(pattern, text, p + 1, t + 1, star, resume)
    BY <1>1, <1>7, NextStands DEF Meets
  <2>4. next.out = "none"
    BY <2>2 DEF Walk
  <2> QED
    BY <2>1, <2>2, <2>3, <2>4 DEF WalkTells, OnItsWay
<1>8. CASE going /\ budget # 0 /\ ~starred /\ ~fits
  <2>1. Stuck(pattern, text, p, t)
    BY <1>8 DEF Stuck, Meets
  <2>2. CASE star = 0
    <3>4. next = [m EXCEPT !.budget = @ - 1, !.out = "no"]
      BY <1>2, <1>3, <1>8, <2>2 DEF MatchTurn
    <3>1. next = Walk(pattern, text, p, t, star, resume, budget - 1, "no")
      BY <1>1, <1>2, <3>4 DEF Walk
    <3>2. next.out = "no"
      BY <3>1 DEF Walk
    <3>3. ~Fits(pattern, text)
      BY <1>1, <2>1, <2>2, NothingFits
    <3> QED
      BY <3>2, <3>3 DEF WalkTells
  <2>3. CASE star # 0
    <3>1. budget - 1 \in Nat
      BY <1>3, <1>8
    <3>5. next = TakeMore(m)
      BY <1>2, <1>3, <1>8, <2>3 DEF MatchTurn
    <3>2. next = Walk(pattern, text, star + 1, resume + 1, star, resume + 1, budget - 1,
                      "none")
      BY <1>1, <1>2, <3>5 DEF TakeMore, Walk
    <3>3. Standing(pattern, text, star + 1, resume + 1, star, resume + 1)
      BY <1>1, <2>1, <2>3, MoreStands
    <3>4. next.out = "none"
      BY <3>2 DEF Walk
    <3> QED
      BY <3>1, <3>2, <3>3, <3>4 DEF WalkTells, OnItsWay
  <2> QED
    BY <2>2, <2>3
<1> QED
  BY <1>4, <1>5, <1>6, <1>7, <1>8
-----------------------------------------------------------------------------
(* The matcher of patterns without a question mark.                        *)

Agree(pattern, a, text, b, n) == \A k \in 1 .. n : text[b + k] = pattern[a + k]

\* Parts of two sequences are the same if they agree at each place.
LEMMA PartsAgree ==
  ASSUME NEW P, NEW pattern \in Seq(P), NEW Q, NEW text \in Seq(Q),
         NEW a \in Nat, NEW b \in Nat, NEW n \in Nat, a + n <= Len(pattern), b + n <= Len(text)
  PROVE  /\ Len(SubSeq(pattern, a + 1, a + n)) = n
         /\ SubSeq(text, b + 1, b + n) = SubSeq(pattern, a + 1, a + n)
              <=> Agree(pattern, a, text, b, n)
<1> DEFINE s == SubSeq(pattern, a + 1, a + n)
           u == SubSeq(text, b + 1, b + n)
<1>1. /\ s \in Seq(P) /\ Len(s) = n
      /\ \A k \in 1 .. n : s[k] = pattern[a + k]
  <2>1. \A i \in a + 1 .. a + n : i \in 1 .. Len(pattern)
    OBVIOUS
  <2>2. s \in Seq(P)
    BY <2>1, SubSeqProperties
  <2>3. Len(s) = n
    BY <2>1, SubSeqProperties
  <2>4. \A k \in 1 .. n : s[k] = pattern[a + k]
    BY <2>1
  <2> QED
    BY <2>2, <2>3, <2>4
<1>2. /\ u \in Seq(Q) /\ Len(u) = n
      /\ \A k \in 1 .. n : u[k] = text[b + k]
  <2>1. \A i \in b + 1 .. b + n : i \in 1 .. Len(text)
    OBVIOUS
  <2>2. u \in Seq(Q)
    BY <2>1, SubSeqProperties
  <2>3. Len(u) = n
    BY <2>1, SubSeqProperties
  <2>4. \A k \in 1 .. n : u[k] = text[b + k]
    BY <2>1
  <2> QED
    BY <2>2, <2>3, <2>4
<1> HIDE DEF s, u
<1>3. s = [k \in 1 .. n |-> s[k]] /\ u = [k \in 1 .. n |-> u[k]]
  BY <1>1, <1>2
<1>4. u = s <=> \A k \in 1 .. n : u[k] = s[k]
  BY <1>3
<1> QED
  BY <1>1, <1>2, <1>4 DEF s, u, Agree

\* A text begins with the first characters of a pattern that it agrees with.
LEMMA PrefixesAgree ==
  ASSUME NEW P, NEW pattern \in Seq(P), NEW Q, NEW text \in Seq(Q),
         NEW n \in Nat, n <= Len(pattern)
  PROVE  /\ Len(SubSeq(pattern, 1, n)) = n
         /\ IsPrefix(SubSeq(pattern, 1, n), text)
              <=> n <= Len(text) /\ \A k \in 1 .. n : text[k] = pattern[k]
<1> DEFINE first == SubSeq(pattern, 1, n)
<1>1. /\ first \in Seq(P) /\ Len(first) = n /\ \A k \in 1 .. n : first[k] = pattern[k]
  OBVIOUS
<1> HIDE DEF first
<1>2. SubSeq(first, 1, n) = first
  BY <1>1
<1>3. ASSUME n <= Len(text)
      PROVE  SubSeq(text, 1, n) = first <=> \A k \in 1 .. n : text[k] = pattern[k]
  <2>1. SubSeq(text, 0 + 1, 0 + n) = SubSeq(pattern, 0 + 1, 0 + n)
          <=> Agree(pattern, 0, text, 0, n)
    BY <1>3, PartsAgree
  <2> QED
    BY <2>1 DEF first, Agree
<1> QED
  BY <1>1, <1>2, <1>3 DEF IsPrefix, first

\* It ends with the last ones, if there is room, when it agrees with them there.
LEMMA SuffixesAgree ==
  ASSUME NEW P, NEW pattern \in Seq(P), NEW Q, NEW text \in Seq(Q),
         NEW a \in Nat, a <= Len(pattern)
  PROVE  LET n == Len(pattern) - a IN
         /\ Len(From(pattern, a + 1)) = n
         /\ n <= Len(text) =>
              (IsSuffix(From(pattern, a + 1), text)
                 <=> \A k \in 1 .. n : text[Len(text) - n + k] = pattern[a + k])
<1> DEFINE n == Len(pattern) - a
           last == From(pattern, a + 1)
           len == Len(text)
<1>1. /\ n \in Nat /\ len \in Nat /\ last \in Seq(P) /\ Len(last) = n
      /\ \A k \in 1 .. n : last[k] = pattern[a + k]
  BY DEF From
<1> DEFINE rl == Reverse(last)
           rt == Reverse(text)
<1>2. /\ rl \in Seq(P) /\ Len(rl) = n /\ \A k \in 1 .. n : rl[k] = last[n - k + 1]
  BY <1>1 DEF Reverse
<1>3. /\ rt \in Seq(Q) /\ Len(rt) = len /\ \A k \in 1 .. len : rt[k] = text[len - k + 1]
  BY <1>1 DEF Reverse
<1> HIDE DEF last, rl, rt, n, len
<1>4. SubSeq(rl, 1, n) = rl
  BY <1>1, <1>2
<1>5. ASSUME n <= len
      PROVE  IsPrefix(rl, rt) <=> \A k \in 1 .. n : rt[k] = rl[k]
  <2>1. IsPrefix(SubSeq(rl, 1, n), rt) <=> n <= Len(rt) /\ \A k \in 1 .. n : rt[k] = rl[k]
    <3>1. n \in Nat /\ n <= Len(rl) /\ rl \in Seq(P) /\ rt \in Seq(Q)
      BY <1>1, <1>2, <1>3
    <3> QED
      BY ONLY <3>1, PrefixesAgree
  <2> QED
    BY <1>3, <1>4, <1>5, <2>1
<1>6. ASSUME n <= len
      PROVE  (\A k \in 1 .. n : rt[k] = rl[k])
               <=> \A k \in 1 .. n : text[len - n + k] = pattern[a + k]
  <2>1. ASSUME \A k \in 1 .. n : rt[k] = rl[k], NEW k \in 1 .. n
        PROVE  text[len - n + k] = pattern[a + k]
    <3> DEFINE j == n - k + 1
    <3>1. j \in 1 .. n /\ j \in 1 .. len /\ n - j + 1 = k /\ len - j + 1 = len - n + k
      BY <1>1, <1>6
    <3> HIDE DEF j
    <3> QED
      BY <1>1, <1>2, <1>3, <2>1, <3>1
  <2>2. ASSUME \A k \in 1 .. n : text[len - n + k] = pattern[a + k], NEW j \in 1 .. n
        PROVE  rt[j] = rl[j]
    <3> DEFINE k == n - j + 1
    <3>1. k \in 1 .. n /\ j \in 1 .. len /\ n - j + 1 = k /\ len - j + 1 = len - n + k
      BY <1>1, <1>6
    <3> HIDE DEF k
    <3> QED
      <4>1. rt[j] = text[len - n + k]
        BY <1>3, <3>1
      <4>2. rl[j] = pattern[a + k]
        BY <1>1, <1>2, <3>1
      <4> QED
        BY <2>2, <3>1, <4>1, <4>2
  <2> QED
    BY <2>1, <2>2
<1> QED
  BY <1>1, <1>5, <1>6 DEF IsSuffix, last, rl, rt, n, len

\* Between two stars a cut gives each character of the pattern its own.
LEMMA PiecesAreMet ==
  ASSUME NEW pattern, NEW text, NEW len \in Nat, NEW end \in Nat, NEW cut,
         IsCut(pattern, text, cut, len, end), \A i \in 1 .. len : pattern[i] # "?",
         NEW a \in Nat, NEW n \in Nat, a + n <= len, NoStars(pattern, a, n)
  PROVE  /\ cut[a] \in Nat /\ cut[a + n] = cut[a] + n /\ cut[a] + n <= end
         /\ \A k \in 1 .. n : text[cut[a] + k] = pattern[a + k]
<1>1. \A k \in 0 .. n : cut[a + k] = cut[a] + k
  BY CutIsForced
<1>2. \A i \in 0 .. len : cut[i] \in 0 .. end
  BY DEF IsCut
<1>3. cut[a] \in Nat /\ cut[a + n] = cut[a] + n /\ cut[a + n] \in 0 .. end
  BY <1>1, <1>2
<1>4. ASSUME NEW k \in 1 .. n
      PROVE  text[cut[a] + k] = pattern[a + k]
  <2>1. a + k \in 1 .. len /\ a + k \in a + 1 .. a + n /\ k \in 0 .. n
    OBVIOUS
  <2>2. pattern[a + k] # "*" /\ pattern[a + k] # "?"
    BY <2>1 DEF NoStars
  <2>3. pattern[a + k] \in {"?", text[cut[a + k]]}
    BY <2>1, <2>2 DEF IsCut
  <2> QED
    BY <1>1, <2>1, <2>2, <2>3
<1> QED
  BY <1>3, <1>4

\* A star takes no less than what was cut before it.
LEMMA AStarTakes ==
  ASSUME NEW pattern, NEW text, NEW len \in Nat, NEW end \in Nat, NEW cut,
         IsCut(pattern, text, cut, len, end), NEW star \in 1 .. len, pattern[star] = "*"
  PROVE  cut[star - 1] \in Nat /\ cut[star] \in Nat /\ cut[star - 1] <= cut[star]
<1>1. star \in 0 .. len /\ star - 1 \in 0 .. len
  OBVIOUS
<1>2. \A i \in 0 .. len : cut[i] \in Nat
  BY DEF IsCut
<1>3. cut[star] >= cut[star - 1]
  BY DEF IsCut
<1>4. cut[star] \in Nat /\ cut[star - 1] \in Nat
  BY <1>1, <1>2
<1> QED
  BY <1>3, <1>4

\* And up to it as much may be cut as one likes.
LEMMA AStarIsCut ==
  ASSUME NEW pattern, NEW text, NEW star \in Nat \ {0}, pattern[star] = "*",
         NEW b \in Nat, NEW c \in Nat, b <= c, Cuts(pattern, text, star - 1, b)
  PROVE  Cuts(pattern, text, star, c)
<1> DEFINE a == star - 1
<1>1. a \in Nat /\ a + 1 = star /\ 1 \in Nat \ {0}
  OBVIOUS
<1> HIDE DEF a
<1>2. AllStars(pattern, a, 1)
  BY <1>1 DEF AllStars
<1>3. Cuts(pattern, text, a, b)
  BY DEF a
<1>4. Cuts(pattern, text, a + 1, c)
  BY ONLY <1>1, <1>2, <1>3, b \in Nat, c \in Nat, b <= c, CutOverStars
<1> QED
  BY <1>1, <1>4

\* Where a search stands before a star: no cut of the whole has taken less, and as
\* much was cut; or the text does not fit.
Reached(pattern, text, star, taken) ==
    \/ taken = Len(text) + 1 /\ ~Fits(pattern, text)
    \/ /\ taken \in 0 .. Len(text) /\ Cuts(pattern, text, star - 1, taken)
       /\ \A cut : IsCut(pattern, text, cut, Len(pattern), Len(text))
                       => cut[star - 1] >= taken

\* The stars of a pattern, as positions.
LEMMA StarsAreFound ==
  ASSUME NEW pattern, Len(pattern) \in Nat, NEW i \in Nat,
         \E j \in Stars(pattern) : j > i
  PROVE  LET next == Min({j \in Stars(pattern) : j > i}) IN
         /\ next \in Stars(pattern) /\ next \in 1 .. Len(pattern) /\ next > i
         /\ pattern[next] = "*"
         /\ \A j \in Stars(pattern) : j > i => next <= j
         /\ NoStars(pattern, i, next - 1 - i)
<1> DEFINE S == {j \in Stars(pattern) : j > i}
           next == Min(S)
<1>1. S \in SUBSET (1 .. Len(pattern)) /\ S # {}
  BY DEF Stars
<1>2. PICK m \in S : \A j \in S : m <= j
  <2> HIDE DEF S
  <2> QED
    BY <1>1, SomeIsFirst
<1>3. next = m
  <2> HIDE DEF S
  <2> QED
    BY <1>1, <1>2, SelectedFirst
<1>4. m \in Stars(pattern) /\ m \in 1 .. Len(pattern) /\ m > i /\ pattern[m] = "*"
  BY <1>2 DEF Stars
<1>5. \A j \in Stars(pattern) : j > i => m <= j
  BY <1>2
<1>6. NoStars(pattern, i, m - 1 - i)
  <2> SUFFICES ASSUME NEW k \in i + 1 .. i + (m - 1 - i), pattern[k] = "*"
               PROVE  FALSE
    BY DEF NoStars
  <2>1. k \in 1 .. Len(pattern) /\ k > i /\ k < m
    BY <1>4
  <2>2. k \in Stars(pattern)
    BY <2>1 DEF Stars
  <2> QED
    BY <1>4, <1>5, <2>1, <2>2
<1> QED
  BY <1>3, <1>4, <1>5, <1>6

\* What stands before the first star is a prefix, or nothing fits.
LEMMA ThePrefixIsMet ==
  ASSUME NEW P, NEW pattern \in Seq(P), NEW Q, NEW text \in Seq(Q),
         \A i \in 1 .. Len(pattern) : pattern[i] # "?",
         NEW star \in 1 .. Len(pattern), NoStars(pattern, 0, star - 1)
  PROVE  IF IsPrefix(SubSeq(pattern, 1, star - 1), text)
         THEN Reached(pattern, text, star, star - 1)
         ELSE ~Fits(pattern, text)
<1> DEFINE n == star - 1
           len == Len(pattern)
           end == Len(text)
<1>1. n \in Nat /\ n <= len /\ len \in Nat /\ end \in Nat /\ 0 + n = n
  OBVIOUS
<1>2. IsPrefix(SubSeq(pattern, 1, n), text)
        <=> n <= end /\ \A k \in 1 .. n : text[k] = pattern[k]
  BY <1>1, PrefixesAgree
<1>3. ASSUME NEW cut, IsCut(pattern, text, cut, len, end)
      PROVE  /\ cut[n] = n /\ n <= end
             /\ \A k \in 1 .. n : text[k] = pattern[k]
  <2> HIDE DEF n, len, end
  <2>1. cut[0] = 0
    BY <1>3 DEF IsCut
  <2>2. NoStars(pattern, 0, n) /\ \A i \in 1 .. len : pattern[i] # "?"
    BY DEF n, len
  <2>3. /\ cut[0 + n] = cut[0] + n /\ cut[0] + n <= end
        /\ \A k \in 1 .. n : text[cut[0] + k] = pattern[0 + k]
    <3>1. 0 \in Nat /\ 0 + n <= len
      BY <1>1
    <3> QED
      BY ONLY <1>1, <1>3, <2>2, <3>1, PiecesAreMet
  <2> QED
    BY <1>1, <2>1, <2>3
<1>4. CASE IsPrefix(SubSeq(pattern, 1, n), text)
  <2>1. Cuts(pattern, text, 0, 0)
    BY NothingIsCut
  <2>2. MeetFrom(pattern, text, 0, 0, n)
    <3> SUFFICES ASSUME NEW k \in 1 .. n
                 PROVE  Meets(pattern[0 + k], text[0 + k])
      BY DEF MeetFrom
    <3>1. k \in 0 + 1 .. 0 + (star - 1)
      OBVIOUS
    <3>2. pattern[k] # "*"
      BY <3>1 DEF NoStars
    <3> QED
      BY <1>2, <1>4, <3>2 DEF Meets
  <2>3. Cuts(pattern, text, 0 + n, 0 + n)
    <3> HIDE DEF n
    <3> QED
      BY <1>1, <2>1, <2>2, CutGoesOn
  <2>4. n \in 0 .. end
    BY <1>1, <1>2, <1>4
  <2>5. \A cut : IsCut(pattern, text, cut, len, end) => cut[n] >= n
    BY <1>1, <1>3
  <2> QED
    BY <1>1, <1>4, <2>3, <2>4, <2>5 DEF Reached
<1>5. CASE ~IsPrefix(SubSeq(pattern, 1, n), text)
  <2>1. ~Fits(pattern, text)
    BY <1>2, <1>3, <1>5, FitsIsCut DEF Cuts
  <2> QED
    BY <1>5, <2>1
<1> QED
  BY <1>4, <1>5

\* Behind a star a part is looked for, up to the next one.
LEMMA ThePartIsFound ==
  ASSUME NEW P, NEW pattern \in Seq(P), NEW Q, NEW text \in Seq(Q),
         \A i \in 1 .. Len(pattern) : pattern[i] # "?",
         NEW star \in 1 .. Len(pattern), pattern[star] = "*",
         NEW next \in 1 .. Len(pattern), star < next, NoStars(pattern, star, next - 1 - star),
         NEW taken, Reached(pattern, text, star, taken)
  PROVE  Reached(pattern, text, next, Found(SubSeq(pattern, star + 1, next - 1), text, taken))
<1> DEFINE n == next - 1 - star
           part == SubSeq(pattern, star + 1, star + n)
           len == Len(pattern)
           end == Len(text)
           ends == {e \in taken + n .. end : SubSeq(text, e - n + 1, e) = part}
<1>1. /\ n \in Nat /\ star + n = next - 1 /\ star + n <= len /\ len \in Nat /\ end \in Nat
      /\ star \in Nat /\ star - 1 \in Nat /\ taken \in 0 .. end + 1 /\ taken \in Nat
  BY DEF Reached
<1>2. part = SubSeq(pattern, star + 1, next - 1)
  BY <1>1
<1>3. Len(part) = n
  BY <1>1, PartsAgree
<1>4. EndsOf(part, text, taken) = ends
  BY <1>3 DEF EndsOf
<1>5. \A e \in taken + n .. end :
          e \in ends <=> \A k \in 1 .. n : text[(e - n) + k] = pattern[star + k]
  <2> SUFFICES ASSUME NEW e \in taken + n .. end
               PROVE  SubSeq(text, e - n + 1, e) = part
                        <=> \A k \in 1 .. n : text[(e - n) + k] = pattern[star + k]
    OBVIOUS
  <2> DEFINE b == e - n
  <2>1. b \in Nat /\ b + n = e /\ b + n <= Len(text)
    BY <1>1
  <2> HIDE DEF b
  <2>2. SubSeq(text, b + 1, b + n) = SubSeq(pattern, star + 1, star + n)
          <=> Agree(pattern, star, text, b, n)
    <3>1. /\ star \in Nat /\ n \in Nat /\ b \in Nat
          /\ star + n <= Len(pattern) /\ b + n <= Len(text)
      BY <1>1, <2>1
    <3> HIDE DEF n
    <3> QED
      BY ONLY pattern \in Seq(P), text \in Seq(Q), <3>1, PartsAgree
  <2> QED
    BY <2>1, <2>2 DEF b, Agree
<1>6. ASSUME NEW cut, IsCut(pattern, text, cut, len, end)
      PROVE  cut[next - 1] \in ends /\ cut[next - 1] \in Nat
  <2>1. Fits(pattern, text)
    BY <1>6, FitsIsCut DEF Cuts
  <2>2. cut[star - 1] >= taken /\ taken <= end
    BY <1>6, <2>1 DEF Reached
  <2>3. /\ cut[star] \in Nat /\ cut[star + n] = cut[star] + n /\ cut[star] + n <= end
        /\ \A k \in 1 .. n : text[cut[star] + k] = pattern[star + k]
    <3>1. NoStars(pattern, star, n) /\ \A i \in 1 .. len : pattern[i] # "?"
      OBVIOUS
    <3>2. star \in Nat /\ n \in Nat /\ star + n <= len /\ len \in Nat /\ end \in Nat
      BY <1>1
    <3> HIDE DEF n, len, end
    <3> QED
      BY ONLY <1>6, <3>1, <3>2, PiecesAreMet
  <2>4. cut[star] >= cut[star - 1] /\ cut[star - 1] \in Nat
    <3>1. star \in 1 .. len /\ pattern[star] = "*" /\ len \in Nat /\ end \in Nat
      BY <1>1
    <3>2. cut[star - 1] \in Nat /\ cut[star] \in Nat /\ cut[star - 1] <= cut[star]
      BY ONLY <1>6, <3>1, AStarTakes
    <3> QED
      BY <3>2
  <2> DEFINE e == cut[star] + n
  <2>5. e \in taken + n .. end /\ e - n = cut[star] /\ cut[next - 1] = e
    BY <1>1, <2>2, <2>3, <2>4
  <2> HIDE DEF e, ends, n
  <2>6. \A k \in 1 .. n : text[(e - n) + k] = pattern[star + k]
    BY <2>3, <2>5
  <2>7. e \in Nat
    BY <1>1, <2>5
  <2> QED
    BY <1>5, <2>5, <2>6, <2>7
<1>7. CASE ends = {}
  <2>1. ~Fits(pattern, text)
    BY <1>6, <1>7, FitsIsCut DEF Cuts
  <2>2. Found(part, text, taken) = Len(text) + 1
    BY <1>4, <1>7 DEF Found
  <2> QED
    BY <1>2, <2>1, <2>2 DEF Reached
<1>8. CASE ends # {}
  <2>1. PICK e \in ends : \A j \in ends : e <= j
    <3>1. CASE taken + n = 0
      <4>1. 0 \in ends
        BY <1>1, <1>5, <3>1
      <4> QED
        BY <1>1, <4>1
    <3>2. CASE taken + n # 0
      <4>1. ends \in SUBSET (1 .. end)
        BY <1>1, <3>2
      <4> HIDE DEF ends
      <4> QED
        BY <1>1, <1>8, <4>1, SomeIsFirst
    <3> QED
      BY <3>1, <3>2
  <2>2. Min(ends) = e
    <3>1. \A j \in ends : j \in Int
      OBVIOUS
    <3> HIDE DEF ends
    <3>2. \A k \in ends : (\A j \in ends : k <= j) => k = e
      BY <2>1, <3>1
    <3>3. Min(ends) \in ends /\ \A j \in ends : Min(ends) <= j
      BY <2>1 DEF Min
    <3> QED
      BY <3>2, <3>3
  <2>3. Found(part, text, taken) = e
    BY <1>4, <1>8, <2>2 DEF Found
  <2>4. /\ e \in taken + n .. end
        /\ \A k \in 1 .. n : text[(e - n) + k] = pattern[star + k]
    BY <1>5
  <2> DEFINE b == e - n
  <2>5. b \in Nat /\ b + n = e /\ taken <= b /\ b <= end /\ e \in 0 .. end
    BY <1>1, <2>4
  <2>6. Cuts(pattern, text, star - 1, taken)
    BY <1>1, <2>4 DEF Reached
  <2> HIDE DEF b
  <2>7. star \in Nat \ {0} /\ pattern[star] = "*" /\ taken \in Nat
    BY <1>1
  <2>8. Cuts(pattern, text, star, b)
    BY ONLY <2>5, <2>6, <2>7, AStarIsCut
  <2>9. MeetFrom(pattern, text, star, b, n)
    <3> SUFFICES ASSUME NEW k \in 1 .. n
                 PROVE  Meets(pattern[star + k], text[b + k])
      BY DEF MeetFrom
    <3>1. star + k \in star + 1 .. star + n /\ NoStars(pattern, star, n)
      BY <1>1
    <3> QED
      BY <2>4, <3>1 DEF Meets, NoStars, b
  <2>10. Cuts(pattern, text, next - 1, e)
    <3>1. Cuts(pattern, text, star + n, b + n)
      <4> HIDE DEF n
      <4> QED
        BY <1>1, <2>5, <2>8, <2>9, CutGoesOn
    <3> QED
      BY <1>1, <2>5, <3>1
  <2>11. \A cut : IsCut(pattern, text, cut, len, end) => cut[next - 1] >= e
    <3> HIDE DEF ends
    <3>1. ASSUME NEW cut, IsCut(pattern, text, cut, len, end)
          PROVE  cut[next - 1] >= e
      <4>1. cut[next - 1] \in ends /\ cut[next - 1] \in Nat
        BY <1>6, <3>1
      <4> QED
        BY <2>1, <2>5, <4>1
    <3> QED
      BY <3>1
  <2> QED
    BY <1>2, <2>3, <2>5, <2>10, <2>11 DEF Reached
<1> QED
  BY <1>7, <1>8

\* What stands after the last star is a suffix of what is left, or nothing fits.
LEMMA TheSuffixIsMet ==
  ASSUME NEW P, NEW pattern \in Seq(P), NEW Q, NEW text \in Seq(Q),
         \A i \in 1 .. Len(pattern) : pattern[i] # "?",
         NEW star \in 1 .. Len(pattern), pattern[star] = "*",
         NoStars(pattern, star, Len(pattern) - star),
         NEW taken, Reached(pattern, text, star, taken)
  PROVE  Fits(pattern, text)
           <=> /\ taken + Len(From(pattern, star + 1)) <= Len(text)
               /\ IsSuffix(From(pattern, star + 1), text)
<1> DEFINE n == Len(pattern) - star
           last == From(pattern, star + 1)
           len == Len(pattern)
           end == Len(text)
<1>1. /\ n \in Nat /\ star + n = len /\ star + n <= len /\ len \in Nat /\ end \in Nat
      /\ star \in Nat /\ star - 1 \in Nat /\ taken \in 0 .. end + 1 /\ taken \in Nat
  BY DEF Reached
<1>2. /\ Len(last) = n
      /\ n <= end => (IsSuffix(last, text)
                        <=> \A k \in 1 .. n : text[end - n + k] = pattern[star + k])
  <2>1. star \in Nat /\ star <= Len(pattern)
    BY <1>1
  <2> QED
    BY ONLY pattern \in Seq(P), text \in Seq(Q), <2>1, SuffixesAgree
<1>4. ASSUME Fits(pattern, text)
      PROVE  taken + n <= end /\ \A k \in 1 .. n : text[end - n + k] = pattern[star + k]
  <2>1. PICK cut : IsCut(pattern, text, cut, len, end)
    BY <1>4, FitsIsCut DEF Cuts
  <2>2. cut[star - 1] >= taken /\ taken <= end
    BY <1>4, <2>1 DEF Reached
  <2>3. /\ cut[star] \in Nat /\ cut[star + n] = cut[star] + n /\ cut[star] + n <= end
        /\ \A k \in 1 .. n : text[cut[star] + k] = pattern[star + k]
    <3>1. NoStars(pattern, star, n) /\ \A i \in 1 .. len : pattern[i] # "?"
      OBVIOUS
    <3>2. star \in Nat /\ n \in Nat /\ star + n <= len /\ len \in Nat /\ end \in Nat
      BY <1>1
    <3> HIDE DEF n, len, end
    <3> QED
      BY ONLY <2>1, <3>1, <3>2, PiecesAreMet
  <2>4. cut[star] >= cut[star - 1] /\ cut[star - 1] \in Nat /\ cut[len] = end
    <3>1. star \in 1 .. len /\ pattern[star] = "*" /\ len \in Nat /\ end \in Nat
      BY <1>1
    <3>2. cut[star - 1] \in Nat /\ cut[star] \in Nat /\ cut[star - 1] <= cut[star]
      BY ONLY <2>1, <3>1, AStarTakes
    <3>3. cut[len] = end
      BY <2>1 DEF IsCut
    <3> QED
      BY <3>2, <3>3
  <2>5. cut[star] = end - n
    BY <1>1, <2>3, <2>4
  <2> QED
    BY <1>1, <2>2, <2>3, <2>4, <2>5
<1>5. ASSUME taken + n <= end, \A k \in 1 .. n : text[end - n + k] = pattern[star + k]
      PROVE  Fits(pattern, text)
  <2> DEFINE b == end - n
  <2>1. b \in Nat /\ b + n = end /\ taken <= b /\ taken # end + 1
    BY <1>1, <1>5
  <2>2. Cuts(pattern, text, star - 1, taken)
    BY <2>1 DEF Reached
  <2> HIDE DEF b
  <2>3. star \in Nat \ {0} /\ pattern[star] = "*" /\ taken \in Nat
    BY <1>1
  <2>4. Cuts(pattern, text, star, b)
    BY ONLY <2>1, <2>2, <2>3, AStarIsCut
  <2>5. MeetFrom(pattern, text, star, b, n)
    <3> SUFFICES ASSUME NEW k \in 1 .. n
                 PROVE  Meets(pattern[star + k], text[b + k])
      BY DEF MeetFrom
    <3>1. star + k \in star + 1 .. star + n /\ NoStars(pattern, star, n)
      BY <1>1
    <3> QED
      BY <1>5, <3>1 DEF Meets, NoStars, b
  <2>6. Cuts(pattern, text, star + n, b + n)
    <3> HIDE DEF n
    <3> QED
      BY <1>1, <2>1, <2>4, <2>5, CutGoesOn
  <2> QED
    BY <1>1, <2>1, <2>6, FitsIsCut
<1> DEFINE Same == \A k \in 1 .. n : text[end - n + k] = pattern[star + k]
<1>6. Fits(pattern, text) <=> taken + n <= end /\ Same
  BY <1>4, <1>5
<1>7. taken + n <= end => n <= end
  BY <1>1
<1>8. taken + n <= end => (IsSuffix(last, text) <=> Same)
  BY <1>2, <1>7
<1> HIDE DEF Same, last, n, end
<1>9. Fits(pattern, text) <=> taken + Len(last) <= end /\ IsSuffix(last, text)
  BY <1>2, <1>6, <1>8
<1> QED
  BY <1>9 DEF last, end

\* What a search has taken once it was at a star, and that it goes on over them all.
Searched(pattern, text, n, i) ==
    IF i \in Stars(pattern) \ {Max(Stars(pattern))} THEN Found(Between(pattern, i), text, n) ELSE n

Taken(pattern, text, base) ==
    FoldLeftDomain(LAMBDA n, i : Searched(pattern, text, n, i), base, pattern)

\* The least of some numbers.
LEMMA LeastIs ==
  ASSUME NEW S \in SUBSET Nat, S # {}
  PROVE  Min(S) \in S /\ \A j \in S : Min(S) <= j
<1>1. PICK i \in S : \A j \in S : <<j, i>> \notin OpToRel(<, Nat)
  BY NatLessThanWellFounded, WFMin, Zenon
<1>2. ASSUME NEW j \in S
      PROVE  i <= j
  <2>1. i \in Nat /\ j \in Nat
    OBVIOUS
  <2>2. ~(j < i)
    BY <1>1, <2>1 DEF OpToRel
  <2> QED
    BY <2>1, <2>2
<1> QED
  BY <1>2 DEF Min

\* What is found is a number.
LEMMA FoundIsNat ==
  ASSUME NEW P, NEW pattern \in Seq(P), NEW Q, NEW text \in Seq(Q),
         NEW n \in Nat, NEW i \in 1 .. Len(pattern)
  PROVE  Searched(pattern, text, n, i) \in Nat
<1>1. CASE i \in Stars(pattern) \ {Max(Stars(pattern))}
  <2> DEFINE part == Between(pattern, i)
             S == {j \in Stars(pattern) : j > i}
  <2>1. Stars(pattern) \in SUBSET (1 .. Len(pattern)) /\ Stars(pattern) # {}
    BY <1>1 DEF Stars
  <2>2. Max(Stars(pattern)) \in S
    <3>1. Len(pattern) \in Nat
      OBVIOUS
    <3>2. /\ Max(Stars(pattern)) \in Stars(pattern)
          /\ \A j \in Stars(pattern) : j <= Max(Stars(pattern))
      BY ONLY <2>1, <3>1, GreatestIs
    <3>3. i \in Stars(pattern) /\ i # Max(Stars(pattern)) /\ i \in Nat
      BY <1>1
    <3>4. Max(Stars(pattern)) \in Nat
      BY <2>1, <3>2
    <3>5. i <= Max(Stars(pattern))
      BY <3>2, <3>3
    <3> QED
      BY <3>2, <3>3, <3>4, <3>5
  <2>3. Min(S) \in Nat
    <3>1. S \in SUBSET Nat /\ S # {}
      BY <2>1, <2>2
    <3> HIDE DEF S
    <3> QED
      BY <3>1, LeastIs
  <2>4. part = SubSeq(pattern, i + 1, Min(S) - 1)
    BY DEF Between
  <2>5. Len(part) \in Nat
    <3> DEFINE m == Min(S) - 1
    <3>1. m \in Int
      BY <2>3
    <3> HIDE DEF S, m
    <3>2. Len(SubSeq(pattern, i + 1, m)) \in Nat
      BY <3>1
    <3> QED
      BY <2>4, <3>2 DEF m
  <2> HIDE DEF part
  <2>6. EndsOf(part, text, n) \in SUBSET Nat
    BY <2>5 DEF EndsOf
  <2>7. Found(part, text, n) \in Nat
    BY <2>6, LeastIs DEF Found
  <2> QED
    BY <1>1, <2>7 DEF Searched, part
<1>2. CASE i \notin Stars(pattern) \ {Max(Stars(pattern))}
  BY <1>2 DEF Searched
<1> QED
  BY <1>1, <1>2

\* The numbers taken along the pattern.
SearchRun(run, pattern, text, base) ==
    /\ run[0] = base
    /\ \A k \in 1 .. Len(pattern) : run[k] = Searched(pattern, text, run[k - 1], k)
    /\ Taken(pattern, text, base) = run[Len(pattern)]

\* The search of a pattern goes from character to character.
LEMMA SearchRuns ==
  ASSUME NEW P, NEW pattern \in Seq(P), NEW Q, NEW text \in Seq(Q), NEW base \in Nat
  PROVE  \E run : SearchRun(run, pattern, text, base)
<1> DEFINE n == Len(pattern)
           V == Nat
           Step(v, i) == Searched(pattern, text, v, i)
           at == [i \in DOMAIN pattern |-> i]
           F == [x \in V \X (1 .. n) |-> Step(x[1], x[2])]
           Is(iter) == iter = [s \in SUBSET (DOMAIN at) |->
                                  IF s = {} THEN base
                                  ELSE Step(iter[s \ {Max(s)}], at[Max(s)])]
           it == CHOOSE iter : Is(iter)
<1>1. n \in Nat /\ DOMAIN pattern = 1 .. n /\ DOMAIN at = 1 .. n /\ \A i \in 1 .. n : at[i] = i
  OBVIOUS
<1>2. base \in V
  OBVIOUS
<1>3. \A v \in V, i \in 1 .. n : Step(v, i) \in V
  BY FoundIsNat
<1>8. Taken(pattern, text, base) = it[DOMAIN at]
  BY DEF Taken, FoldLeftDomain, FoldLeft, MapThenFoldSet, Max
<1> HIDE DEF V, n, Step, at
<1>4. F \in [V \X (1 .. n) -> V]
  BY <1>1, <1>3
<1>5. PICK iter \in [SUBSET (1 .. n) -> V] : Runs(iter, n, base, F)
  <2> HIDE DEF F
  <2> QED
    BY <1>1, <1>2, <1>4, RunExists
<1>6. Is(iter)
  <2> SUFFICES ASSUME NEW s \in SUBSET (1 .. n)
               PROVE  iter[s] = IF s = {} THEN base
                                ELSE Step(iter[s \ {Max(s)}], at[Max(s)])
    BY <1>1
  <2>1. CASE s = {}
    BY <1>5, <2>1 DEF Runs
  <2>2. CASE s # {}
    <3>1. Max(s) \in 1 .. n
      BY <1>1, <2>2, GreatestIs
    <3>2. iter[s \ {Max(s)}] \in V
      BY <1>5
    <3>3. <<iter[s \ {Max(s)}], Max(s)>> \in V \X (1 .. n) /\ at[Max(s)] = Max(s)
      BY <1>1, <3>1, <3>2
    <3>4. iter[s] = F[<<iter[s \ {Max(s)}], Max(s)>>]
      BY <1>5, <2>2 DEF Runs
    <3> QED
      BY <2>2, <3>3, <3>4
  <2> QED
    BY <2>1, <2>2
<1>7. Is(it)
  <2> HIDE DEF Is
  <2> QED
    BY <1>6, Zenon
<1> DEFINE run == [k \in 0 .. n |-> it[1 .. k]]
<1>9. run[0] = base /\ \A k \in 1 .. n : run[k] = Step(run[k - 1], k)
  <2>1. \A s \in SUBSET (1 .. n) :
            it[s] = IF s = {} THEN base ELSE Step(it[s \ {Max(s)}], at[Max(s)])
    <3>1. it = [s \in SUBSET (DOMAIN at) |->
                   IF s = {} THEN base ELSE Step(it[s \ {Max(s)}], at[Max(s)])]
      <4> HIDE DEF it
      <4> QED
        BY <1>7
    <3> HIDE DEF it
    <3> QED
      BY <1>1, <3>1
  <2> HIDE DEF it
  <2>2. run[0] = base
    <3>1. 1 .. 0 = {} /\ {} \in SUBSET (1 .. n)
      OBVIOUS
    <3>2. run[0] = it[{}]
      BY <1>1, <3>1
    <3>3. it[{}] = base
      <4> HIDE DEF run
      <4> QED
        BY <2>1, <3>1
    <3> QED
      BY <3>2, <3>3
  <2>3. ASSUME NEW k \in 1 .. n
        PROVE  run[k] = Step(run[k - 1], k)
    <3>1. /\ 1 .. k \in SUBSET (1 .. n) /\ 1 .. k # {} /\ (1 .. k) \ {k} = 1 .. (k - 1)
          /\ k \in 1 .. k /\ \A j \in 1 .. k : k >= j
      <4>1. n \in Nat /\ k \in Nat /\ 1 <= k /\ k <= n
        BY <1>1
      <4>2. k \in 1 .. k /\ \A j \in 1 .. k : k >= j
        BY ONLY <4>1
      <4>3. 1 .. k \in SUBSET (1 .. n)
        BY ONLY <4>1
      <4>4. (1 .. k) \ {k} = 1 .. (k - 1)
        BY ONLY <4>1
      <4> QED
        BY <4>2, <4>3, <4>4
    <3>2. Max(1 .. k) = k /\ at[k] = k
      BY <1>1, <3>1, SelectedLast
    <3>3. run[k] = it[1 .. k] /\ run[k - 1] = it[1 .. (k - 1)]
      BY <1>1
    <3> QED
      BY <2>1, <3>1, <3>2, <3>3
  <2> QED
    BY <2>2, <2>3
<1>10. run[n] = it[DOMAIN at]
  BY <1>1
<1> HIDE DEF run, it
<1> QED
  BY <1>8, <1>9, <1>10 DEF SearchRun, n, Step

\* Without a star a text fits that is the pattern.
LEMMA OnlyItselfFits ==
  ASSUME NEW P, NEW pattern \in Seq(P), NEW Q, NEW text \in Seq(Q),
         \A i \in 1 .. Len(pattern) : pattern[i] # "?", Stars(pattern) = {}
  PROVE  Fits(pattern, text) <=> pattern = text
<1> DEFINE len == Len(pattern)
           end == Len(text)
<1>1. /\ len \in Nat /\ end \in Nat /\ 0 \in Nat /\ 0 + len = len /\ 0 + len <= len
      /\ \A i \in 1 .. len : pattern[i] # "?" /\ pattern[i] # "*"
  BY DEF Stars
<1>2. NoStars(pattern, 0, len)
  BY <1>1 DEF NoStars
<1>3. ASSUME Fits(pattern, text)
      PROVE  pattern = text
  <2>1. PICK cut : IsCut(pattern, text, cut, len, end)
    BY <1>3, FitsIsCut DEF Cuts
  <2>2. cut[0] = 0 /\ cut[len] = end
    BY <2>1 DEF IsCut
  <2>3. /\ cut[0 + len] = cut[0] + len
        /\ \A k \in 1 .. len : text[cut[0] + k] = pattern[0 + k]
    <3>1. \A i \in 1 .. len : pattern[i] # "?"
      BY <1>1
    <3> HIDE DEF len, end
    <3> QED
      BY ONLY <1>1, <1>2, <2>1, <3>1, PiecesAreMet
  <2>4. len = end /\ \A k \in 1 .. len : text[k] = pattern[k]
    BY <1>1, <2>2, <2>3
  <2> QED
    BY <2>4
<1>4. ASSUME pattern = text
      PROVE  Fits(pattern, text)
  <2>1. Cuts(pattern, text, 0, 0)
    BY NothingIsCut
  <2>2. MeetFrom(pattern, text, 0, 0, len)
    <3> SUFFICES ASSUME NEW k \in 1 .. len
                 PROVE  Meets(pattern[0 + k], text[0 + k])
      BY DEF MeetFrom
    <3> QED
      BY <1>1, <1>4 DEF Meets
  <2>3. Cuts(pattern, text, 0 + len, 0 + len)
    <3> HIDE DEF len, end
    <3> QED
      BY ONLY <1>1, <2>1, <2>2, CutGoesOn
  <2> QED
    BY <1>1, <1>4, <2>3, FitsIsCut
<1> QED
  BY <1>3, <1>4

\* glob_match says what fits.
THEOREM GlobIsFit ==
  ASSUME NEW P, NEW pattern \in Seq(P), NEW Q, NEW text \in Seq(Q),
         \A i \in 1 .. Len(pattern) : pattern[i] # "?"
  PROVE  glob_match(pattern, text) <=> Fits(pattern, text)
<1> DEFINE len == Len(pattern)
           stars == Stars(pattern)
           front == Min(stars)
           back == Max(stars)
           first == SubSeq(pattern, 1, front - 1)
           last == From(pattern, back + 1)
           taken == Taken(pattern, text, Len(first))
<1>1. glob_match(pattern, text)
        <=> IF stars = {} THEN pattern = text
            ELSE /\ IsPrefix(first, text)
                 /\ taken + Len(last) <= Len(text)
                 /\ IsSuffix(last, text)
  BY DEF glob_match, Taken, Searched
<1>2. CASE stars = {}
  BY <1>1, <1>2, OnlyItselfFits
<1>3. CASE stars # {}
  <2>1. stars \in SUBSET (1 .. len) /\ len \in Nat
    BY DEF Stars
  <2>2. /\ back \in stars /\ back \in 1 .. len /\ \A j \in stars : j <= back
        /\ pattern[back] = "*"
    <3>1. back \in stars /\ \A j \in stars : j <= back
      <4> HIDE DEF len, stars
      <4> QED
        BY <1>3, <2>1, GreatestIs
    <3> QED
      BY <2>1, <3>1 DEF Stars
  <2>3. NoStars(pattern, back, len - back)
    <3> SUFFICES ASSUME NEW k \in back + 1 .. back + (len - back), pattern[k] = "*"
                 PROVE  FALSE
      BY DEF NoStars
    <3>1. k \in 1 .. len /\ k > back
      BY <2>1, <2>2
    <3>2. k \in stars
      BY <3>1 DEF Stars
    <3> QED
      BY <2>1, <2>2, <3>1, <3>2
  <2> DEFINE Next(k) == Min({j \in stars : j > k})
  <2>4. ASSUME NEW k \in Nat, k < back
        PROVE  /\ Next(k) \in stars /\ Next(k) \in 1 .. len /\ Next(k) > k
               /\ pattern[Next(k)] = "*"
               /\ \A j \in stars : j > k => Next(k) <= j
               /\ NoStars(pattern, k, Next(k) - 1 - k)
    <3>1. \E j \in Stars(pattern) : j > k
      BY <2>1, <2>2, <2>4
    <3>2. Len(pattern) \in Nat
      OBVIOUS
    <3> QED
      BY <2>4, <3>1, <3>2, StarsAreFound
  <2>5. front = Next(0)
    <3>1. {j \in stars : j > 0} = stars
      BY <2>1
    <3> HIDE DEF stars
    <3> QED
      BY <3>1
  <2>6. /\ front \in 1 .. len /\ NoStars(pattern, 0, front - 1)
    <3>1. 0 \in Nat /\ 0 < back
      BY <2>1, <2>2
    <3>2. Next(0) \in 1 .. len /\ NoStars(pattern, 0, Next(0) - 1 - 0)
      BY <2>4, <3>1
    <3>3. Next(0) - 1 - 0 = Next(0) - 1
      BY <2>1, <3>2
    <3> HIDE DEF Next, front
    <3> QED
      BY <2>5, <3>2, <3>3
  <2>7. IF IsPrefix(first, text) THEN Reached(pattern, text, front, front - 1)
        ELSE ~Fits(pattern, text)
    <3> HIDE DEF front
    <3> QED
      BY <2>6, ThePrefixIsMet
  <2>8. CASE ~IsPrefix(first, text)
    BY <1>1, <1>3, <2>7, <2>8
  <2>9. CASE IsPrefix(first, text)
    <3>1. Len(first) = front - 1 /\ front - 1 \in Nat
      <4> DEFINE m == front - 1
      <4>1. m \in Nat /\ m <= Len(pattern)
        BY <2>6
      <4> HIDE DEF m
      <4>2. Len(SubSeq(pattern, 1, m)) = m
        BY <4>1
      <4> QED
        BY <4>1, <4>2 DEF m
    <3>3. PICK run : /\ run[0] = Len(first)
                     /\ \A k \in 1 .. len : run[k] = Searched(pattern, text, run[k - 1], k)
                     /\ taken = run[len]
      <4>1. Len(first) \in Nat
        BY <3>1
      <4> DEFINE b == Len(first)
      <4>2. b \in Nat
        BY <4>1
      <4> HIDE DEF b
      <4>3. \E run : SearchRun(run, pattern, text, b)
        BY ONLY pattern \in Seq(P), text \in Seq(Q), <4>2, SearchRuns
      <4> QED
        BY <4>3 DEF SearchRun, b
    <3> DEFINE Here(k) == IF k < back THEN Next(k) ELSE back
               G == {k \in 0 .. len : Reached(pattern, text, Here(k), run[k])}
    <3> HIDE DEF first, front, back, stars, taken, len, Next
    <3>4. 0 \in G
      <4>1. Here(0) = front
        BY <2>1, <2>2, <2>5
      <4> QED
        BY <2>1, <2>7, <2>9, <3>1, <3>3, <4>1
    <3>5. ASSUME NEW k \in 1 .. len, k - 1 \in G
          PROVE  k \in G
      <4>1. run[k] = Searched(pattern, text, run[k - 1], k) /\ k \in Nat /\ k \in 0 .. len
        BY <2>1, <3>3
      <4>2. Reached(pattern, text, Here(k - 1), run[k - 1])
        BY <3>5
      <4>3. CASE k \in stars /\ k # back
        <5>1. k < back /\ k - 1 < back /\ k - 1 \in Nat /\ back \in Nat
          BY <2>1, <2>2, <4>3
        <5>2. Next(k - 1) = k
          <6>1. Next(k - 1) \in stars /\ Next(k - 1) > k - 1 /\ Next(k - 1) <= k
            BY <2>4, <4>3, <5>1
          <6>2. k \in Nat /\ \A j \in stars : j \in Nat
            BY ONLY <2>1
          <6>3. Next(k - 1) \in Nat
            BY ONLY <6>1, <6>2
          <6> QED
            BY ONLY <6>1, <6>2, <6>3
        <5>3. /\ Next(k) \in 1 .. len /\ k < Next(k)
              /\ NoStars(pattern, k, Next(k) - 1 - k)
          BY <2>4, <5>1
        <5>4. run[k] = Found(SubSeq(pattern, k + 1, Next(k) - 1), text, run[k - 1])
          BY <4>1, <4>3 DEF Searched, Between, stars, back, Next
        <5>5. Reached(pattern, text, k, run[k - 1]) /\ pattern[k] = "*"
          BY <4>2, <4>3, <5>1, <5>2 DEF stars, Stars
        <5>6. Reached(pattern, text, Next(k),
                      Found(SubSeq(pattern, k + 1, Next(k) - 1), text, run[k - 1]))
          <6>1. k \in 1 .. Len(pattern) /\ Next(k) \in 1 .. Len(pattern)
            BY <5>3 DEF len
          <6> QED
            BY <5>3, <5>5, <6>1, ThePartIsFound
        <5> QED
          BY <4>1, <5>1, <5>4, <5>6
      <4>4. CASE ~(k \in stars /\ k # back)
        <5>1. run[k] = run[k - 1]
          BY <4>1, <4>4 DEF Searched, stars, back
        <5>2. Here(k) = Here(k - 1)
          <6>1. CASE k < back
            <7>1. k \notin stars /\ k - 1 < back
              BY <2>1, <2>2, <4>4, <6>1
            <7>2. {j \in stars : j > k - 1} = {j \in stars : j > k}
              <8>1. \A j \in stars : j \in Nat /\ j # k
                BY <2>1, <7>1
              <8>2. \A j \in stars : j > k - 1 <=> j > k
                BY <8>1
              <8> QED
                BY ONLY <8>2
            <7> QED
              BY <6>1, <7>1, <7>2 DEF Next
          <6>2. CASE k = back
            <7>1. back - 1 \in Nat /\ back - 1 < back
              BY <2>1, <2>2
            <7>2. Next(back - 1) \in stars /\ Next(back - 1) > back - 1 /\ Next(back - 1) <= back
              BY <2>2, <2>4, <7>1
            <7>3. Next(back - 1) = back
              <8>1. back \in Nat /\ \A j \in stars : j \in Nat
                BY ONLY <2>1, <2>2
              <8>2. Next(back - 1) \in Nat
                BY ONLY <7>2, <8>1
              <8> QED
                BY ONLY <7>2, <8>1, <8>2
            <7> QED
              BY <6>2, <7>1, <7>3
          <6>3. CASE k > back
            BY <2>1, <2>2, <6>3
          <6> QED
            BY <2>1, <2>2, <6>1, <6>2, <6>3
        <5> HIDE DEF Here
        <5> QED
          BY <4>1, <4>2, <5>1, <5>2
      <4> QED
        BY <4>3, <4>4
    <3>6. len \in G
      <4>1. \A k \in 0 .. len : k \in G
        <5> HIDE DEF G
        <5> QED
          BY <2>1, <3>4, <3>5, Climbs
      <4> QED
        BY <2>1, <4>1
    <3>7. Reached(pattern, text, back, taken)
      BY <2>1, <2>2, <3>3, <3>6
    <3>8. Fits(pattern, text)
            <=> /\ taken + Len(last) <= Len(text)
                /\ IsSuffix(last, text)
      BY <2>2, <2>3, <3>7, TheSuffixIsMet DEF len
    <3> QED
      BY <1>1, <1>3, <2>9, <3>8
  <2> QED
    BY <2>8, <2>9
<1> QED
  BY <1>2, <1>3
-----------------------------------------------------------------------------
(* The calendar.                                                           *)

\* A day of an era lies in a century, in a cycle of four years, in a year that
\* begins in March, at a day of that year.
Parted(doe, c, q, y, d) ==
    /\ c \in 0 .. 3 /\ q \in 0 .. 24 /\ y \in 0 .. 3 /\ d \in Nat /\ d <= 365
    /\ doe = 36524 * c + 1461 * q + 365 * y + d
    /\ d = 365 => y = 3 /\ (q # 24 \/ c = 3)

\* Each day of an era is parted so.
LEMMA DaysArePartedOnce ==
  ASSUME NEW doe \in Nat, doe < 146097
  PROVE  \E c, q, y, d : Parted(doe, c, q, y, d)
<1>1. \E c \in 0 .. 3, r \in Nat : r <= 36524 /\ doe = 36524 * c + r /\ (r = 36524 => c = 3)
  <2>1. CASE doe = 146096
    BY <2>1, SMT
  <2>2. CASE doe # 146096
    <3>1. doe \div 36524 \in 0 .. 3 /\ doe % 36524 \in Nat /\ doe % 36524 < 36524
          /\ doe = 36524 * (doe \div 36524) + (doe % 36524)
      BY <2>2, SMT
    <3> QED
      BY <3>1, SMT
  <2> QED
    BY <2>1, <2>2, SMT
<1>2. PICK c \in 0 .. 3, r \in Nat : r <= 36524 /\ doe = 36524 * c + r /\ (r = 36524 => c = 3)
  BY <1>1, SMT
<1>3. /\ r \div 1461 \in 0 .. 24 /\ r % 1461 \in Nat /\ r % 1461 <= 1460
      /\ r = 1461 * (r \div 1461) + (r % 1461)
  <2>1. r % 1461 \in Nat /\ r % 1461 <= 1460 /\ r \div 1461 \in Nat
    BY SMT
  <2>2. r = 1461 * (r \div 1461) + (r % 1461)
    BY SMT
  <2> QED
    BY <2>1, <2>2, <1>2, SMT
<1>4. PICK q \in 0 .. 24, s \in Nat : s <= 1460 /\ r = 1461 * q + s
  BY <1>3, SMT
<1>5. \E y \in 0 .. 3, d \in Nat : d <= 365 /\ s = 365 * y + d /\ (d = 365 => y = 3)
  <2>1. CASE s = 1460
    BY <2>1, SMT
  <2>2. CASE s # 1460
    <3>2. s % 365 \in Nat /\ s % 365 <= 364 /\ s \div 365 \in Nat
      BY SMT
    <3>3. s = 365 * (s \div 365) + (s % 365)
      BY SMT
    <3>1. s \div 365 \in 0 .. 3 /\ s % 365 \in Nat /\ s % 365 <= 364
      <4> DEFINE a == s \div 365
                 b == s % 365
      <4>1. a \in Nat /\ b \in Nat /\ s = 365 * a + b /\ s <= 1459 /\ b <= 364
        BY <1>4, <2>2, <3>2, <3>3, SMT
      <4> HIDE DEF a, b
      <4>2. a <= 3
        BY <4>1, SMT
      <4> QED
        BY <4>1, <4>2, SMT DEF a, b
    <3> QED
      BY <3>1, <3>3, SMT
  <2> QED
    BY <2>1, <2>2, SMT
<1>6. PICK y \in 0 .. 3, d \in Nat : d <= 365 /\ s = 365 * y + d /\ (d = 365 => y = 3)
  BY <1>5, SMT
<1>7. Parted(doe, c, q, y, d)
  BY <1>2, <1>4, <1>6, SMT DEF Parted
<1> QED
  BY <1>7, SMT

\* The year of an era, and the day of that year, as civil_from_days has them.
YearOfEra(doe) == (doe - doe \div 1460 + doe \div 36524 - doe \div 146096) \div 365
DayOfYear(doe) ==
    doe - (365 * YearOfEra(doe) + YearOfEra(doe) \div 4 - YearOfEra(doe) \div 100)

\* The closed formulas of civil_from_days find the parts of a day.
LEMMA PartsAreFound ==
  ASSUME NEW doe \in Nat, doe < 146097, NEW c, NEW q, NEW y, NEW d, Parted(doe, c, q, y, d)
  PROVE  YearOfEra(doe) = 100 * c + 4 * q + y /\ DayOfYear(doe) = d
<1> DEFINE s == 365 * y + d
           e == IF 24 * c + q + s >= 1460 THEN 1 ELSE 0
           yoe == 100 * c + 4 * q + y
<1>1. /\ c \in 0 .. 3 /\ q \in 0 .. 24 /\ y \in 0 .. 3 /\ d \in Nat /\ d <= 365
      /\ doe = 36524 * c + 1461 * q + s
      /\ d = 365 => y = 3 /\ (q # 24 \/ c = 3)
  BY DEF Parted, SMT
<1>2. doe \div 1460 = 25 * c + q + e
  <2>1. s \in Nat /\ s <= 1460
    BY <1>1, SMT
  <2> HIDE DEF s
  <2>2. doe = 1460 * (25 * c + q) + (24 * c + q + s)
    BY <1>1, <2>1, SMT
  <2>3. 24 * c + q + s \in Nat /\ 24 * c + q + s <= 1556
    BY <1>1, <2>1, SMT
  <2> QED
    BY <1>1, <2>1, <2>2, <2>3, SMT
<1>3. doe \div 36524 - doe \div 146096 = c
  <2>1. CASE doe = 146096
    BY <1>1, <2>1, SMT
  <2>2. CASE doe # 146096
    <3>1. 1461 * q + s \in Nat /\ 1461 * q + s < 36524
      BY <1>1, <2>2, SMT
    <3>2. doe \div 146096 = 0
      BY <2>2, SMT
    <3>3. doe \div 36524 = c
      BY <1>1, <3>1, SMT
    <3> QED
      BY <1>1, <3>2, <3>3, SMT
  <2> QED
    BY <2>1, <2>2, SMT
<1>4. YearOfEra(doe) = (365 * yoe + (d - e)) \div 365
  <2>1. doe - doe \div 1460 + doe \div 36524 - doe \div 146096 = 365 * yoe + (d - e)
    <3>1. doe \div 1460 \in Int /\ doe \div 36524 \in Int /\ doe \div 146096 \in Int
      BY SMT
    <3> QED
      BY <1>1, <1>2, <1>3, <3>1, SMT
  <2> QED
    BY <2>1, SMT DEF YearOfEra
<1>5. d - e \in Nat /\ d - e <= 364 /\ yoe \in Nat
  BY <1>1, SMT
<1>6. YearOfEra(doe) = yoe
  <2> HIDE DEF e, yoe
  <2> DEFINE f == d - e
  <2>1. f \in Nat /\ f <= 364 /\ YearOfEra(doe) = (365 * yoe + f) \div 365
    BY <1>4, <1>5, SMT
  <2> HIDE DEF f
  <2> QED
    BY <1>5, <2>1, SMT
<1>7. yoe \div 4 = 25 * c + q /\ yoe \div 100 = c
  BY <1>1, SMT
<1> QED
  BY <1>1, <1>6, <1>7, SMT DEF DayOfYear

\* The years that begin in March: the last day of one is the day of a leap year.
LastDay(year) == IF IsLeap(year + 1) THEN 365 ELSE 364

\* The date of a day of such a year.
Dated(year, d) ==
    LET mp == (5 * d + 2) \div 153
        month == IF mp < 10 THEN mp + 3 ELSE mp - 9 IN
    [year |-> year + (IF month <= 2 THEN 1 ELSE 0), month |-> month,
     day |-> d - (153 * mp + 2) \div 5 + 1]

\* Whether a year that begins in March ends with a leap day is seen from its parts.
LEMMA LeapsAreParted ==
  ASSUME NEW era \in Int, NEW c \in 0 .. 3, NEW q \in 0 .. 24, NEW y \in 0 .. 3
  PROVE  LastDay(era * 400 + (100 * c + 4 * q + y))
             = IF y = 3 /\ (q # 24 \/ c = 3) THEN 365 ELSE 364
<1> DEFINE year == era * 400 + (100 * c + 4 * q + y) + 1
           k == era * 100 + 25 * c + q
           h == era * 4 + c
           g == 4 * q + y + 1
           f == 100 * c + g
<1>1. year \in Int /\ k \in Int /\ h \in Int /\ g \in 1 .. 100 /\ f \in Nat /\ f <= 400
  BY SMT
<1>2. year = 4 * k + (y + 1) /\ year = 100 * h + g /\ year = 400 * era + f
  BY SMT
<1>3. year % 4 = IF y = 3 THEN 0 ELSE y + 1
  <2> HIDE DEF year, k
  <2> QED
    BY <1>1, <1>2, SMT
<1>4. year % 100 = IF g = 100 THEN 0 ELSE g
  <2> HIDE DEF year, h, g
  <2> QED
    BY <1>1, <1>2, SMT
<1>5. year % 400 = IF f = 400 THEN 0 ELSE f
  <2> HIDE DEF year, f
  <2> QED
    BY <1>1, <1>2, SMT
<1>6. IsLeap(year) <=> y = 3 /\ (q # 24 \/ c = 3)
  <2>1. (g = 100 <=> q = 24 /\ y = 3) /\ (f = 400 <=> c = 3 /\ g = 100) /\ f # 0
    BY SMT
  <2> HIDE DEF year, f, g
  <2> QED
    BY <1>1, <1>3, <1>4, <1>5, <2>1, SMT DEF IsLeap
<1> QED
  BY <1>6, SMT DEF LastDay

\* The first day of a month, counted from March, and how long it is.
FirstOf(mp) == (153 * mp + 2) \div 5
MonthOf(mp) == IF mp < 10 THEN mp + 3 ELSE mp - 9
YearOf(year, mp) == IF mp < 10 THEN year ELSE year + 1

\* The months of such a year begin where the ones before them end.
LEMMA MonthsAreDays ==
  ASSUME NEW mp \in 0 .. 11, NEW year \in Int
  PROVE  /\ FirstOf(mp) \in Nat /\ FirstOf(mp + 1) \in Nat
         /\ DaysOf(YearOf(year, mp), MonthOf(mp))
              = IF mp = 11 THEN LastDay(year) + 1 - FirstOf(mp)
                ELSE FirstOf(mp + 1) - FirstOf(mp)
<1>1. /\ FirstOf(0) = 0 /\ FirstOf(1) = 31 /\ FirstOf(2) = 61 /\ FirstOf(3) = 92
      /\ FirstOf(4) = 122 /\ FirstOf(5) = 153 /\ FirstOf(6) = 184 /\ FirstOf(7) = 214
      /\ FirstOf(8) = 245 /\ FirstOf(9) = 275 /\ FirstOf(10) = 306 /\ FirstOf(11) = 337
      /\ FirstOf(12) = 367
  BY SMT DEF FirstOf
<1>2. FirstOf(mp) \in Nat /\ FirstOf(mp + 1) \in Nat
  BY <1>1, SMT
<1>3. CASE mp = 11
  <2>1. MonthOf(mp) = 2 /\ YearOf(year, mp) = year + 1
    BY <1>3, SMT DEF MonthOf, YearOf
  <2> QED
    BY <1>1, <1>2, <1>3, <2>1, SMT DEF DaysOf, LastDay
<1>4. CASE mp # 11
  <2>1. MonthOf(mp) # 2
    BY <1>4, SMT DEF MonthOf
  <2>2. MonthOf(mp) \in {4, 6, 9, 11} <=> mp \in {1, 3, 6, 8}
    BY <1>4, SMT DEF MonthOf
  <2>3. FirstOf(mp + 1) - FirstOf(mp) = IF mp \in {1, 3, 6, 8} THEN 30 ELSE 31
    BY <1>1, <1>4, SMT
  <2> QED
    BY <1>2, <1>4, <2>1, <2>2, <2>3, SMT DEF DaysOf
<1> QED
  BY <1>3, <1>4

\* A day between the first of a month and the next belongs to that month.
LEMMA DaysHaveTheirMonth ==
  ASSUME NEW year \in Int, NEW d \in Nat, NEW mp \in 0 .. 11,
         FirstOf(mp) <= d, d < FirstOf(mp + 1)
  PROVE  Dated(year, d) = [year |-> YearOf(year, mp), month |-> MonthOf(mp),
                           day |-> d - FirstOf(mp) + 1]
<1>1. (5 * d + 2) \div 153 = mp
  BY SMT DEF FirstOf
<1> QED
  BY <1>1, SMT DEF Dated, FirstOf, MonthOf, YearOf

\* Each of its days is in one of its months.
LEMMA EveryDayHasAMonth ==
  ASSUME NEW d \in Nat, d <= 365
  PROVE  \E mp \in 0 .. 11 : FirstOf(mp) <= d /\ d < FirstOf(mp + 1)
<1> DEFINE mp == (5 * d + 2) \div 153
<1>1. mp \in Nat /\ 153 * mp <= 5 * d + 2 /\ 5 * d + 2 < 153 * mp + 153
  BY SMT
<1> HIDE DEF mp
<1>2. mp <= 11
  BY <1>1, SMT
<1>3. FirstOf(mp) <= d /\ d < FirstOf(mp + 1)
  BY <1>1, <1>2, SMT DEF FirstOf
<1> QED
  BY <1>1, <1>2, <1>3, SMT

\* The first day of the next month.
LEMMA DatesAreReset ==
  ASSUME NEW y, NEW m \in Int, NEW n, NEW date,
         date = [year |-> y, month |-> m, day |-> n]
  PROVE  [date EXCEPT !.day = 1, !.month = @ + 1] = [year |-> y, month |-> m + 1, day |-> 1]
<1> DEFINE first == [date EXCEPT !.day = 1]
<1>1. first = [year |-> y, month |-> m, day |-> 1]
  OBVIOUS
<1>2. [date EXCEPT !.day = 1, !.month = @ + 1] = [first EXCEPT !.month = @ + 1]
  OBVIOUS
<1> HIDE DEF first
<1>3. [first EXCEPT !.month = @ + 1] = [year |-> y, month |-> m + 1, day |-> 1]
  BY <1>1
<1> QED
  BY <1>2, <1>3

\* The months of such a year follow one another.
LEMMA TheNextDayIsDated ==
  ASSUME NEW year \in Int, NEW d \in Nat, d <= LastDay(year)
  PROVE  DayAfter(Dated(year, d))
             = IF d = LastDay(year) THEN Dated(year + 1, 0) ELSE Dated(year, d + 1)
<1>1. LastDay(year) \in {364, 365}
  BY SMT DEF LastDay
<1>2. PICK mp \in 0 .. 11 : FirstOf(mp) <= d /\ d < FirstOf(mp + 1)
  BY <1>1, EveryDayHasAMonth, SMT
<1> DEFINE days == DaysOf(YearOf(year, mp), MonthOf(mp))
           n == d - FirstOf(mp) + 1
<1>3. Dated(year, d) = [year |-> YearOf(year, mp), month |-> MonthOf(mp), day |-> n]
  BY <1>2, DaysHaveTheirMonth
<1>4. /\ FirstOf(mp) \in Nat /\ FirstOf(mp + 1) \in Nat /\ days \in Int
      /\ days = IF mp = 11 THEN LastDay(year) + 1 - FirstOf(mp)
                ELSE FirstOf(mp + 1) - FirstOf(mp)
  BY <1>1, MonthsAreDays, SMT
<1>5. FirstOf(0) = 0 /\ FirstOf(1) = 31 /\ FirstOf(12) = 367
  BY SMT DEF FirstOf
<1>6. MonthOf(mp) \in 1 .. 12 /\ YearOf(year, mp) \in Int
  BY SMT DEF MonthOf, YearOf
<1> HIDE DEF days
<1>10. [Dated(year, d) EXCEPT !.day = 1, !.month = @ + 1]
        = [year |-> YearOf(year, mp), month |-> MonthOf(mp) + 1, day |-> 1]
  <2> DEFINE date == Dated(year, d)
             y == YearOf(year, mp)
             m == MonthOf(mp)
  <2>1. date = [year |-> y, month |-> m, day |-> n] /\ m \in Int
    BY <1>3, <1>6, SMT
  <2> HIDE DEF date, y, m, n
  <2>2. [date EXCEPT !.day = 1, !.month = @ + 1] = [year |-> y, month |-> m + 1, day |-> 1]
    BY <2>1, DatesAreReset
  <2> QED
    BY <2>2 DEF date, y, m
<1>7. CASE n < days
  <2>1. DayAfter(Dated(year, d))
          = [year |-> YearOf(year, mp), month |-> MonthOf(mp), day |-> n + 1]
    BY <1>3, <1>7, SMT DEF DayAfter, days
  <2>2. d # LastDay(year) /\ d + 1 < FirstOf(mp + 1)
    <3>1. CASE mp = 11
      BY <1>1, <1>4, <1>5, <1>7, <3>1, SMT
    <3>2. CASE mp # 11
      <4>1. FirstOf(mp + 1) <= 337
        BY <3>2, SMT DEF FirstOf
      <4> QED
        BY <1>1, <1>4, <1>7, <3>2, <4>1, SMT
    <3> QED
      BY <3>1, <3>2
  <2>3. Dated(year, d + 1) = [year |-> YearOf(year, mp), month |-> MonthOf(mp),
                              day |-> (d + 1) - FirstOf(mp) + 1]
    BY <1>2, <1>4, <2>2, DaysHaveTheirMonth, SMT
  <2> QED
    BY <1>4, <2>1, <2>2, <2>3, SMT
<1>8. CASE ~(n < days) /\ mp = 11
  <2>1. d = LastDay(year)
    BY <1>1, <1>4, <1>8, SMT
  <2>2. MonthOf(mp) = 2 /\ YearOf(year, mp) = year + 1
    BY <1>8, SMT DEF MonthOf, YearOf
  <2>3. DayAfter(Dated(year, d)) = [year |-> year + 1, month |-> 3, day |-> 1]
    <3>1. DayAfter(Dated(year, d)) = [Dated(year, d) EXCEPT !.day = 1, !.month = @ + 1]
      BY <1>3, <1>8, <2>2, SMT DEF DayAfter, days
    <3> QED
      BY <2>2, <3>1, <1>10, SMT
  <2>4. Dated(year + 1, 0) = [year |-> YearOf(year + 1, 0), month |-> MonthOf(0),
                              day |-> 0 - FirstOf(0) + 1]
    BY <1>5, DaysHaveTheirMonth, SMT
  <2>5. YearOf(year + 1, 0) = year + 1 /\ MonthOf(0) = 3
    BY SMT DEF MonthOf, YearOf
  <2> QED
    BY <1>5, <2>1, <2>3, <2>4, <2>5, SMT
<1>9. CASE ~(n < days) /\ mp # 11
  <2>1. d + 1 = FirstOf(mp + 1)
    BY <1>2, <1>4, <1>9, SMT
  <2>2. FirstOf(mp + 1) < FirstOf((mp + 1) + 1) /\ mp + 1 \in 0 .. 11
    BY <1>9, SMT DEF FirstOf
  <2>3. Dated(year, d + 1) = [year |-> YearOf(year, mp + 1), month |-> MonthOf(mp + 1),
                              day |-> (d + 1) - FirstOf(mp + 1) + 1]
    BY <2>1, <2>2, DaysHaveTheirMonth, SMT
  <2>4. d # LastDay(year)
    <3>1. FirstOf(mp + 1) <= 337
      BY <1>9, SMT DEF FirstOf
    <3> QED
      BY <1>1, <2>1, <3>1, SMT
  <2>5. IF MonthOf(mp) < 12
        THEN MonthOf(mp + 1) = MonthOf(mp) + 1 /\ YearOf(year, mp + 1) = YearOf(year, mp)
        ELSE MonthOf(mp + 1) = 1 /\ YearOf(year, mp + 1) = YearOf(year, mp) + 1
    BY <1>9, SMT DEF MonthOf, YearOf
  <2>6. DayAfter(Dated(year, d))
          = IF MonthOf(mp) < 12
            THEN [year |-> YearOf(year, mp), month |-> MonthOf(mp) + 1, day |-> 1]
            ELSE [year |-> YearOf(year, mp) + 1, month |-> 1, day |-> 1]
    <3>1. DayAfter(Dated(year, d))
            = IF MonthOf(mp) < 12 THEN [Dated(year, d) EXCEPT !.day = 1, !.month = @ + 1]
              ELSE [day |-> 1, month |-> 1, year |-> Dated(year, d).year + 1]
      BY <1>3, <1>9, SMT DEF DayAfter, days
    <3> QED
      BY <1>3, <3>1, <1>10, SMT
  <2>7. (d + 1) - FirstOf(mp + 1) + 1 = 1
    BY <1>4, <2>1, SMT
  <2> QED
    BY <2>3, <2>4, <2>5, <2>6, <2>7, SMT
<1> QED
  BY <1>7, <1>8, <1>9

\* A day, the era it is in and the day of that era.
InEra(day, era, doe) ==
    /\ era \in Int /\ doe \in Nat /\ doe < 146097
    /\ day + 719468 = era * 146097 + doe

\* The eras are counted towards zero, from both sides alike.
EraOf(z) == Quotient(IF z >= 0 THEN z ELSE z - 146096, 146097)

\* The era that is computed is the one a day is in, before the first one too.
LEMMA ErasAreFloors ==
  ASSUME NEW day, NEW era, NEW doe, InEra(day, era, doe)
  PROVE  EraOf(day + 719468) = era
<1> DEFINE z == day + 719468
<1>3. era \in Int /\ doe \in Nat /\ doe < 146097 /\ z = era * 146097 + doe /\ z \in Int
  BY SMT DEF InEra
<1> SUFFICES EraOf(z) = era
  BY SMT
<1> HIDE DEF z
<1>1. CASE era >= 0
  <2>1. z >= 0
    BY <1>1, <1>3, SMT
  <2>2. z \div 146097 = era
    BY <1>1, <1>3, SMT
  <2> QED
    BY <1>3, <2>1, <2>2, SMT DEF Quotient, EraOf
<1>2. CASE era < 0
  <2>1. z < 0 /\ z - 146096 < 0
    BY <1>2, <1>3, SMT
  <2> DEFINE k == -era
             r == 146096 - doe
  <2>2. k \in Nat /\ r \in Nat /\ r < 146097 /\ -(z - 146096) = k * 146097 + r
    BY <1>2, <1>3, SMT
  <2>3. (k * 146097 + r) \div 146097 = k
    <3> HIDE DEF k, r
    <3> QED
      BY <2>2, SMT
  <2>4. Quotient(z - 146096, 146097) = -k
    BY <1>3, <2>1, <2>2, <2>3, SMT DEF Quotient, EraOf
  <2> QED
    BY <1>3, <2>1, <2>2, <2>4, SMT DEF EraOf
<1> QED
  BY <1>1, <1>2, <1>3, SMT

\* Each day is in an era.
LEMMA EveryDayHasAnEra ==
  ASSUME NEW day \in Int
  PROVE  \E era, doe : InEra(day, era, doe)
<1> DEFINE z == day + 719468
           era == z \div 146097
           doe == z % 146097
<1>1. z \in Int
  BY SMT
<1>2. era \in Int /\ doe \in Nat /\ doe < 146097 /\ z = era * 146097 + doe
  <2> HIDE DEF z
  <2>1. era \in Int /\ doe \in Nat /\ doe < 146097
    BY <1>1, SMT
  <2>2. z = era * 146097 + doe
    BY <1>1, SMT
  <2> QED
    BY <2>1, <2>2, SMT
<1> HIDE DEF era, doe
<1>3. InEra(day, era, doe)
  BY <1>2, SMT DEF InEra
<1> QED
  BY <1>3, SMT

\* The date of a day, from its parts.
LEMMA DaysAreDated ==
  ASSUME NEW day \in Int, NEW era, NEW doe, InEra(day, era, doe),
         NEW c, NEW q, NEW y, NEW d, Parted(doe, c, q, y, d)
  PROVE  civil_from_days(day) = Dated(era * 400 + (100 * c + 4 * q + y), d)
<1> DEFINE z == day + 719468
           yoe == 100 * c + 4 * q + y
<1>1. /\ era \in Int /\ doe \in Nat /\ doe < 146097 /\ z \in Int
      /\ z = era * 146097 + doe
  BY SMT DEF InEra
<1>2. z - era * 146097 = doe
  BY <1>1, SMT
<1>3. YearOfEra(doe) = yoe /\ DayOfYear(doe) = d
  BY <1>1, PartsAreFound, SMT
<1>4. EraOf(z) = era
  BY ErasAreFloors, SMT
<1> DEFINE date(e, n, doy) ==
             LET mp == (5 * doy + 2) \div 153
                 month == IF mp < 10 THEN mp + 3 ELSE mp - 9 IN
             [year |-> n + e * 400 + (IF month <= 2 THEN 1 ELSE 0), month |-> month,
              day |-> doy - (153 * mp + 2) \div 5 + 1]
<1>5. civil_from_days(day) = date(era, YearOfEra(doe), DayOfYear(doe))
  <2>1. civil_from_days(day)
          = LET e == EraOf(z)
                n == z - e * 146097 IN
            date(e, YearOfEra(n), DayOfYear(n))
    BY SMT DEF civil_from_days, EraOf, YearOfEra, DayOfYear
  <2> HIDE DEF date, z
  <2> QED
    BY <1>2, <1>4, <2>1, SMT
<1>6. yoe \in Int
  BY SMT DEF Parted
<1>7. date(era, yoe, d) = Dated(era * 400 + yoe, d)
  <2> HIDE DEF yoe
  <2> QED
    BY <1>1, <1>6, SMT DEF Dated
<1> QED
  BY <1>3, <1>5, <1>7, SMT

\* Of every day there is, before and after the turn of an era.
THEOREM TheNextDayIsNext ==
  ASSUME NEW day \in Int
  PROVE  civil_from_days(day + 1) = DayAfter(civil_from_days(day))
<1>1. PICK era, doe : InEra(day, era, doe)
  BY EveryDayHasAnEra, SMT
<1>11. era \in Int /\ doe \in Nat /\ doe < 146097 /\ day + 719468 = era * 146097 + doe
  BY <1>1, SMT DEF InEra
<1>2. PICK c, q, y, d : Parted(doe, c, q, y, d)
  BY <1>11, DaysArePartedOnce, SMT
<1> DEFINE year == era * 400 + (100 * c + 4 * q + y)
<1>3. /\ c \in 0 .. 3 /\ q \in 0 .. 24 /\ y \in 0 .. 3 /\ d \in Nat /\ d <= 365
      /\ doe = 36524 * c + 1461 * q + 365 * y + d
      /\ d = 365 => y = 3 /\ (q # 24 \/ c = 3)
  BY <1>2, SMT DEF Parted
<1>4. year \in Int
  BY <1>3, <1>11, SMT
<1>5. LastDay(year) = IF y = 3 /\ (q # 24 \/ c = 3) THEN 365 ELSE 364
  BY <1>3, <1>11, LeapsAreParted, SMT
<1>6. civil_from_days(day) = Dated(year, d)
  BY <1>1, <1>2, DaysAreDated, SMT
<1>7. d <= LastDay(year)
  <2> HIDE DEF year
  <2> QED
    BY <1>3, <1>5, SMT
<1>8. DayAfter(Dated(year, d))
        = IF d = LastDay(year) THEN Dated(year + 1, 0) ELSE Dated(year, d + 1)
  BY <1>3, <1>4, <1>7, TheNextDayIsDated, SMT
<1>12. day + 1 \in Int
  BY SMT
<1>9. CASE d # LastDay(year)
  <2>1. Parted(doe + 1, c, q, y, d + 1) /\ InEra(day + 1, era, doe + 1)
    <3> HIDE DEF year
    <3>1. Parted(doe + 1, c, q, y, d + 1)
      BY <1>3, <1>5, <1>7, <1>9, SMT DEF Parted
    <3>2. doe + 1 < 146097
      BY <1>3, <1>5, <1>7, <1>9, <1>11, SMT
    <3> QED
      BY <1>11, <3>1, <3>2, SMT DEF InEra
  <2>2. civil_from_days(day + 1) = Dated(year, d + 1)
    BY <1>12, <2>1, DaysAreDated, SMT
  <2> QED
    BY <1>6, <1>8, <1>9, <2>2, SMT
<1>10. CASE d = LastDay(year)
  <2>1. \E e, n, k, r, x : InEra(day + 1, e, n) /\ Parted(n, k, r, x, 0)
                           /\ e * 400 + (100 * k + 4 * r + x) = year + 1
    <3>1. CASE y # 3
      <4>1. Parted(doe + 1, c, q, y + 1, 0) /\ InEra(day + 1, era, doe + 1)
        BY <1>3, <1>5, <1>10, <1>11, <3>1, SMT DEF Parted, InEra
      <4>2. era * 400 + (100 * c + 4 * q + (y + 1)) = year + 1
        BY <1>3, <1>11, SMT
      <4> QED
        BY <4>1, <4>2, SMT
    <3>2. CASE y = 3 /\ q # 24
      <4>1. Parted(doe + 1, c, q + 1, 0, 0) /\ InEra(day + 1, era, doe + 1)
        BY <1>3, <1>5, <1>10, <1>11, <3>2, SMT DEF Parted, InEra
      <4>2. era * 400 + (100 * c + 4 * (q + 1) + 0) = year + 1
        BY <1>3, <1>11, <3>2, SMT
      <4> QED
        BY <4>1, <4>2, SMT
    <3>3. CASE y = 3 /\ q = 24 /\ c # 3
      <4>1. Parted(doe + 1, c + 1, 0, 0, 0) /\ InEra(day + 1, era, doe + 1)
        BY <1>3, <1>5, <1>10, <1>11, <3>3, SMT DEF Parted, InEra
      <4>2. era * 400 + (100 * (c + 1) + 4 * 0 + 0) = year + 1
        BY <1>3, <1>11, <3>3, SMT
      <4> QED
        BY <4>1, <4>2, SMT
    <3>4. CASE y = 3 /\ q = 24 /\ c = 3
      <4>1. doe = 146096
        BY <1>3, <1>5, <1>10, <3>4, SMT
      <4>2. Parted(0, 0, 0, 0, 0) /\ InEra(day + 1, era + 1, 0)
        BY <1>11, <4>1, SMT DEF Parted, InEra
      <4>3. (era + 1) * 400 + (100 * 0 + 4 * 0 + 0) = year + 1
        BY <1>3, <1>11, <3>4, SMT
      <4> QED
        BY <4>2, <4>3, SMT
    <3> QED
      BY <1>3, <3>1, <3>2, <3>3, <3>4, SMT
  <2>2. PICK e, n, k, r, x : InEra(day + 1, e, n) /\ Parted(n, k, r, x, 0)
                             /\ e * 400 + (100 * k + 4 * r + x) = year + 1
    BY <2>1, SMT
  <2>3. civil_from_days(day + 1) = Dated(year + 1, 0)
    <3>1. civil_from_days(day + 1) = Dated(e * 400 + (100 * k + 4 * r + x), 0)
      BY <1>12, <2>2, DaysAreDated, SMT
    <3> QED
      BY <2>2, <3>1, SMT
  <2> QED
    BY <1>6, <1>8, <1>10, <2>3, SMT
<1> QED
  BY <1>9, <1>10, SMT

\* Four hundred years are an era.
LEMMA ErasAreAlike ==
  ASSUME NEW day \in Int
  PROVE  civil_from_days(day + 146097) = [civil_from_days(day) EXCEPT !.year = @ + 400]
<1>1. PICK era, doe : InEra(day, era, doe)
  BY EveryDayHasAnEra, SMT
<1>2. PICK c, q, y, d : Parted(doe, c, q, y, d)
  BY <1>1, DaysArePartedOnce, SMT DEF InEra
<1>3. day + 146097 \in Int /\ InEra(day + 146097, era + 1, doe) /\ era \in Int
  BY <1>1, SMT DEF InEra
<1> DEFINE yoe == 100 * c + 4 * q + y
<1>4. civil_from_days(day) = Dated(era * 400 + yoe, d)
  BY <1>1, <1>2, DaysAreDated, SMT
<1>5. civil_from_days(day + 146097) = Dated((era + 1) * 400 + yoe, d)
  BY <1>2, <1>3, DaysAreDated, SMT
<1>6. yoe \in Int
  BY <1>2, SMT DEF Parted
<1>7. Dated((era + 1) * 400 + yoe, d) = [Dated(era * 400 + yoe, d) EXCEPT !.year = @ + 400]
  <2> HIDE DEF yoe
  <2> QED
    BY <1>3, <1>6, SMT DEF Dated
<1> QED
  BY <1>4, <1>5, <1>7, SMT

\* The epoch is a Thursday, 1970-01-01.
LEMMA TheEpochIsDated ==
  civil_from_days(0) = [year |-> 1970, month |-> 1, day |-> 1] /\ weekday(0) = 4
<1>1. InEra(0, 4, 135080) /\ Parted(135080, 3, 17, 1, 306)
  BY SMT DEF InEra, Parted
<1>2. civil_from_days(0) = Dated(4 * 400 + (100 * 3 + 4 * 17 + 1), 306)
  BY <1>1, DaysAreDated, SMT
<1> QED
  BY <1>2, SMT DEF Dated, weekday

\* Weekdays follow one another.
LEMMA WeekdaysFollow ==
  ASSUME NEW day \in Int
  PROVE  weekday(day + 1) = (weekday(day) + 1) % 7
  BY SMT DEF weekday
-----------------------------------------------------------------------------
(* Ranges of dates and of times.                                           *)

\* A range of numbers of days of the year is one of dates going forward.
LEMMA RangesGoForward ==
  ASSUME NEW m1 \in 1 .. 12, NEW d1 \in 1 .. 31, NEW m2 \in 1 .. 12, NEW d2 \in 1 .. 31,
         NEW m \in 1 .. 12, NEW d \in 1 .. 31
  PROVE  in_cyclic_range(m * 100 + d, m1 * 100 + d1, m2 * 100 + d2)
           <=> ((m - m1) * 31 + d - d1) % 372 <= ((m2 - m1) * 31 + d2 - d1) % 372
<1> DEFINE a == (m - m1) * 31 + d - d1
           b == (m2 - m1) * 31 + d2 - d1
<1>1. a \in Int /\ b \in Int /\ a < 372 /\ b < 372 /\ -372 < a /\ -372 < b
  BY SMT
<1>2. /\ a % 372 = IF a >= 0 THEN a ELSE a + 372
      /\ b % 372 = IF b >= 0 THEN b ELSE b + 372
  <2> HIDE DEF a, b
  <2> QED
    BY <1>1, SMT
<1>3. /\ (a >= 0 <=> m1 * 100 + d1 <= m * 100 + d)
      /\ (b >= 0 <=> m1 * 100 + d1 <= m2 * 100 + d2)
      /\ (a <= b <=> m * 100 + d <= m2 * 100 + d2)
  BY SMT
<1> QED
  BY <1>1, <1>2, <1>3, SMT DEF in_cyclic_range

\* date_range of two dates without a year holds what comes before its last one.
LEMMA DatesGoForward ==
  ASSUME NEW from \in Days, NEW to \in Days, NEW d \in Days
  PROVE  date_range(<<<<"day", from.day>>, <<"month", from.month>>,
                      <<"day", to.day>>, <<"month", to.month>>>>, d)
           <=> ComesBefore(from, to, d)
<1> DEFINE parts == <<<<"day", from.day>>, <<"month", from.month>>,
                      <<"day", to.day>>, <<"month", to.month>>>>
           units == [i \in 1 .. Len(parts) |-> parts[i][1]]
<1>1. Len(parts) = 4 /\ units = <<"day", "month", "day", "month">>
  OBVIOUS
<1>2. /\ parts[1][2] = from.day /\ parts[2][2] = from.month
      /\ parts[3][2] = to.day /\ parts[4][2] = to.month
  OBVIOUS
<1>3. date_range(parts, d)
        = in_cyclic_range(d.month * 100 + d.day, from.month * 100 + from.day,
                          to.month * 100 + to.day)
  <2> HIDE DEF parts
  <2>1. /\ units # <<"month", "year", "month", "year">>
        /\ units # <<"day", "month", "year", "day", "month", "year">>
    BY <1>1
  <2>2. date_range(parts, d) = in_cyclic_range(d.month * 100 + d.day,
           parts[2][2] * 100 + parts[1][2], parts[4][2] * 100 + parts[3][2])
    BY <1>1, <2>1 DEF date_range
  <2> QED
    BY <1>2, <2>2
<1>4. /\ from.month \in 1 .. 12 /\ from.day \in 1 .. 31
      /\ to.month \in 1 .. 12 /\ to.day \in 1 .. 31
      /\ d.month \in 1 .. 12 /\ d.day \in 1 .. 31
  BY DEF Days
<1>5. in_cyclic_range(d.month * 100 + d.day, from.month * 100 + from.day,
                      to.month * 100 + to.day)
        <=> ComesBefore(from, to, d)
  BY <1>4, RangesGoForward DEF ComesBefore, Ahead
<1> QED
  BY <1>3, <1>5

\* A time of the day.
Times == [hour : 0 .. 23, minute : 0 .. 59, second : 0 .. 59]
SecondsOf(h, m, s) == h * 3600 + m * 60 + s

\* A range of seconds of the day is what the clock reaches before it leaves it.
LEMMA ClocksGoForward ==
  ASSUME NEW a \in Nat, a < 86400, NEW b \in Nat, b < 86400, NEW n \in Nat, n < 86400
  PROVE  in_cyclic_range(n, a, b) <=> (n - a) % 86400 <= (b - a) % 86400
<1>1. /\ (n - a) % 86400 = IF n >= a THEN n - a ELSE n - a + 86400
      /\ (b - a) % 86400 = IF b >= a THEN b - a ELSE b - a + 86400
  BY SMT
<1> QED
  BY <1>1, SMT DEF in_cyclic_range

\* A time of the day is a second of it.
LEMMA TimesAreSeconds ==
  ASSUME NEW c \in Times
  PROVE  /\ SecondsOf(c.hour, c.minute, c.second) \in Nat
         /\ SecondsOf(c.hour, c.minute, c.second) < 86400
<1> DEFINE h == c.hour
           m == c.minute
           s == c.second
<1>1. /\ h \in Nat /\ m \in Nat /\ s \in Nat /\ h <= 23 /\ m <= 59 /\ s <= 59
  BY SMT DEF Times
<1> HIDE DEF h, m, s
<1>2. SecondsOf(h, m, s) \in Nat /\ SecondsOf(h, m, s) < 86400
  BY <1>1, SMT DEF SecondsOf
<1> QED
  BY <1>2, SMT DEF h, m, s

\* So is one between two times of the day.
LEMMA TimesReach ==
  ASSUME NEW from \in Times, NEW to \in Times, NEW c \in Times
  PROVE  in_cyclic_range(SecondsOf(c.hour, c.minute, c.second),
                         SecondsOf(from.hour, from.minute, from.second),
                         SecondsOf(to.hour, to.minute, to.second))
           <=> ClockReaches(from, to, c)
<1> DEFINE n == SecondsOf(c.hour, c.minute, c.second)
           a == SecondsOf(from.hour, from.minute, from.second)
           b == SecondsOf(to.hour, to.minute, to.second)
<1>1. /\ n \in Nat /\ n < 86400 /\ a \in Nat /\ a < 86400 /\ b \in Nat /\ b < 86400
  BY TimesAreSeconds, SMT
<1>2. /\ c.hour \in Int /\ c.minute \in Int /\ c.second \in Int
      /\ from.hour \in Int /\ from.minute \in Int /\ from.second \in Int
      /\ to.hour \in Int /\ to.minute \in Int /\ to.second \in Int
  BY SMT DEF Times
<1>3. Until(from, c) = (n - a) % 86400 /\ Until(from, to) = (b - a) % 86400
  <2>1. /\ (c.hour - from.hour) * 3600 + (c.minute - from.minute) * 60
             + c.second - from.second = n - a
        /\ (to.hour - from.hour) * 3600 + (to.minute - from.minute) * 60
             + to.second - from.second = b - a
    BY <1>2, SMT DEF SecondsOf
  <2> QED
    BY <2>1, SMT DEF Until
<1> HIDE DEF a, b, n
<1>4. in_cyclic_range(n, a, b) <=> ClockReaches(from, to, c)
  BY <1>1, <1>3, ClocksGoForward, SMT DEF ClockReaches
<1> QED
  BY <1>4 DEF a, b, n

\* time_range of four or six parts holds what the clock reaches.
LEMMA HoursReach ==
  ASSUME NEW from \in Times, NEW to \in Times, NEW c \in Times
  PROVE  /\ time_range(<<from.hour, from.minute, from.second,
                         to.hour, to.minute, to.second>>, c) <=> ClockReaches(from, to, c)
         /\ time_range(<<from.hour, from.minute, to.hour, to.minute>>, c)
              <=> ClockReaches([from EXCEPT !.second = 0], [to EXCEPT !.second = 59], c)
<1>1. time_range(<<from.hour, from.minute, from.second, to.hour, to.minute, to.second>>, c)
        = in_cyclic_range(SecondsOf(c.hour, c.minute, c.second),
                          SecondsOf(from.hour, from.minute, from.second),
                          SecondsOf(to.hour, to.minute, to.second))
  BY DEF time_range, SecondsOf
<1>2. time_range(<<from.hour, from.minute, to.hour, to.minute>>, c)
        = in_cyclic_range(SecondsOf(c.hour, c.minute, c.second),
                          SecondsOf(from.hour, from.minute, 0),
                          SecondsOf(to.hour, to.minute, 59))
  BY DEF time_range, SecondsOf
<1> DEFINE first == [from EXCEPT !.second = 0]
           last == [to EXCEPT !.second = 59]
<1>3. /\ first \in Times /\ last \in Times
      /\ first.hour = from.hour /\ first.minute = from.minute /\ first.second = 0
      /\ last.hour = to.hour /\ last.minute = to.minute /\ last.second = 59
  BY SMT DEF Times
<1> HIDE DEF first, last
<1>4. in_cyclic_range(SecondsOf(c.hour, c.minute, c.second),
                      SecondsOf(from.hour, from.minute, 0),
                      SecondsOf(to.hour, to.minute, 59)) <=> ClockReaches(first, last, c)
  <2>1. in_cyclic_range(SecondsOf(c.hour, c.minute, c.second),
                        SecondsOf(first.hour, first.minute, first.second),
                        SecondsOf(last.hour, last.minute, last.second))
          <=> ClockReaches(first, last, c)
    BY <1>3, TimesReach
  <2> QED
    BY <1>3, <2>1
<1> QED
  BY <1>1, <1>2, <1>4, TimesReach DEF first, last
-----------------------------------------------------------------------------
(* The chain.                                                              *)

\* The walk over the steps takes them one after another.
Stepped(chain, s) == IF s = "none" THEN chain ELSE push(chain, s)

\* The fold runs through the chains of the first steps.
LEMMA ChainRuns ==
  ASSUME NEW P, NEW steps \in Seq(P)
  PROVE  \E run : /\ run[0] = <<>>
                  /\ \A k \in 1 .. Len(steps) : run[k] = Stepped(run[k - 1], steps[k])
                  /\ \A k \in 0 .. Len(steps) : run[k] \in Seq(P)
                  /\ Chained(steps) = run[Len(steps)]
<1> DEFINE n == Len(steps)
           V == Seq(P)
           base == <<>>
           F == [x \in V \X (1 .. n) |-> Stepped(x[1], steps[x[2]])]
           Is(iter) == iter = [s \in SUBSET (1 .. n) |->
                                  IF s = {} THEN base
                                  ELSE Stepped(iter[s \ {Max(s)}], steps[Max(s)])]
           it == CHOOSE iter : Is(iter)
<1>1. n \in Nat /\ DOMAIN steps = 1 .. n /\ \A i \in 1 .. n : steps[i] \in P
  OBVIOUS
<1>2. base \in V
  OBVIOUS
<1>3. \A v \in V, p \in P : Stepped(v, p) \in V
  BY DEF Stepped, push
<1> HIDE DEF V, base, n
<1>4. F \in [V \X (1 .. n) -> V]
  BY <1>1, <1>3
<1>5. PICK iter \in [SUBSET (1 .. n) -> V] : Runs(iter, n, base, F)
  <2> HIDE DEF F
  <2> QED
    BY <1>1, <1>2, <1>4, RunExists
<1>6. Is(iter)
  <2> SUFFICES ASSUME NEW s \in SUBSET (1 .. n)
               PROVE  iter[s] = IF s = {} THEN base
                                ELSE Stepped(iter[s \ {Max(s)}], steps[Max(s)])
    OBVIOUS
  <2>1. CASE s = {}
    BY <1>5, <2>1 DEF Runs
  <2>2. CASE s # {}
    <3>1. Max(s) \in 1 .. n
      BY <1>1, <2>2, GreatestIs
    <3>2. iter[s \ {Max(s)}] \in V
      BY <1>5
    <3>3. <<iter[s \ {Max(s)}], Max(s)>> \in V \X (1 .. n)
      BY <3>1, <3>2
    <3>4. iter[s] = F[<<iter[s \ {Max(s)}], Max(s)>>]
      BY <1>5, <2>2 DEF Runs
    <3> QED
      BY <2>2, <3>3, <3>4
  <2> QED
    BY <2>1, <2>2
<1>7. Is(it)
  <2> HIDE DEF Is
  <2> QED
    BY <1>6, Zenon
<1>8. Chained(steps) = it[1 .. n]
  BY <1>1 DEF Chained, FoldLeft, MapThenFoldSet, Max, Stepped, base
<1> DEFINE run == [k \in 0 .. n |-> it[1 .. k]]
<1>9. run[0] = base /\ \A k \in 1 .. n : run[k] = Stepped(run[k - 1], steps[k])
  <2>1. \A s \in SUBSET (1 .. n) :
            it[s] = IF s = {} THEN base ELSE Stepped(it[s \ {Max(s)}], steps[Max(s)])
    <3>1. it = [s \in SUBSET (1 .. n) |->
                   IF s = {} THEN base ELSE Stepped(it[s \ {Max(s)}], steps[Max(s)])]
      <4> HIDE DEF it
      <4> QED
        BY <1>7
    <3> HIDE DEF it
    <3> QED
      BY <3>1
  <2> HIDE DEF it
  <2>2. run[0] = base
    <3>1. 1 .. 0 = {} /\ {} \in SUBSET (1 .. n)
      OBVIOUS
    <3>2. run[0] = it[{}]
      BY <1>1, <3>1
    <3>3. it[{}] = base
      <4> HIDE DEF run, base
      <4> QED
        BY <2>1, <3>1
    <3> QED
      BY <3>2, <3>3
  <2>3. ASSUME NEW k \in 1 .. n
        PROVE  run[k] = Stepped(run[k - 1], steps[k])
    <3>1. /\ 1 .. k \in SUBSET (1 .. n) /\ 1 .. k # {} /\ (1 .. k) \ {k} = 1 .. (k - 1)
          /\ k \in 1 .. k /\ \A j \in 1 .. k : k >= j
      BY <1>1
    <3>2. Max(1 .. k) = k
      BY <1>1, <3>1, SelectedLast
    <3>3. run[k] = it[1 .. k] /\ run[k - 1] = it[1 .. (k - 1)]
      BY <1>1
    <3> QED
      BY <2>1, <3>1, <3>2, <3>3
  <2> QED
    BY <2>2, <2>3
<1>10. run[n] = it[1 .. n]
  BY <1>1
<1> HIDE DEF run, it
<1>11. \A k \in 0 .. n : run[k] \in V
  <2> DEFINE G == {k \in 0 .. n : run[k] \in V}
  <2>1. 0 \in G
    BY <1>1, <1>2, <1>9
  <2>2. \A k \in 1 .. n : k - 1 \in G => k \in G
    BY <1>1, <1>3, <1>9
  <2>3. \A k \in 0 .. n : k \in G
    <3> HIDE DEF G
    <3> QED
      BY <1>1, <2>1, <2>2, Climbs
  <2> QED
    BY <2>3
<1> QED
  BY <1>8, <1>9, <1>10, <1>11 DEF V, base, n

\* The positions a step is named at first, those of them a chain keeps, and how
\* many of those come before.
Firsts(steps) ==
    {i \in 1 .. Len(steps) : steps[i] # "none" /\ \A j \in 1 .. i - 1 : steps[j] # steps[i]}
KeptOf(steps) ==
    {i \in Firsts(steps) : Cardinality({j \in Firsts(steps) : j < i}) < MaxChain}
Before(I, k) == {j \in I : j < k}
Rank(I, k) == Cardinality(Before(I, k))

\* A rank is a number.
LEMMA RanksAreNumbers ==
  ASSUME NEW n \in Nat, NEW I \in SUBSET (1 .. n), NEW k \in 1 .. n + 1
  PROVE  IsFiniteSet(Before(I, k)) /\ Rank(I, k) \in Nat
<1>1. IsFiniteSet(1 .. n)
  BY FS_Interval
<1>2. Before(I, k) \in SUBSET (1 .. n)
  BY DEF Before
<1>3. IsFiniteSet(Before(I, k))
  BY <1>1, <1>2, FS_Subset
<1> QED
  BY <1>3, FS_CardinalityType DEF Rank

\* One more position counts if it is in the set.
LEMMA RanksCount ==
  ASSUME NEW n \in Nat, NEW I \in SUBSET (1 .. n), NEW k \in 1 .. n
  PROVE  Rank(I, k + 1) = IF k \in I THEN Rank(I, k) + 1 ELSE Rank(I, k)
<1>1. IsFiniteSet(Before(I, k))
  BY RanksAreNumbers
<1>4. \A j \in I : j \in Int /\ (j < k + 1 <=> j < k \/ j = k)
  OBVIOUS
<1>2. CASE k \in I
  <2>1. Before(I, k + 1) = Before(I, k) \cup {k} /\ k \notin Before(I, k)
    <3>1. ~(k < k)
      OBVIOUS
    <3>2. \A j : j \in Before(I, k + 1) <=> j \in Before(I, k) \cup {k}
      BY <1>2, <1>4 DEF Before
    <3> QED
      BY <3>1, <3>2 DEF Before
  <2> QED
    BY <1>1, <1>2, <2>1, FS_AddElement DEF Rank
<1>3. CASE k \notin I
  <2>1. Before(I, k + 1) = Before(I, k)
    BY <1>3, <1>4 DEF Before
  <2> QED
    BY <1>3, <2>1 DEF Rank
<1> QED
  BY <1>2, <1>3

\* The ranks of positions grow with them.
LEMMA RanksGrow ==
  ASSUME NEW n \in Nat, NEW I \in SUBSET (1 .. n), NEW i \in I, NEW k \in 1 .. n + 1, i < k
  PROVE  Rank(I, i) < Rank(I, k)
<1>1. i \in 1 .. n /\ i \in 1 .. n + 1 /\ i + 1 \in 1 .. n + 1
  OBVIOUS
<1>2. Rank(I, i + 1) = Rank(I, i) + 1
  BY <1>1, RanksCount
<1>6. \A j \in I : j \in Int /\ (j < i + 1 => j < k)
  OBVIOUS
<1>3. Before(I, i + 1) \in SUBSET Before(I, k)
  BY <1>6 DEF Before
<1>4. IsFiniteSet(Before(I, k)) /\ Rank(I, k) \in Nat /\ Rank(I, i) \in Nat
  BY <1>1, RanksAreNumbers
<1>5. Rank(I, i + 1) <= Rank(I, k)
  BY <1>3, <1>4, FS_Subset DEF Rank
<1> QED
  BY <1>2, <1>4, <1>5

\* And tell them apart.
LEMMA RanksTell ==
  ASSUME NEW n \in Nat, NEW I \in SUBSET (1 .. n), NEW i \in I, NEW j \in I,
         Rank(I, i) = Rank(I, j)
  PROVE  i = j
<1>1. Rank(I, i) \in Nat /\ Rank(I, j) \in Nat /\ i \in Nat /\ j \in Nat
      /\ i \in 1 .. n + 1 /\ j \in 1 .. n + 1
  BY RanksAreNumbers
<1>2. ~(i < j)
  BY <1>1, RanksGrow
<1>3. ~(j < i)
  BY <1>1, RanksGrow
<1> QED
  BY <1>1, <1>2, <1>3

\* What a chain holds after k steps: what it keeps of them, each in its place.
ChainHas(steps, chain, k) ==
    /\ Len(chain) = Rank(KeptOf(steps), k + 1)
    /\ \A m \in 1 .. Len(chain) : \E i \in KeptOf(steps) :
           i <= k /\ Rank(KeptOf(steps), i) = m - 1 /\ chain[m] = steps[i]
    /\ \A i \in KeptOf(steps) : i <= k => \E m \in 1 .. Len(chain) : chain[m] = steps[i]
    /\ Len(chain) < MaxChain => \A i \in Firsts(steps) : i <= k => i \in KeptOf(steps)

\* One more step leaves in the chain what is kept of the steps so far.
LEMMA StepsAreKept ==
  ASSUME NEW P, NEW steps \in Seq(P), NEW k \in 1 .. Len(steps),
         NEW chain \in Seq(P), ChainHas(steps, chain, k - 1)
  PROVE  ChainHas(steps, Stepped(chain, steps[k]), k)
<1> DEFINE n == Len(steps)
           kept == KeptOf(steps)
           firsts == Firsts(steps)
           next == Stepped(chain, steps[k])
           s == steps[k]
<1>1. /\ n \in Nat /\ k \in 1 .. n /\ k \in Nat /\ k - 1 + 1 = k /\ MaxChain \in Nat
      /\ Len(chain) \in Nat /\ k \in 1 .. n + 1 /\ k + 1 \in 1 .. n + 1
  BY BoundsAssumption
<1>2. firsts \in SUBSET (1 .. n) /\ kept \in SUBSET firsts /\ kept \in SUBSET (1 .. n)
  BY DEF Firsts, KeptOf
<1>3. k \in kept <=> k \in firsts /\ Rank(firsts, k) < MaxChain
  BY DEF KeptOf, Rank, Before
<1>4. /\ Len(chain) = Rank(kept, k)
      /\ \A m \in 1 .. Len(chain) : \E i \in kept :
             i <= k - 1 /\ Rank(kept, i) = m - 1 /\ chain[m] = steps[i]
      /\ \A i \in kept : i <= k - 1 => \E m \in 1 .. Len(chain) : chain[m] = steps[i]
      /\ Len(chain) < MaxChain => \A i \in firsts : i <= k - 1 => i \in kept
  BY <1>1 DEF ChainHas
<1>5. Rank(kept, k + 1) = IF k \in kept THEN Rank(kept, k) + 1 ELSE Rank(kept, k)
  BY <1>1, <1>2, RanksCount
<1>6. k \in firsts <=> s # "none" /\ \A j \in 1 .. k - 1 : steps[j] # s
  BY <1>1 DEF Firsts
<1>7. \A i \in firsts : i \in Int /\ (i <= k <=> i <= k - 1 \/ i = k) /\ (i < k <=> i <= k - 1)
  BY <1>1, <1>2
<1> HIDE DEF n, kept, firsts
<1>8. CASE s = "none" \/ Contains(chain, s) \/ Len(chain) >= MaxChain
  <2>1. next = chain
    BY <1>1, <1>8 DEF Stepped, push
  <2>2. k \notin kept
    <3>1. CASE s = "none"
      BY <1>3, <1>6, <3>1
    <3>2. CASE Contains(chain, s)
      <4>1. PICK m \in 1 .. Len(chain) : chain[m] = s
        BY <3>2 DEF Contains
      <4>2. PICK i \in kept : i <= k - 1 /\ chain[m] = steps[i]
        BY <1>4
      <4>3. i \in 1 .. k - 1 /\ steps[i] = s
        BY <1>1, <1>2, <1>7, <4>1, <4>2
      <4> QED
        BY <1>3, <1>6, <4>3
    <3>3. CASE Len(chain) >= MaxChain
      <4>1. Before(kept, k) \in SUBSET Before(firsts, k)
        BY <1>2 DEF Before
      <4>2. Rank(kept, k) <= Rank(firsts, k)
        BY <1>1, <1>2, <4>1, RanksAreNumbers, FS_Subset DEF Rank
      <4>3. Rank(firsts, k) \in Nat /\ Rank(kept, k) \in Nat
        BY <1>1, <1>2, RanksAreNumbers
      <4> QED
        BY <1>1, <1>3, <1>4, <3>3, <4>2, <4>3
    <3> QED
      BY <1>8, <3>1, <3>2, <3>3
  <2>3. Len(chain) < MaxChain => k \notin firsts
    <3> SUFFICES ASSUME Len(chain) < MaxChain, k \in firsts
                 PROVE  FALSE
      OBVIOUS
    <3>1. Before(firsts, k) = Before(kept, k)
      BY <1>2, <1>4, <1>7 DEF Before
    <3>2. Rank(firsts, k) = Len(chain)
      BY <1>4, <3>1 DEF Rank
    <3> QED
      BY <1>3, <2>2, <3>2
  <2>4. /\ Len(chain) = Rank(kept, k + 1)
        /\ \A m \in 1 .. Len(chain) : \E i \in kept :
               i <= k /\ Rank(kept, i) = m - 1 /\ chain[m] = steps[i]
        /\ \A i \in kept : i <= k => \E m \in 1 .. Len(chain) : chain[m] = steps[i]
        /\ Len(chain) < MaxChain => \A i \in firsts : i <= k => i \in kept
    BY <1>2, <1>4, <1>5, <1>7, <2>2, <2>3
  <2> QED
    BY <2>1, <2>4 DEF ChainHas, kept, firsts
<1>9. CASE ~(s = "none" \/ Contains(chain, s) \/ Len(chain) >= MaxChain)
  <2>1. next = Append(chain, s) /\ Len(chain) < MaxChain
    BY <1>1, <1>9 DEF Stepped, push
  <2>2. \A m \in 1 .. Len(chain) : chain[m] # s
    BY <1>9 DEF Contains
  <2>3. k \in firsts
    <3> SUFFICES ASSUME k \notin firsts
                 PROVE  FALSE
      OBVIOUS
    <3> DEFINE same == {j \in 1 .. k - 1 : steps[j] = s}
    <3>1. same # {} /\ same \in SUBSET (1 .. k - 1) /\ k - 1 \in Nat
      BY <1>1, <1>6, <1>9
    <3>2. PICK j \in same : \A i \in same : j <= i
      <4> HIDE DEF same
      <4> QED
        BY <3>1, SomeIsFirst
    <3>3. j \in firsts
      <4>1. j \in 1 .. n /\ steps[j] # "none"
        BY <1>1, <1>9
      <4>2. \A i \in 1 .. j - 1 : steps[i] # steps[j]
        <5> SUFFICES ASSUME NEW i \in 1 .. j - 1, steps[i] = steps[j]
                     PROVE  FALSE
          OBVIOUS
        <5>1. i \in same /\ i < j
          BY <1>1
        <5> QED
          BY <3>2, <5>1
      <4> QED
        BY <4>1, <4>2 DEF Firsts, firsts, n
    <3>4. j \in kept /\ j <= k - 1
      BY <1>1, <1>4, <2>1, <3>3
    <3> QED
      BY <1>4, <2>2, <3>4
  <2>4. k \in kept
    <3>1. Before(firsts, k) = Before(kept, k)
      BY <1>2, <1>4, <1>7, <2>1 DEF Before
    <3>2. Rank(firsts, k) = Len(chain)
      BY <1>4, <3>1 DEF Rank
    <3> QED
      BY <1>3, <2>1, <2>3, <3>2
  <2>5. /\ Len(next) = Len(chain) + 1 /\ next[Len(chain) + 1] = s
        /\ \A m \in 1 .. Len(chain) : next[m] = chain[m]
    <3>1. s \in P
      BY <1>1 DEF n
    <3> QED
      BY <2>1, <3>1
  <2> HIDE DEF next
  <2>6. Len(next) = Rank(kept, k + 1)
    BY <1>4, <1>5, <2>4, <2>5
  <2>7. ASSUME NEW m \in 1 .. Len(next)
        PROVE  \E i \in kept : i <= k /\ Rank(kept, i) = m - 1 /\ next[m] = steps[i]
    <3>1. CASE m \in 1 .. Len(chain)
      <4>1. PICK i \in kept : i <= k - 1 /\ Rank(kept, i) = m - 1 /\ chain[m] = steps[i]
        BY <1>4, <3>1
      <4> QED
        BY <1>2, <1>7, <2>5, <3>1, <4>1
    <3>2. CASE m = Len(chain) + 1
      BY <1>1, <1>4, <2>4, <2>5, <3>2
    <3> QED
      BY <1>1, <2>5, <3>1, <3>2
  <2>8. ASSUME NEW i \in kept, i <= k
        PROVE  \E m \in 1 .. Len(next) : next[m] = steps[i]
    <3>1. CASE i = k
      BY <1>1, <2>5, <3>1
    <3>2. CASE i # k
      <4>1. PICK m \in 1 .. Len(chain) : chain[m] = steps[i]
        BY <1>2, <1>4, <1>7, <2>8, <3>2
      <4> QED
        BY <1>1, <2>5, <4>1
    <3> QED
      BY <3>1, <3>2
  <2>9. \A i \in firsts : i <= k => i \in kept
    BY <1>4, <1>7, <2>1, <2>4
  <2> QED
    BY <2>6, <2>7, <2>8, <2>9 DEF ChainHas, kept, firsts, next
<1> QED
  BY <1>8, <1>9

\* A chain is what its steps ask for.
THEOREM ChainsAreAsked ==
  ASSUME NEW P, NEW steps \in Seq(P)
  PROVE  Chained(steps) = ChainAsked(steps)
<1> DEFINE n == Len(steps)
           kept == KeptOf(steps)
           chain == Chained(steps)
<1>1. n \in Nat /\ kept \in SUBSET (1 .. n)
  BY DEF Firsts, KeptOf
<1>2. PICK run : /\ run[0] = <<>>
                 /\ \A k \in 1 .. n : run[k] = Stepped(run[k - 1], steps[k])
                 /\ \A k \in 0 .. n : run[k] \in Seq(P)
                 /\ chain = run[n]
  BY ChainRuns
<1>3. ChainHas(steps, <<>>, 0)
  <2>1. Before(kept, 1) = {}
    BY <1>1 DEF Before
  <2>2. Rank(kept, 0 + 1) = 0
    BY <2>1, FS_EmptySet DEF Rank
  <2>3. \A i \in kept : ~(i <= 0)
    BY <1>1
  <2>4. \A i \in Firsts(steps) : ~(i <= 0)
    BY DEF Firsts
  <2> QED
    BY <2>2, <2>3, <2>4 DEF ChainHas
<1> HIDE DEF chain
<1>4. \A k \in 0 .. n : ChainHas(steps, run[k], k)
  <2> DEFINE G == {k \in 0 .. n : ChainHas(steps, run[k], k)}
  <2>1. 0 \in G
    BY <1>1, <1>2, <1>3
  <2>2. ASSUME NEW k \in 1 .. n, k - 1 \in G
        PROVE  k \in G
    <3>1. run[k - 1] \in Seq(P) /\ ChainHas(steps, run[k - 1], k - 1)
      BY <1>1, <1>2, <2>2
    <3>2. ChainHas(steps, Stepped(run[k - 1], steps[k]), k)
      BY <3>1, StepsAreKept
    <3> QED
      BY <1>1, <1>2, <3>2
  <2>3. \A k \in 0 .. n : k \in G
    <3> HIDE DEF G
    <3> QED
      BY <1>1, <2>1, <2>2, Climbs
  <2> QED
    BY <2>3
<1>5. chain \in Seq(P) /\ ChainHas(steps, chain, n)
  BY <1>1, <1>2, <1>4
<1>6. Before(kept, n + 1) = kept
  <2>1. \A i \in kept : i < n + 1
    BY <1>1
  <2> QED
    BY <2>1 DEF Before
<1>7. /\ Len(chain) = Cardinality(kept)
      /\ \A m \in 1 .. Len(chain) : \E i \in kept :
             Rank(kept, i) = m - 1 /\ chain[m] = steps[i]
  BY <1>5, <1>6 DEF ChainHas, Rank
<1>8. ChainAsked(steps)
        = [m \in 1 .. Cardinality(kept) |-> steps[CHOOSE i \in kept : Rank(kept, i) = m - 1]]
  BY DEF ChainAsked, KeptOf, Firsts, Rank, Before
<1>9. ASSUME NEW m \in 1 .. Len(chain)
      PROVE  chain[m] = steps[CHOOSE i \in kept : Rank(kept, i) = m - 1]
  <2>1. PICK i \in kept : Rank(kept, i) = m - 1 /\ chain[m] = steps[i]
    BY <1>7
  <2> DEFINE j == CHOOSE x \in kept : Rank(kept, x) = m - 1
  <2> HIDE DEF kept
  <2>2. j \in kept /\ Rank(kept, j) = m - 1
    BY <2>1
  <2>3. i = j
    BY <1>1, <2>1, <2>2, RanksTell
  <2> QED
    BY <2>1, <2>3
<1>10. chain = [m \in 1 .. Len(chain) |-> chain[m]]
  BY <1>5
<1> HIDE DEF kept
<1> QED
  BY <1>7, <1>8, <1>9, <1>10 DEF chain
-----------------------------------------------------------------------------
(* Bypass lists.                                                           *)

\* The walk over a list takes its entries one after another.
LEMMA DedupRuns ==
  ASSUME NEW P, NEW list \in Seq(P)
  PROVE  \E run : /\ run[0] = [kept |-> <<>>, seen |-> {}]
                  /\ \A k \in 1 .. Len(list) : run[k] = B!Deduped(run[k - 1], list[k])
                  /\ \A k \in 0 .. Len(list) : run[k] \in [kept : Seq(P), seen : SUBSET P]
                  /\ B!dedup_patterns(list) = run[Len(list)].kept
<1> DEFINE n == Len(list)
           V == [kept : Seq(P), seen : SUBSET P]
           base == [kept |-> <<>>, seen |-> {}]
           F == [x \in V \X (1 .. n) |-> B!Deduped(x[1], list[x[2]])]
           Is(iter) == iter = [s \in SUBSET (1 .. n) |->
                                  IF s = {} THEN base
                                  ELSE B!Deduped(iter[s \ {Max(s)}], list[Max(s)])]
           it == CHOOSE iter : Is(iter)
<1>1. n \in Nat /\ DOMAIN list = 1 .. n /\ \A i \in 1 .. n : list[i] \in P
  OBVIOUS
<1>2. base \in V
  OBVIOUS
<1>3. \A v \in V, p \in P : B!Deduped(v, p) \in V
  <2> TAKE v \in V, p \in P
  <2>1. v.kept \in Seq(P) /\ v.seen \in SUBSET P /\ Append(v.kept, p) \in Seq(P)
    OBVIOUS
  <2> QED
    BY <2>1 DEF B!Deduped
<1> HIDE DEF V, base, n
<1>4. F \in [V \X (1 .. n) -> V]
  BY <1>1, <1>3
<1>5. PICK iter \in [SUBSET (1 .. n) -> V] : Runs(iter, n, base, F)
  <2> HIDE DEF F
  <2> QED
    BY <1>1, <1>2, <1>4, RunExists
<1>6. Is(iter)
  <2> SUFFICES ASSUME NEW s \in SUBSET (1 .. n)
               PROVE  iter[s] = IF s = {} THEN base
                                ELSE B!Deduped(iter[s \ {Max(s)}], list[Max(s)])
    OBVIOUS
  <2>1. CASE s = {}
    BY <1>5, <2>1 DEF Runs
  <2>2. CASE s # {}
    <3>1. Max(s) \in 1 .. n
      BY <1>1, <2>2, GreatestIs
    <3>2. iter[s \ {Max(s)}] \in V
      BY <1>5
    <3>3. <<iter[s \ {Max(s)}], Max(s)>> \in V \X (1 .. n)
      BY <3>1, <3>2
    <3>4. iter[s] = F[<<iter[s \ {Max(s)}], Max(s)>>]
      BY <1>5, <2>2 DEF Runs
    <3> QED
      BY <2>2, <3>3, <3>4
  <2> QED
    BY <2>1, <2>2
<1>7. Is(it)
  <2> HIDE DEF Is
  <2> QED
    BY <1>6, Zenon
<1>8. B!dedup_patterns(list) = it[1 .. n].kept
  BY <1>1 DEF B!dedup_patterns, B!FoldLeft, B!MapThenFoldSet, B!Max, Max, base
<1> DEFINE run == [k \in 0 .. n |-> it[1 .. k]]
<1>9. run[0] = base /\ \A k \in 1 .. n : run[k] = B!Deduped(run[k - 1], list[k])
  <2>1. \A s \in SUBSET (1 .. n) :
            it[s] = IF s = {} THEN base ELSE B!Deduped(it[s \ {Max(s)}], list[Max(s)])
    <3>1. it = [s \in SUBSET (1 .. n) |->
                   IF s = {} THEN base ELSE B!Deduped(it[s \ {Max(s)}], list[Max(s)])]
      <4> HIDE DEF it
      <4> QED
        BY <1>7
    <3> HIDE DEF it
    <3> QED
      BY <3>1
  <2> HIDE DEF it
  <2>2. run[0] = base
    <3>1. 1 .. 0 = {} /\ {} \in SUBSET (1 .. n)
      OBVIOUS
    <3>2. run[0] = it[{}]
      BY <1>1, <3>1
    <3>3. it[{}] = base
      <4> HIDE DEF run, base
      <4> QED
        BY <2>1, <3>1
    <3> QED
      BY <3>2, <3>3
  <2>3. ASSUME NEW k \in 1 .. n
        PROVE  run[k] = B!Deduped(run[k - 1], list[k])
    <3>1. /\ 1 .. k \in SUBSET (1 .. n) /\ 1 .. k # {} /\ (1 .. k) \ {k} = 1 .. (k - 1)
          /\ k \in 1 .. k /\ \A j \in 1 .. k : k >= j
      BY <1>1
    <3>2. Max(1 .. k) = k
      BY <1>1, <3>1, SelectedLast
    <3>3. run[k] = it[1 .. k] /\ run[k - 1] = it[1 .. (k - 1)]
      BY <1>1
    <3> QED
      BY <2>1, <3>1, <3>2, <3>3
  <2> QED
    BY <2>2, <2>3
<1>10. run[n] = it[1 .. n]
  BY <1>1
<1> HIDE DEF run, it
<1>11. \A k \in 0 .. n : run[k] \in V
  <2> DEFINE G == {k \in 0 .. n : run[k] \in V}
  <2>1. 0 \in G
    BY <1>1, <1>2, <1>9
  <2>2. \A k \in 1 .. n : k - 1 \in G => k \in G
    BY <1>1, <1>3, <1>9
  <2>3. \A k \in 0 .. n : k \in G
    <3> HIDE DEF G
    <3> QED
      BY <1>1, <2>1, <2>2, Climbs
  <2> QED
    BY <2>3
<1> QED
  BY <1>8, <1>9, <1>10, <1>11 DEF V, base, n

\* How a walk over a list ends, which `tell` of its entries have something to say
\* in, `subs` of them subtractions: nobody spoke, a subtraction had the last
\* word, or another entry had it.
Speaking(list, tell) == {i \in 1 .. Len(list) : list[i] \in tell}
Verdict(list, tell, subs) ==
    IF Speaking(list, tell) = {} THEN "none"
    ELSE IF list[Max(Speaking(list, tell))] \in subs THEN "sub" ELSE "other"
Takes(list, subs) == \E i \in 1 .. Len(list) : list[i] \in subs

\* The last to speak of two lists, one after the other, is of the second if any
\* of it speaks.
LEMMA VerdictOfTwo ==
  ASSUME NEW P, NEW a \in Seq(P), NEW b \in Seq(P), NEW tell, NEW subs
  PROVE  /\ Verdict(a \o b, tell, subs) =
                IF Verdict(b, tell, subs) = "none" THEN Verdict(a, tell, subs)
                ELSE Verdict(b, tell, subs)
         /\ Takes(a \o b, subs) <=> Takes(a, subs) \/ Takes(b, subs)
<1> DEFINE n == Len(a) + Len(b)
           D == Speaking(a, tell)
           C == Speaking(b, tell)
           U == Speaking(a \o b, tell)
<1>1. /\ a \o b \in Seq(P) /\ Len(a \o b) = n
      /\ Len(a) \in Nat /\ Len(b) \in Nat /\ n \in Nat
      /\ \A i \in 1 .. Len(a) : i \in 1 .. n /\ (a \o b)[i] = a[i]
      /\ \A i \in 1 .. Len(b) : Len(a) + i \in 1 .. n /\ (a \o b)[Len(a) + i] = b[i]
      /\ \A i \in 1 .. n : i \in 1 .. Len(a) \/ i - Len(a) \in 1 .. Len(b)
  OBVIOUS
<1>2. \A i \in 1 .. n : i - Len(a) \in 1 .. Len(b) => (a \o b)[i] = b[i - Len(a)]
  BY <1>1
<1>3. Takes(a \o b, subs) <=> Takes(a, subs) \/ Takes(b, subs)
  BY <1>1, <1>2 DEF Takes
<1>4. /\ D \in SUBSET (1 .. Len(a)) /\ C \in SUBSET (1 .. Len(b)) /\ U \in SUBSET (1 .. n)
      /\ \A i \in D : i \in U
      /\ \A i \in C : Len(a) + i \in U
      /\ \A i \in U : i \in D \/ i - Len(a) \in C
  BY <1>1, <1>2 DEF Speaking
<1> HIDE DEF D, C, U, n
<1>5. CASE C = {}
  <2>1. D = U
    BY <1>4, <1>5
  <2>2. D # {} => Max(D) \in 1 .. Len(a)
    BY <1>1, <1>4, GreatestIs
  <2>3. D # {} => (a \o b)[Max(U)] = a[Max(D)]
    BY <1>1, <2>1, <2>2
  <2> QED
    BY <1>3, <1>5, <2>1, <2>3 DEF Verdict, D, C, U
<1>6. CASE C # {}
  <2>1. Max(C) \in C /\ \A j \in C : j <= Max(C)
    BY <1>1, <1>4, <1>6, GreatestIs
  <2>2. Len(a) + Max(C) \in U
    BY <1>4, <2>1
  <2>3. \A i \in U : Len(a) + Max(C) >= i
    <3>1. Max(C) \in Nat
      <4>1. Max(C) \in 1 .. Len(b)
        BY <1>4, <2>1
      <4> QED
        BY <4>1
    <3>2. ASSUME NEW i \in U
          PROVE  i \in Nat /\ (i <= Len(a) \/ i - Len(a) <= Max(C))
      <4>1. i \in 1 .. n
        BY <1>4
      <4>2. CASE i \in D
        <5>1. i \in 1 .. Len(a)
          BY <1>4, <4>2
        <5> QED
          BY <4>1, <5>1
      <4>3. CASE i - Len(a) \in C
        BY <2>1, <4>1, <4>3
      <4> QED
        BY <1>4, <4>2, <4>3
    <3> QED
      BY <1>1, <3>1, <3>2
  <2>4. Max(U) = Len(a) + Max(C)
    <3>1. \A i \in U : i \in Nat
      BY <1>4
    <3> DEFINE m == Len(a) + Max(C)
    <3>2. m \in U /\ m \in Nat /\ \A i \in U : m >= i
      BY <2>2, <2>3, <3>1
    <3> HIDE DEF m
    <3>3. Max(U) = m
      BY <1>1, <1>4, <3>2, SelectedLast
    <3> QED
      BY <3>3 DEF m
  <2>5. (a \o b)[Max(U)] = b[Max(C)]
    BY <1>1, <1>4, <2>1, <2>4
  <2>6. U # {}
    BY <2>2
  <2> QED
    BY <1>3, <1>6, <2>5, <2>6 DEF Verdict, D, C, U
<1> QED
  BY <1>5, <1>6

\* One entry alone.
LEMMA VerdictOfOne ==
  ASSUME NEW P, NEW p \in P, NEW tell, NEW subs
  PROVE  /\ Verdict(<<p>>, tell, subs) =
                IF p \notin tell THEN "none" ELSE IF p \in subs THEN "sub" ELSE "other"
         /\ Takes(<<p>>, subs) <=> p \in subs
<1>1. Len(<<p>>) = 1 /\ <<p>>[1] = p /\ 1 .. 1 = {1}
  OBVIOUS
<1>2. Takes(<<p>>, subs) <=> p \in subs
  BY <1>1 DEF Takes
<1>3. CASE p \in tell
  <2>1. Speaking(<<p>>, tell) = {1}
    BY <1>1, <1>3 DEF Speaking
  <2>2. Max({1}) = 1
    BY SelectedLast
  <2> QED
    BY <1>1, <1>2, <1>3, <2>1, <2>2 DEF Verdict
<1>4. CASE p \notin tell
  <2>1. Speaking(<<p>>, tell) = {}
    BY <1>1, <1>4 DEF Speaking
  <2> QED
    BY <1>2, <1>4, <2>1 DEF Verdict
<1> QED
  BY <1>3, <1>4

\* An entry more.
LEMMA VerdictOfMore ==
  ASSUME NEW P, NEW list \in Seq(P), NEW p \in P, NEW tell, NEW subs
  PROVE  /\ Verdict(Append(list, p), tell, subs) =
                IF p \notin tell THEN Verdict(list, tell, subs)
                ELSE IF p \in subs THEN "sub" ELSE "other"
         /\ Takes(Append(list, p), subs) <=> Takes(list, subs) \/ p \in subs
<1> DEFINE one == <<p>>
<1>1. Append(list, p) = list \o one /\ one \in Seq(P)
  OBVIOUS
<1>3. /\ Verdict(one, tell, subs) =
             IF p \notin tell THEN "none" ELSE IF p \in subs THEN "sub" ELSE "other"
      /\ Takes(one, subs) <=> p \in subs
  BY VerdictOfOne
<1> HIDE DEF one
<1>2. /\ Verdict(list \o one, tell, subs) =
             IF Verdict(one, tell, subs) = "none" THEN Verdict(list, tell, subs)
             ELSE Verdict(one, tell, subs)
      /\ Takes(list \o one, subs) <=> Takes(list, subs) \/ Takes(one, subs)
  BY <1>1, VerdictOfTwo
<1> QED
  BY <1>1, <1>2, <1>3

\* The entries a walk leaves out change nothing of how it ends.
LEMMA DedupKeepsTheVerdict ==
  ASSUME NEW P, NEW list \in Seq(P), NEW tell, NEW subs,
         \A p \in P : p \in subs <=> B!Subtracts(p)
  PROVE  /\ B!dedup_patterns(list) \in Seq(P)
         /\ Verdict(B!dedup_patterns(list), tell, subs) = Verdict(list, tell, subs)
         /\ Takes(B!dedup_patterns(list), subs) <=> Takes(list, subs)
<1> DEFINE n == Len(list)
           Start(k) == SubSeq(list, 1, k)
           Same(s, k) ==
               /\ Verdict(s.kept, tell, subs) = Verdict(Start(k), tell, subs)
               /\ Takes(s.kept, subs) <=> Takes(Start(k), subs)
               /\ \A p \in s.seen :
                      p \notin subs /\ (p \in tell => Verdict(s.kept, tell, subs) = "other")
<1>1. PICK run : /\ run[0] = [kept |-> <<>>, seen |-> {}]
                 /\ \A k \in 1 .. n : run[k] = B!Deduped(run[k - 1], list[k])
                 /\ \A k \in 0 .. n : run[k] \in [kept : Seq(P), seen : SUBSET P]
                 /\ B!dedup_patterns(list) = run[n].kept
  BY DedupRuns
<1>2. /\ n \in Nat /\ Start(0) = <<>> /\ Start(n) = list
      /\ \A k \in 1 .. n : /\ list[k] \in P /\ Start(k - 1) \in Seq(P)
                           /\ Start(k) = Append(Start(k - 1), list[k])
                           /\ k - 1 \in 0 .. n
  OBVIOUS
<1> HIDE DEF Start, n
<1>3. Same(run[0], 0)
  BY <1>1, <1>2
<1>4. ASSUME NEW k \in 1 .. n, Same(run[k - 1], k - 1)
      PROVE  Same(run[k], k)
  <2> DEFINE s == run[k - 1]
             p == list[k]
  <2>1. /\ s.kept \in Seq(P) /\ s.seen \in SUBSET P /\ p \in P
        /\ run[k] = B!Deduped(s, p)
    BY <1>1, <1>2
  <2>4. Same(s, k - 1)
    BY <1>4
  <2>8. Start(k - 1) \in Seq(P) /\ Start(k) = Append(Start(k - 1), p)
    BY <1>2
  <2> HIDE DEF s, p, Same
  <2>2. /\ Verdict(Start(k), tell, subs) =
               IF p \notin tell THEN Verdict(Start(k - 1), tell, subs)
               ELSE IF p \in subs THEN "sub" ELSE "other"
        /\ Takes(Start(k), subs) <=> Takes(Start(k - 1), subs) \/ p \in subs
    BY <2>1, <2>8, VerdictOfMore
  <2>3. /\ Verdict(Append(s.kept, p), tell, subs) =
               IF p \notin tell THEN Verdict(s.kept, tell, subs)
               ELSE IF p \in subs THEN "sub" ELSE "other"
        /\ Takes(Append(s.kept, p), subs) <=> Takes(s.kept, subs) \/ p \in subs
    BY <2>1, VerdictOfMore
  <2>5. CASE p \in subs
    <3>1. run[k].kept = Append(s.kept, p) /\ run[k].seen = {}
      BY <2>1, <2>5 DEF B!Deduped
    <3> QED
      BY <2>1, <2>2, <2>3, <2>4, <3>1 DEF Same
  <2>6. CASE p \notin subs /\ p \in s.seen
    <3>1. run[k] = s
      BY <2>1, <2>6 DEF B!Deduped
    <3> QED
      BY <2>1, <2>2, <2>4, <2>6, <3>1 DEF Same
  <2>7. CASE p \notin subs /\ p \notin s.seen
    <3>1. run[k].kept = Append(s.kept, p) /\ run[k].seen = s.seen \cup {p}
      BY <2>1, <2>7 DEF B!Deduped
    <3> QED
      BY <2>1, <2>2, <2>3, <2>4, <2>7, <3>1 DEF Same
  <2> QED
    BY <2>5, <2>6, <2>7
<1> HIDE DEF Same
<1>5. \A k \in 0 .. n : Same(run[k], k)
  <2> DEFINE G == {k \in 0 .. n : Same(run[k], k)}
  <2>1. 0 \in G /\ \A k \in 1 .. n : k - 1 \in G => k \in G
    BY <1>2, <1>3, <1>4
  <2> HIDE DEF G
  <2>2. \A k \in 0 .. n : k \in G
    BY <1>2, <2>1, Climbs
  <2> QED
    BY <2>2 DEF G
<1>6. Same(run[n], n) /\ run[n].kept \in Seq(P)
  BY <1>1, <1>2, <1>5
<1> QED
  BY <1>1, <1>2, <1>6 DEF Same

\* Who has something to say of a host under some rules.
Tells(P, rules, host, port) ==
    {p \in P : IF B!Subtracts(p) THEN B!covers(rules.implicit, host)
               ELSE B!PatternMatches(rules, p, host, port)}
Subs(P) == {p \in P : B!Subtracts(p)}

\* Whether a walk that ends so sends a host around, under some rules.
Around(rules, host, verdict, takes) ==
    LET implicit == B!covers(rules.implicit, host) IN
    \/ rules.exclude_simple_hostnames /\ ~B!HasDot(host) /\ ~(takes /\ implicit)
    \/ verdict = "none" /\ (implicit \/ B!Unnamed(rules))
    \/ verdict = "sub" /\ B!Unnamed(rules)
    \/ verdict = "other" /\ ~rules.reversed_exceptions

\* A list sends around what its walk does.
LEMMA MatchesIs ==
  ASSUME NEW P, NEW rules, rules.patterns \in Seq(P), NEW host, NEW port
  PROVE  B!matches(rules, host, port) <=>
             Around(rules, host, Verdict(rules.patterns, Tells(P, rules, host, port), Subs(P)),
                    Takes(rules.patterns, Subs(P)))
<1> DEFINE implicit == B!covers(rules.implicit, host)
           list == rules.patterns
           tell == Tells(P, rules, host, port)
           says(i) == IF B!Subtracts(list[i]) THEN implicit
                      ELSE B!PatternMatches(rules, list[i], host, port)
           speaking == {i \in 1 .. Len(list) : says(i)}
           subtracted == \E i \in 1 .. Len(list) : B!Subtracts(list[i])
<1>1. Len(list) \in Nat /\ \A i \in 1 .. Len(list) : list[i] \in P
  OBVIOUS
<1>2. /\ \A i \in 1 .. Len(list) : says(i) <=> list[i] \in tell
      /\ \A i \in 1 .. Len(list) : B!Subtracts(list[i]) <=> list[i] \in Subs(P)
  BY <1>1 DEF Tells, Subs
<1>3. /\ subtracted <=> Takes(list, Subs(P))
      /\ speaking = Speaking(list, tell)
  BY <1>2 DEF Takes, Speaking
<1>4. speaking # {} => Max(speaking) \in 1 .. Len(list)
  BY <1>1, GreatestIs
<1>5. B!Max(speaking) = Max(speaking)
  BY DEF B!Max, Max
<1>6. B!matches(rules, host, port) <=>
          IF rules.exclude_simple_hostnames /\ ~B!HasDot(host) /\ ~(subtracted /\ implicit)
          THEN TRUE
          ELSE IF speaking = {} THEN implicit \/ B!Unnamed(rules)
          ELSE IF B!Subtracts(list[B!Max(speaking)]) THEN B!Unnamed(rules)
          ELSE ~rules.reversed_exceptions
  BY DEF B!matches
<1> HIDE DEF speaking, subtracted, implicit, list, tell
<1>7. speaking # {} =>
          (B!Subtracts(list[B!Max(speaking)]) <=> list[Max(speaking)] \in Subs(P))
  BY <1>2, <1>4, <1>5
<1> QED
  BY <1>3, <1>6, <1>7 DEF Verdict, Around, implicit, list, tell

\* What entries there are.
LEMMA PatternsAreShaped ==
  ASSUME NEW p \in B!Patterns
  PROVE  /\ p.kind \in {"subtract", "local", "all", "wildcard", "cidr", "exact", "domain"}
         /\ p.kind = "subtract" => p = [kind |-> "subtract"]
<1> DEFINE plain(k) == [kind |-> k]
           wild(port, hosts) == [kind |-> "wildcard", port |-> port, hosts |-> hosts]
           net(ips) == [kind |-> "cidr", net |-> ips]
           exact(host, port) == [kind |-> "exact", host |-> host, port |-> port]
           domain(labels, self, port) ==
               [kind |-> "domain", labels |-> labels, match_self |-> self, port |-> port]
<1>1. /\ \A k : plain(k).kind = k
      /\ \A x, y : wild(x, y).kind = "wildcard"
      /\ \A x : net(x).kind = "cidr"
      /\ \A x, y : exact(x, y).kind = "exact"
      /\ \A x, y, z : domain(x, y, z).kind = "domain"
  OBVIOUS
<1>2. \/ \E k \in {"subtract", "local", "all"} : p = plain(k)
      \/ \E x, y : p = wild(x, y)
      \/ \E x : p = net(x)
      \/ \E x, y : p = exact(x, y)
      \/ \E x, y, z : p = domain(x, y, z)
  BY Zenon DEF B!Patterns
<1> HIDE DEF plain, wild, net, exact, domain
<1>3. /\ p.kind \in {"subtract", "local", "all", "wildcard", "cidr", "exact", "domain"}
      /\ p.kind = "subtract" => p = plain("subtract")
  BY <1>1, <1>2
<1> QED
  BY <1>3 DEF plain

\* The rules of the two lists that a question compares differ in their entries
\* and in what was rejected, and an entry asks for neither.
LEMMA EntriesAskNoMore ==
  ASSUME NEW r, NEW s, NEW p \in B!Patterns, NEW host, NEW port,
         r.ipv4_mapped_as_ipv4 = s.ipv4_mapped_as_ipv4,
         r.strip_trailing_dot = s.strip_trailing_dot
  PROVE  B!PatternMatches(r, p, host, port) <=> B!PatternMatches(s, p, host, port)
<1> DEFINE kinds == {"subtract", "local", "all", "wildcard", "cidr", "exact", "domain"}
<1>1. p.kind \in kinds
  BY PatternsAreShaped
<1>2. B!Stripped(r, host) = B!Stripped(s, host)
  BY DEF B!Stripped
<1>3. CASE p.kind = "subtract" \/ p.kind = "local" \/ p.kind = "all"
  BY <1>3 DEF B!PatternMatches
<1>4. CASE p.kind = "wildcard"
  BY <1>2, <1>4 DEF B!PatternMatches
<1>5. CASE p.kind = "cidr"
  BY <1>2, <1>5 DEF B!PatternMatches
<1>6. CASE p.kind = "exact"
  BY <1>2, <1>6 DEF B!PatternMatches
<1>7. CASE p.kind = "domain"
  BY <1>2, <1>7 DEF B!PatternMatches
<1> QED
  BY <1>1, <1>3, <1>4, <1>5, <1>6, <1>7

\* So the same entries have something to say under both.
LEMMA TellersAreThoseOfBoth ==
  ASSUME NEW r, NEW s, NEW host, NEW port,
         r.ipv4_mapped_as_ipv4 = s.ipv4_mapped_as_ipv4,
         r.strip_trailing_dot = s.strip_trailing_dot, r.implicit = s.implicit
  PROVE  Tells(B!Patterns, r, host, port) = Tells(B!Patterns, s, host, port)
BY EntriesAskNoMore DEF Tells

\* A list and what a reader makes of it.
LEMMA EntriesArePatterns ==
  ASSUME NEW list \in Seq(B!Patterns), NEW d
  PROVE  B!Entries(d, list) \in Seq(B!Patterns)
<1> DEFINE sub == [kind |-> "subtract"]
<1>1. sub \in B!Patterns
  BY DEF B!Patterns
<1>2. B!Entries(d, list) = IF d = "android" THEN <<sub>> \o list ELSE list
  BY DEF B!Entries
<1> HIDE DEF sub
<1> QED
  BY <1>1, <1>2

\* A repeated entry that is left out sends nothing another way.
THEOREM RepeatsChangeNothing ==
  ASSUME NEW list \in Seq(B!Patterns), NEW d \in B!Dialects, NEW host, NEW port
  PROVE  B!matches(B!Reader(d, list, {}), host, port) <=>
             B!matches([B!Reader(d, list, {}) EXCEPT !.patterns = B!Entries(d, list)],
                       host, port)
<1> DEFINE all == B!Entries(d, list)
           r == B!Reader(d, list, {})
           s == [r EXCEPT !.patterns = all]
           tell == Tells(B!Patterns, r, host, port)
           subs == Subs(B!Patterns)
<1>1. all \in Seq(B!Patterns)
  BY EntriesArePatterns
<1>9. /\ r.patterns = B!dedup_patterns(all)
      /\ DOMAIN r = {"patterns", "rejected", "implicit", "ipv4_mapped_as_ipv4",
                     "strip_trailing_dot", "exclude_simple_hostnames", "reversed_exceptions"}
  BY DEF B!Reader
<1> HIDE DEF all, r
<1>2. /\ r.patterns = B!dedup_patterns(all) /\ s.patterns = all
      /\ r.ipv4_mapped_as_ipv4 = s.ipv4_mapped_as_ipv4
      /\ r.strip_trailing_dot = s.strip_trailing_dot /\ r.implicit = s.implicit
      /\ r.exclude_simple_hostnames = s.exclude_simple_hostnames
      /\ r.reversed_exceptions = s.reversed_exceptions /\ r.rejected = s.rejected
  BY <1>9
<1>3. \A p \in B!Patterns : p \in subs <=> B!Subtracts(p)
  BY DEF Subs
<1> HIDE DEF s
<1>4. Tells(B!Patterns, s, host, port) = tell
  BY <1>2, TellersAreThoseOfBoth
<1> HIDE DEF tell, subs
<1>5. /\ r.patterns \in Seq(B!Patterns)
      /\ Verdict(r.patterns, tell, subs) = Verdict(all, tell, subs)
      /\ Takes(r.patterns, subs) <=> Takes(all, subs)
  BY <1>1, <1>2, <1>3, DedupKeepsTheVerdict
<1>6. B!matches(r, host, port) <=>
          Around(r, host, Verdict(r.patterns, tell, subs), Takes(r.patterns, subs))
  BY <1>5, MatchesIs DEF tell, subs
<1>7. B!matches(s, host, port) <=>
          Around(s, host, Verdict(all, tell, subs), Takes(all, subs))
  BY <1>1, <1>2, <1>4, MatchesIs DEF subs
<1>8. Around(r, host, Verdict(r.patterns, tell, subs), Takes(r.patterns, subs)) <=>
          Around(s, host, Verdict(all, tell, subs), Takes(all, subs))
  BY <1>2, <1>5 DEF Around, B!Unnamed
<1> QED
  BY <1>6, <1>7, <1>8 DEF r, s, all

\* An entry that is no subtraction, put back into a list, either changes nothing
\* of how its walk ends or has the last word.
LEMMA OneMoreEntry ==
  ASSUME NEW P, NEW a \in Seq(P), NEW b \in Seq(P), NEW p \in P, NEW tell, NEW subs,
         p \notin subs
  PROVE  /\ \/ Verdict((a \o <<p>>) \o b, tell, subs) = Verdict(a \o b, tell, subs)
            \/ Verdict((a \o <<p>>) \o b, tell, subs) = "other"
         /\ Takes((a \o <<p>>) \o b, subs) <=> Takes(a \o b, subs)
<1> DEFINE more == a \o <<p>>
<1>1. more = Append(a, p) /\ more \in Seq(P)
  OBVIOUS
<1> HIDE DEF more
<1>2. /\ Verdict(more, tell, subs) =
             IF p \notin tell THEN Verdict(a, tell, subs)
             ELSE IF p \in subs THEN "sub" ELSE "other"
      /\ Takes(more, subs) <=> Takes(a, subs) \/ p \in subs
  BY <1>1, VerdictOfMore
<1>3. /\ Verdict(more \o b, tell, subs) =
             IF Verdict(b, tell, subs) = "none" THEN Verdict(more, tell, subs)
             ELSE Verdict(b, tell, subs)
      /\ Takes(more \o b, subs) <=> Takes(more, subs) \/ Takes(b, subs)
  <2>1. more \in Seq(P)
    BY <1>1
  <2> QED
    BY <2>1, VerdictOfTwo
<1>4. /\ Verdict(a \o b, tell, subs) =
             IF Verdict(b, tell, subs) = "none" THEN Verdict(a, tell, subs)
             ELSE Verdict(b, tell, subs)
      /\ Takes(a \o b, subs) <=> Takes(a, subs) \/ Takes(b, subs)
  BY VerdictOfTwo
<1>5. /\ \/ Verdict(more \o b, tell, subs) = Verdict(a \o b, tell, subs)
         \/ Verdict(more \o b, tell, subs) = "other"
      /\ Takes(more \o b, subs) <=> Takes(a \o b, subs)
  BY <1>2, <1>3, <1>4
<1> QED
  BY <1>5 DEF more

\* The same of what a reader makes of the two lists.
LEMMA OneMoreInEntries ==
  ASSUME NEW a \in Seq(B!Patterns), NEW b \in Seq(B!Patterns), NEW p \in B!Patterns,
         NEW d, NEW tell, NEW subs, p \notin subs
  PROVE  LET whole == B!Entries(d, (a \o <<p>>) \o b)
             rest == B!Entries(d, a \o b)
         IN
         /\ \/ Verdict(whole, tell, subs) = Verdict(rest, tell, subs)
            \/ Verdict(whole, tell, subs) = "other"
         /\ Takes(whole, subs) <=> Takes(rest, subs)
<1> DEFINE sub == <<[kind |-> "subtract"]>>
<1>1. sub \in Seq(B!Patterns)
  <2> DEFINE one == [kind |-> "subtract"]
  <2>1. one \in B!Patterns
    BY DEF B!Patterns
  <2> HIDE DEF one
  <2>2. <<one>> \in Seq(B!Patterns)
    BY <2>1
  <2> QED
    BY <2>2 DEF one
<1> DEFINE single == <<p>>
<1>2. /\ single \in Seq(B!Patterns) /\ a \o single \in Seq(B!Patterns)
  OBVIOUS
<1>3. \A list : B!Entries(d, list) = IF d = "android" THEN sub \o list ELSE list
  BY DEF B!Entries
<1> HIDE DEF sub, single
<1>4. CASE d = "android"
  <2>1. /\ sub \o (a \o b) = (sub \o a) \o b
        /\ sub \o ((a \o single) \o b) = ((sub \o a) \o single) \o b
        /\ sub \o a \in Seq(B!Patterns)
    <3> HIDE DEF B!Patterns
    <3>1. sub \o (a \o b) = (sub \o a) \o b
      BY <1>1, ConcatAssociative
    <3>2. sub \o ((a \o single) \o b) = (sub \o (a \o single)) \o b
      BY <1>1, <1>2, ConcatAssociative
    <3>3. sub \o (a \o single) = (sub \o a) \o single
      BY <1>1, <1>2, ConcatAssociative
    <3>4. sub \o a \in Seq(B!Patterns)
      BY <1>1
    <3> QED
      BY <3>1, <3>2, <3>3, <3>4, Zenon
  <2>5. sub \o a \in Seq(B!Patterns)
    BY <2>1
  <2>2. /\ \/ Verdict(((sub \o a) \o <<p>>) \o b, tell, subs) = Verdict((sub \o a) \o b, tell, subs)
           \/ Verdict(((sub \o a) \o <<p>>) \o b, tell, subs) = "other"
        /\ Takes(((sub \o a) \o <<p>>) \o b, subs) <=> Takes((sub \o a) \o b, subs)
    BY <2>5, OneMoreEntry, Zenon
  <2>3. <<p>> = single
    BY DEF single
  <2>4. /\ B!Entries(d, (a \o <<p>>) \o b) = ((sub \o a) \o <<p>>) \o b
        /\ B!Entries(d, a \o b) = (sub \o a) \o b
    BY <1>3, <1>4, <2>1, <2>3, Zenon
  <2> QED
    BY <2>2, <2>4, Zenon
<1>5. CASE d # "android"
  <2>1. /\ B!Entries(d, (a \o <<p>>) \o b) = (a \o <<p>>) \o b
        /\ B!Entries(d, a \o b) = a \o b
    BY <1>3, <1>5, Zenon
  <2>2. /\ \/ Verdict((a \o <<p>>) \o b, tell, subs) = Verdict(a \o b, tell, subs)
           \/ Verdict((a \o <<p>>) \o b, tell, subs) = "other"
        /\ Takes((a \o <<p>>) \o b, subs) <=> Takes(a \o b, subs)
    BY OneMoreEntry, Zenon
  <2> QED
    BY <2>1, <2>2, Zenon
<1> QED
  BY <1>4, <1>5

\* Without an entry, the rules of a list are those with it, but that no host
\* none of them names is sent around.
LEMMA RulesOfTheTwo ==
  ASSUME NEW a \in Seq(B!Patterns), NEW b \in Seq(B!Patterns), NEW p, NEW d \in B!Dialects,
         NEW r, NEW s, r = B!Reader(d, a \o b, {"dropped"}),
         s = B!Reader(d, (a \o <<p>>) \o b, {})
  PROVE  /\ r.patterns = B!dedup_patterns(B!Entries(d, a \o b))
         /\ s.patterns = B!dedup_patterns(B!Entries(d, (a \o <<p>>) \o b))
         /\ r.implicit = s.implicit
         /\ r.ipv4_mapped_as_ipv4 = s.ipv4_mapped_as_ipv4
         /\ r.strip_trailing_dot = s.strip_trailing_dot
         /\ r.exclude_simple_hostnames = s.exclude_simple_hostnames
         /\ r.reversed_exceptions = s.reversed_exceptions
         /\ r.rejected = {"dropped"}
         /\ r.reversed_exceptions => r.implicit = "empty"
<1> DEFINE rest == a \o b
           whole == (a \o <<p>>) \o b
<1>1. whole # <<>>
  <2>1. Len(whole) > 0
    OBVIOUS
  <2> QED
    BY <2>1
<1> HIDE DEF rest, whole
<1>2. r = B!Reader(d, rest, {"dropped"}) /\ s = B!Reader(d, whole, {})
  BY DEF rest, whole
<1>3. {"dropped"} # {}
  OBVIOUS
<1>4. r.implicit = s.implicit /\ (d = "kde_reversed" => r.implicit = "empty")
  <2>1. CASE d \in {"suffix", "android"}
    BY <1>2, <2>1 DEF B!Reader
  <2>2. CASE d = "windows"
    BY <1>2, <2>2 DEF B!Reader
  <2>3. CASE d = "macos"
    BY <1>1, <1>2, <1>3, <2>3 DEF B!Reader
  <2>4. CASE d = "macos_simple"
    BY <1>2, <2>4 DEF B!Reader
  <2>5. CASE d \in {"gnome", "kde", "kde_reversed"}
    BY <1>2, <2>5 DEF B!Reader
  <2> QED
    BY <2>1, <2>2, <2>3, <2>4, <2>5 DEF B!Dialects
<1>5. /\ r.patterns = B!dedup_patterns(B!Entries(d, rest))
      /\ s.patterns = B!dedup_patterns(B!Entries(d, whole))
      /\ r.ipv4_mapped_as_ipv4 = s.ipv4_mapped_as_ipv4
      /\ r.strip_trailing_dot = s.strip_trailing_dot
      /\ r.exclude_simple_hostnames = s.exclude_simple_hostnames
      /\ r.reversed_exceptions = s.reversed_exceptions
      /\ r.rejected = {"dropped"}
      /\ r.reversed_exceptions => d = "kde_reversed"
  <2>1. /\ r.patterns = B!dedup_patterns(B!Entries(d, rest))
        /\ s.patterns = B!dedup_patterns(B!Entries(d, whole))
        /\ r.rejected = {"dropped"}
    BY <1>2 DEF B!Reader
  <2>2. r.ipv4_mapped_as_ipv4 = s.ipv4_mapped_as_ipv4
    BY <1>2 DEF B!Reader
  <2>3. r.strip_trailing_dot = s.strip_trailing_dot
    BY <1>2 DEF B!Reader
  <2>4. r.exclude_simple_hostnames = s.exclude_simple_hostnames
    BY <1>2 DEF B!Reader
  <2>5. r.reversed_exceptions = s.reversed_exceptions
    BY <1>2 DEF B!Reader
  <2>6. r.reversed_exceptions => d = "kde_reversed"
    <3>1. r.reversed_exceptions = (d = "kde_reversed")
      BY <1>2 DEF B!Reader
    <3> QED
      BY <3>1, Zenon
  <2> QED
    BY <2>1, <2>2, <2>3, <2>4, <2>5, <2>6
<1> QED
  BY <1>4, <1>5 DEF rest, whole

\* What a list without an entry sends around, the whole list does.
THEOREM DropsFailClosed ==
  ASSUME NEW a \in Seq(B!Patterns), NEW b \in Seq(B!Patterns), NEW p \in B!Patterns,
         ~B!Subtracts(p), NEW d \in B!Dialects, NEW host, NEW port,
         B!matches(B!Reader(d, a \o b, {"dropped"}), host, port)
  PROVE  B!matches(B!Reader(d, (a \o <<p>>) \o b, {}), host, port)
<1> DEFINE rest == a \o b
           whole == (a \o <<p>>) \o b
           r == B!Reader(d, rest, {"dropped"})
           s == B!Reader(d, whole, {})
           tell == Tells(B!Patterns, r, host, port)
           subs == Subs(B!Patterns)
           fewer == B!Entries(d, rest)
           more == B!Entries(d, whole)
           implicit == B!covers(r.implicit, host)
<1>1. /\ r.patterns = B!dedup_patterns(fewer) /\ s.patterns = B!dedup_patterns(more)
      /\ r.implicit = s.implicit
      /\ r.ipv4_mapped_as_ipv4 = s.ipv4_mapped_as_ipv4
      /\ r.strip_trailing_dot = s.strip_trailing_dot
      /\ r.exclude_simple_hostnames = s.exclude_simple_hostnames
      /\ r.reversed_exceptions = s.reversed_exceptions
      /\ r.rejected = {"dropped"}
      /\ r.reversed_exceptions => r.implicit = "empty"
  <2>1. /\ r = B!Reader(d, a \o b, {"dropped"})
        /\ s = B!Reader(d, (a \o <<p>>) \o b, {})
        /\ fewer = B!Entries(d, a \o b)
        /\ more = B!Entries(d, (a \o <<p>>) \o b)
    OBVIOUS
  <2> HIDE DEF r, s, fewer, more
  <2> QED
    BY <2>1, RulesOfTheTwo
<1>2. p \notin subs /\ \A q \in B!Patterns : q \in subs <=> B!Subtracts(q)
  BY DEF Subs
<1>3. /\ Verdict(more, tell, subs) = Verdict(fewer, tell, subs) \/ Verdict(more, tell, subs) = "other"
      /\ Takes(more, subs) <=> Takes(fewer, subs)
  <2>1. p \notin subs
    BY <1>2
  <2>2. LET w == B!Entries(d, (a \o <<p>>) \o b)
            e == B!Entries(d, a \o b)
        IN  /\ Verdict(w, tell, subs) = Verdict(e, tell, subs) \/ Verdict(w, tell, subs) = "other"
            /\ Takes(w, subs) <=> Takes(e, subs)
    <3> HIDE DEF tell, subs, r, s
    <3> QED
      BY <2>1, OneMoreInEntries, Zenon
  <2> QED
    BY <2>2
<1>4. rest \in Seq(B!Patterns) /\ whole \in Seq(B!Patterns)
  OBVIOUS
<1> HIDE DEF rest, whole, r, s, subs
<1>5. fewer \in Seq(B!Patterns) /\ more \in Seq(B!Patterns)
  BY <1>4, EntriesArePatterns
<1> HIDE DEF fewer, more
<1>6. Tells(B!Patterns, s, host, port) = tell
  BY <1>1, TellersAreThoseOfBoth
<1> HIDE DEF tell
<1>7. /\ r.patterns \in Seq(B!Patterns) /\ s.patterns \in Seq(B!Patterns)
      /\ Verdict(r.patterns, tell, subs) = Verdict(fewer, tell, subs)
      /\ Takes(r.patterns, subs) <=> Takes(fewer, subs)
      /\ Verdict(s.patterns, tell, subs) = Verdict(more, tell, subs)
      /\ Takes(s.patterns, subs) <=> Takes(more, subs)
  <2>1. r.patterns = B!dedup_patterns(fewer) /\ s.patterns = B!dedup_patterns(more)
    BY <1>1
  <2>2. \A q \in B!Patterns : q \in subs <=> B!Subtracts(q)
    BY <1>2
  <2>3. /\ B!dedup_patterns(fewer) \in Seq(B!Patterns)
        /\ Verdict(B!dedup_patterns(fewer), tell, subs) = Verdict(fewer, tell, subs)
        /\ Takes(B!dedup_patterns(fewer), subs) <=> Takes(fewer, subs)
    BY <1>5, <2>2, DedupKeepsTheVerdict
  <2>4. /\ B!dedup_patterns(more) \in Seq(B!Patterns)
        /\ Verdict(B!dedup_patterns(more), tell, subs) = Verdict(more, tell, subs)
        /\ Takes(B!dedup_patterns(more), subs) <=> Takes(more, subs)
    BY <1>5, <2>2, DedupKeepsTheVerdict
  <2> QED
    BY <2>1, <2>3, <2>4
<1>8. Around(r, host, Verdict(fewer, tell, subs), Takes(fewer, subs))
  <2>1. B!matches(r, host, port)
    BY DEF r, rest
  <2>2. B!matches(r, host, port) <=>
            Around(r, host, Verdict(r.patterns, tell, subs), Takes(r.patterns, subs))
    BY <1>7, MatchesIs DEF tell, subs
  <2>3. /\ Verdict(r.patterns, tell, subs) = Verdict(fewer, tell, subs)
        /\ Takes(r.patterns, subs) <=> Takes(fewer, subs)
    BY <1>7
  <2> QED
    BY <2>1, <2>2, <2>3 DEF Around
<1>9. ~B!Unnamed(r)
  BY <1>1 DEF B!Unnamed
<1>10. implicit => ~r.reversed_exceptions
  BY <1>1 DEF B!covers
<1>11. B!covers(s.implicit, host) <=> implicit
  BY <1>1
<1> HIDE DEF implicit
<1>12. Verdict(fewer, tell, subs) \in {"none", "sub", "other"}
  BY DEF Verdict
<1>13. Around(s, host, Verdict(more, tell, subs), Takes(more, subs))
  <2>1. \/ r.exclude_simple_hostnames /\ ~B!HasDot(host) /\ ~(Takes(fewer, subs) /\ implicit)
        \/ Verdict(fewer, tell, subs) = "none" /\ implicit
        \/ Verdict(fewer, tell, subs) = "other" /\ ~r.reversed_exceptions
    BY <1>8, <1>9 DEF Around, implicit
  <2> QED
    BY <1>1, <1>3, <1>10, <1>11, <2>1 DEF Around
<1>14. B!matches(s, host, port) <=>
           Around(s, host, Verdict(s.patterns, tell, subs), Takes(s.patterns, subs))
  BY <1>6, <1>7, MatchesIs DEF subs
<1>15. B!matches(s, host, port)
  BY <1>7, <1>13, <1>14 DEF Around
<1> QED
  BY <1>15 DEF s, whole
-----------------------------------------------------------------------------
(* Entries of a bypass list.  They are of any form, over any labels; a block *)
(* is written by itself.                                                   *)

\* What marks a text that is no name, and how a block is written.
Marks == {"", "@", " ", "://", "%", "..", "[", ":"}
Nets == {"none", "plain", "bits", "octal", "short", "bad"}

\* Entries of every form.
EntryForms(P) ==
    [edge : {"", "before", "after"}, lead : {"", ".", "*."}, labels : Seq(P),
     dot : BOOLEAN, port : Nat, net : Nets, mark : Marks]

\* A block of addresses, with a space at its edge or without.
Block(net, edge) == [B!Blank EXCEPT !.net = net, !.edge = edge]

\* An entry that is a block is nothing else.
WholeEntries(P) == {e \in EntryForms(P) : e.net # "none" => e = Block(e.net, e.edge)}

\* The destinations a rule is asked about: names that do not end in a number, and
\* addresses; where a reader folds the mapped addresses those are left out.
MetNames(P) == {ls \in Seq(P) : ls # <<>> /\ B!Last(ls) \notin B!Numbers \cup {"::1"}}

\* The hosts themselves.
MetHosts(d, P, I) ==
    {B!Name(ls, dot) : ls \in MetNames(P), dot \in BOOLEAN}
        \cup {B!Address(ip) : ip \in {i \in I : i # "none" /\ (d = "suffix" => B!Mapped(i) = i)}}

\* What a rule alone sends around in the list of a dialect.
Sends(d, rule, host, port) == B!PatternMatches(B!Reader(d, <<>>, {}), rule, host, port)

\* The dot of a host is there or it is not.
LEMMA FieldIsBoolean ==
  ASSUME NEW host, NEW ls, NEW dot \in BOOLEAN, NEW ip,
         host = [labels |-> ls, dot |-> dot, ip |-> ip]
  PROVE  host.dot \in BOOLEAN
<1>1. CASE dot = TRUE
  <2>1. host = [labels |-> ls, dot |-> TRUE, ip |-> ip]
    BY <1>1
  <2>2. host.dot = TRUE
    BY <2>1
  <2> QED
    BY <2>2, Zenon
<1>2. CASE dot = FALSE
  <2>1. host = [labels |-> ls, dot |-> FALSE, ip |-> ip]
    BY <1>2
  <2>2. host.dot = FALSE
    BY <2>1
  <2> QED
    BY <2>2, Zenon
<1> QED
  BY <1>1, <1>2

\* A host whose dot is another.
LEMMA FieldIsReplaced ==
  ASSUME NEW host, NEW off, host = [labels |-> host.labels, dot |-> host.dot, ip |-> host.ip]
  PROVE  [host EXCEPT !.dot = off] = [labels |-> host.labels, dot |-> off, ip |-> host.ip]
<1> DEFINE x == host.labels
           y == host.dot
           z == host.ip
<1>1. host = [labels |-> x, dot |-> y, ip |-> z]
  OBVIOUS
<1> HIDE DEF x, y, z
<1>2. [host EXCEPT !.dot = off] = [labels |-> x, dot |-> off, ip |-> z]
  BY <1>1
<1> QED
  BY <1>2 DEF x, z

\* Two hosts are the same if their parts are.
LEMMA HostsAreTheirFields ==
  ASSUME NEW x, NEW y, NEW z, NEW u, NEW v, NEW w
  PROVE  [labels |-> x, dot |-> y, ip |-> z] = [labels |-> u, dot |-> v, ip |-> w]
             <=> x = u /\ y = v /\ z = w
<1>1. ASSUME [labels |-> x, dot |-> y, ip |-> z] = [labels |-> u, dot |-> v, ip |-> w]
      PROVE  x = u /\ y = v /\ z = w
  <2> DEFINE a == [labels |-> x, dot |-> y, ip |-> z]
  <2>1. a.labels = x /\ a.dot = y /\ a.ip = z
    OBVIOUS
  <2>2. a.labels = u /\ a.dot = v /\ a.ip = w
    BY <1>1
  <2> QED
    BY <2>1, <2>2
<1> QED
  BY <1>1

\* The parts of a host.
LEMMA MetHostIs ==
  ASSUME NEW d, NEW P, NEW I, NEW host \in MetHosts(d, P, I)
  PROVE  /\ host.labels \in Seq(P) /\ host.dot \in BOOLEAN
         /\ host = [labels |-> host.labels, dot |-> host.dot, ip |-> host.ip]
         /\ host.ip = "none" => host.labels \in MetNames(P)
         /\ host.ip # "none" => /\ host = B!Address(host.ip)
                                /\ d = "suffix" => B!Mapped(host.ip) = host.ip
<1>1. CASE \E ls \in MetNames(P), dot \in BOOLEAN : host = B!Name(ls, dot)
  <2>1. PICK ls \in MetNames(P), dot \in BOOLEAN : host = B!Name(ls, dot)
    BY <1>1
  <2>2. ls \in Seq(P)
    BY DEF MetNames
  <2>3. host = [labels |-> ls, dot |-> dot, ip |-> "none"]
    BY <2>1 DEF B!Name
  <2>4. /\ host.labels = ls /\ host.ip = "none"
        /\ host = [labels |-> host.labels, dot |-> host.dot, ip |-> host.ip]
    BY <2>3
  <2>5. host.dot \in BOOLEAN
    BY <2>3, FieldIsBoolean
  <2> QED
    BY <2>2, <2>4, <2>5, <2>1, Zenon
<1>2. CASE \E ip \in I : /\ host = B!Address(ip) /\ ip # "none"
                         /\ d = "suffix" => B!Mapped(ip) = ip
  <2>1. PICK ip \in I : /\ host = B!Address(ip) /\ ip # "none"
                        /\ d = "suffix" => B!Mapped(ip) = ip
    BY <1>2
  <2> DEFINE no == FALSE
  <2>2. host = [labels |-> <<>>, dot |-> no, ip |-> ip]
    BY <2>1, Zenon DEF B!Address
  <2>3. no \in BOOLEAN
    OBVIOUS
  <2> HIDE DEF no
  <2>4. /\ host.labels = <<>> /\ host.ip = ip
        /\ host = [labels |-> host.labels, dot |-> host.dot, ip |-> host.ip]
    BY <2>2
  <2>5. host.dot \in BOOLEAN
    BY <2>2, <2>3, FieldIsBoolean
  <2>6. <<>> \in Seq(P)
    OBVIOUS
  <2> QED
    BY <2>1, <2>4, <2>5, <2>6, Zenon
<1> QED
  BY <1>1, <1>2 DEF MetHosts

\* What the reader of a dialect folds and strips.
LEMMA ReadersRead ==
  ASSUME NEW d \in B!EntryDialects
  PROVE  LET r == B!Reader(d, <<>>, {}) IN
         /\ r.ipv4_mapped_as_ipv4 <=> d = "suffix"
         /\ r.strip_trailing_dot <=> d \in {"suffix", "macos"}
BY DEF B!Reader, B!EntryDialects

\* Whether a rule for a name meets the host as it is written.
Shown(d, host) == ~host.dot \/ d \in {"suffix", "macos"}

\* What a reader sees of a host.
Seen(d, host) ==
    [labels |-> host.labels, dot |-> host.dot /\ d \notin {"suffix", "macos"}, ip |-> host.ip]

\* The host the entries see.
LEMMA HostIsSeen ==
  ASSUME NEW d \in B!EntryDialects, NEW P, NEW I, NEW host \in MetHosts(d, P, I)
  PROVE  B!Stripped(B!Reader(d, <<>>, {}), host) = Seen(d, host)
<1> DEFINE r == B!Reader(d, <<>>, {})
<1>1. r.strip_trailing_dot <=> d \in {"suffix", "macos"}
  BY ReadersRead
<1>2. /\ host = [labels |-> host.labels, dot |-> host.dot, ip |-> host.ip]
      /\ host.dot \in BOOLEAN
  BY MetHostIs
<1> HIDE DEF r
<1>3. B!Stripped(r, host) = IF r.strip_trailing_dot THEN [host EXCEPT !.dot = FALSE] ELSE host
  BY DEF B!Stripped
<1>4. CASE d \in {"suffix", "macos"}
  <2>1. B!Stripped(r, host) = [host EXCEPT !.dot = FALSE]
    BY <1>1, <1>3, <1>4
  <2>2. [host EXCEPT !.dot = FALSE] = [labels |-> host.labels, dot |-> FALSE, ip |-> host.ip]
    <3> DEFINE no == FALSE
    <3> HIDE DEF no
    <3>1. [host EXCEPT !.dot = no] = [labels |-> host.labels, dot |-> no, ip |-> host.ip]
      BY <1>2, FieldIsReplaced
    <3> QED
      BY <3>1, Zenon DEF no
  <2> QED
    BY <1>4, <2>1, <2>2 DEF Seen, r
<1>5. CASE d \notin {"suffix", "macos"}
  <2>1. B!Stripped(r, host) = host
    BY <1>1, <1>3, <1>5
  <2>2. (host.dot /\ d \notin {"suffix", "macos"}) = host.dot
    BY <1>2, <1>5
  <2> QED
    BY <1>2, <2>1, <2>2 DEF Seen, r
<1> QED
  BY <1>4, <1>5

\* A rule for an address meets that address.
LEMMA AddressesMeet ==
  ASSUME NEW d \in B!EntryDialects, NEW P, NEW I, NEW host \in MetHosts(d, P, I), NEW ip,
         ip # "none", B!Mapped(ip) = ip, NEW p, NEW q
  PROVE  Sends(d, B!ExactRule(B!Address(ip), p), host, q)
             <=> host.ip = ip /\ B!port_matches(p, q)
<1> DEFINE r == B!Reader(d, <<>>, {})
           rule == B!ExactRule(B!Address(ip), p)
           seen(i) == IF r.ipv4_mapped_as_ipv4 THEN B!Mapped(i) ELSE i
<1>1. rule.kind = "exact" /\ rule.host = B!Address(ip) /\ rule.host.ip = ip /\ rule.port = p
  BY DEF B!ExactRule, B!Address
<1>2. seen(ip) = ip /\ (host.ip # "none" => seen(host.ip) = host.ip)
  BY ReadersRead, MetHostIs
<1>3. B!Stripped(r, host) = Seen(d, host) /\ Seen(d, host).ip = host.ip
  BY HostIsSeen DEF Seen
<1> HIDE DEF rule, r
<1>4. Sends(d, rule, host, q) <=>
         /\ IF host.ip # "none" /\ rule.host.ip # "none"
            THEN seen(host.ip) = seen(rule.host.ip)
            ELSE B!Stripped(r, host) = rule.host
         /\ B!port_matches(rule.port, q)
  BY <1>1 DEF Sends, B!PatternMatches, r
<1> HIDE DEF seen
<1>5. CASE host.ip # "none"
  BY <1>1, <1>2, <1>4, <1>5 DEF rule
<1>6. CASE host.ip = "none"
  BY <1>1, <1>3, <1>4, <1>6 DEF rule
<1> QED
  BY <1>5, <1>6

\* A rule for a name meets that name.
LEMMA NamesMeet ==
  ASSUME NEW d \in B!EntryDialects, NEW P, NEW I, NEW host \in MetHosts(d, P, I), NEW ls, NEW p, NEW q
  PROVE  Sends(d, B!ExactRule(B!Name(ls, FALSE), p), host, q)
             <=> /\ host.ip = "none" /\ host.labels = ls
                 /\ Shown(d, host)
                 /\ B!port_matches(p, q)
<1> DEFINE r == B!Reader(d, <<>>, {})
           rule == B!ExactRule(B!Name(ls, FALSE), p)
<1>1. /\ rule.kind = "exact" /\ rule.host = [labels |-> ls, dot |-> FALSE, ip |-> "none"]
      /\ rule.host.ip = "none" /\ rule.port = p
  BY DEF B!ExactRule, B!Name
<1>2. host.dot \in BOOLEAN
  BY MetHostIs
<1>3. B!Stripped(r, host) = Seen(d, host)
  BY HostIsSeen
<1> HIDE DEF rule, r
<1>4. Sends(d, rule, host, q) <=> Seen(d, host) = rule.host /\ B!port_matches(p, q)
  BY <1>1, <1>3 DEF Sends, B!PatternMatches, r
<1>5. Seen(d, host) = rule.host
          <=> /\ host.labels = ls /\ host.ip = "none"
              /\ ~host.dot \/ d \in {"suffix", "macos"}
  <2> DEFINE dot == host.dot /\ d \notin {"suffix", "macos"}
             labels == host.labels
             ip == host.ip
  <2>1. /\ Seen(d, host) = [labels |-> labels, dot |-> dot, ip |-> ip]
        /\ dot \in BOOLEAN
    BY <1>2 DEF Seen
  <2>2. (dot = FALSE) <=> ~host.dot \/ d \in {"suffix", "macos"}
    BY <1>2
  <2> DEFINE no == FALSE
             none == "none"
  <2>3. rule.host = [labels |-> ls, dot |-> no, ip |-> none]
    BY <1>1
  <2>4. (dot = no) <=> ~host.dot \/ d \in {"suffix", "macos"}
    BY <2>2
  <2> HIDE DEF dot, labels, ip, no, none
  <2>5. [labels |-> labels, dot |-> dot, ip |-> ip] = [labels |-> ls, dot |-> no, ip |-> none]
            <=> labels = ls /\ dot = no /\ ip = none
    BY HostsAreTheirFields
  <2>6. Seen(d, host) = rule.host <=> labels = ls /\ dot = no /\ ip = none
    BY <2>1, <2>3, <2>5, Zenon
  <2> QED
    BY <2>4, <2>6, Zenon DEF labels, ip, none
<1> QED
  BY <1>4, <1>5 DEF rule, Shown

\* A rule for a domain meets the names below it, and its own if it says so.
LEMMA DomainsMeet ==
  ASSUME NEW d \in B!EntryDialects, NEW P, NEW I, NEW host \in MetHosts(d, P, I),
         NEW ls, NEW self, NEW p, NEW q
  PROVE  Sends(d, B!NameRule(ls, self, p), host, q)
             <=> /\ host.ip = "none" /\ B!IsSuffix(ls, host.labels)
                 /\ self \/ Len(host.labels) > Len(ls)
                 /\ Shown(d, host)
                 /\ B!port_matches(p, q)
<1> DEFINE r == B!Reader(d, <<>>, {})
           rule == B!NameRule(ls, self, p)
<1>1. /\ rule.kind = "domain" /\ rule.labels = ls /\ rule.match_self = self /\ rule.port = p
  BY DEF B!NameRule
<1>2. host.dot \in BOOLEAN
  BY MetHostIs
<1>3. B!Stripped(r, host) = Seen(d, host)
  BY HostIsSeen
<1> HIDE DEF rule, r
<1>4. Sends(d, rule, host, q) <=>
         /\ Seen(d, host).ip = "none" /\ ~Seen(d, host).dot
         /\ B!IsSuffix(rule.labels, Seen(d, host).labels)
         /\ rule.match_self \/ Len(Seen(d, host).labels) > Len(rule.labels)
         /\ B!port_matches(rule.port, q)
  BY <1>1, <1>3 DEF Sends, B!PatternMatches, r
<1>5. /\ Seen(d, host).ip = host.ip /\ Seen(d, host).labels = host.labels
      /\ Seen(d, host).dot <=> host.dot /\ d \notin {"suffix", "macos"}
  BY <1>2 DEF Seen
<1> QED
  BY <1>1, <1>4, <1>5 DEF rule, Shown

\* A rule with a star meets the destinations its text fits.
LEMMA GlobsMeet ==
  ASSUME NEW d \in B!EntryDialects, NEW P, NEW I, NEW host \in MetHosts(d, P, I), NEW ls, NEW p, NEW q
  PROVE  Sends(d, B!GlobRule(ls, p), host, q)
             <=> /\ Seen(d, host) \in B!Destinations /\ B!Glob(ls, B!HostText(Seen(d, host)))
                 /\ B!port_matches(p, q)
<1> DEFINE r == B!Reader(d, <<>>, {})
           rule == B!GlobRule(ls, p)
<1>1. /\ rule.kind = "wildcard" /\ rule.port = p
      /\ rule.hosts = {h \in B!Destinations : B!Glob(ls, B!HostText(h))}
  BY DEF B!GlobRule
<1>3. B!Stripped(r, host) = Seen(d, host)
  BY HostIsSeen
<1> HIDE DEF rule, r
<1>4. Sends(d, rule, host, q)
         <=> Seen(d, host) \in rule.hosts /\ B!port_matches(rule.port, q)
  BY <1>1, <1>3 DEF Sends, B!PatternMatches, r
<1> QED
  BY <1>1, <1>4 DEF rule

\* A rule for a block meets the addresses of the block.
LEMMA NetsMeet ==
  ASSUME NEW d \in B!EntryDialects, NEW P, NEW I, NEW host \in MetHosts(d, P, I), NEW net,
         net # {}, \A ip \in net : ip # "none" /\ B!Mapped(ip) = ip, NEW q
  PROVE  Sends(d, [kind |-> "cidr", net |-> net], host, q) <=> host.ip \in net
<1> DEFINE r == B!Reader(d, <<>>, {})
           rule == [kind |-> "cidr", net |-> net]
           seen(i) == IF r.ipv4_mapped_as_ipv4 THEN B!Mapped(i) ELSE i
<1>1. rule.kind = "cidr" /\ rule.net = net
  OBVIOUS
<1>2. host.ip # "none" => seen(host.ip) = host.ip
  BY ReadersRead, MetHostIs
<1>3. B!MappedNet(net) = net
  BY DEF B!MappedNet, B!IsMapped
<1> HIDE DEF rule, r
<1>4. Sends(d, rule, host, q) <=>
         /\ host.ip # "none"
         /\ seen(host.ip) \in IF r.ipv4_mapped_as_ipv4 THEN B!MappedNet(rule.net) ELSE rule.net
  BY <1>1 DEF Sends, B!PatternMatches, r
<1> QED
  BY <1>1, <1>2, <1>3, <1>4 DEF rule
-----------------------------------------------------------------------------
(* Labels.                                                                 *)

\* The labels that are read as an address.
AddressTexts == {B!Quad, B!Octal, <<"1">>, <<"1", "1">>, <<"::1">>}

\* Those labels fold to an address, and no others do.
LEMMA AddressTextsFold ==
  ASSUME NEW l
  PROVE  /\ B!FoldedAddress(l) # "none" <=> l \in AddressTexts
         /\ l \in AddressTexts => B!FoldedAddress(l) \in {"10.0.0.1", "8.0.0.1", "0.0.0.1", "1.0.0.1", "::1"}
<1>1. CASE l = B!Quad
  BY <1>1 DEF B!FoldedAddress, AddressTexts
<1>2. CASE l = B!Octal
  <2>1. B!Octal # B!Quad
    BY DEF B!Octal, B!Quad
  <2> QED
    BY <1>2, <2>1 DEF B!FoldedAddress, AddressTexts
<1>3. CASE l = <<"1">>
  <2>1. l # B!Quad /\ l # B!Octal
    BY <1>3 DEF B!Octal, B!Quad
  <2> QED
    BY <1>3, <2>1 DEF B!FoldedAddress, AddressTexts
<1>4. CASE l = <<"1", "1">>
  <2>1. l # B!Quad /\ l # B!Octal /\ l # <<"1">>
    BY <1>4 DEF B!Octal, B!Quad
  <2> QED
    BY <1>4, <2>1 DEF B!FoldedAddress, AddressTexts
<1>5. CASE l = <<"::1">>
  <2>1. l # B!Quad /\ l # B!Octal /\ l # <<"1">> /\ l # <<"1", "1">>
    BY <1>5 DEF B!Octal, B!Quad
  <2> QED
    BY <1>5, <2>1 DEF B!FoldedAddress, AddressTexts
<1>6. CASE l \notin AddressTexts
  <2>1. l # B!Quad /\ l # B!Octal /\ l # <<"1">> /\ l # <<"1", "1">> /\ l # <<"::1">>
    BY <1>6 DEF AddressTexts
  <2> QED
    BY <1>6, <2>1 DEF B!FoldedAddress
<1> QED
  BY <1>1, <1>2, <1>3, <1>4, <1>5, <1>6 DEF AddressTexts

\* None of them is empty, ends as a name does, or has a star.
LEMMA AddressTextsAre ==
  ASSUME NEW l \in AddressTexts
  PROVE  /\ l # <<>> /\ B!Last(l) \in {"1", "::1"} /\ ~B!HasStar(l)
         /\ \A i \in 1 .. Len(l) : l[i] \notin {"u8", "xn", "*", "u8*"}
         /\ Len(l) \in Nat
<1> DEFINE Is(t) == /\ t # <<>> /\ B!Last(t) \in {"1", "::1"} /\ ~B!HasStar(t)
                    /\ \A i \in 1 .. Len(t) : t[i] \notin {"u8", "xn", "*", "u8*"}
                    /\ Len(t) \in Nat
<1>1. Is(B!Quad)
  BY DEF B!Quad, B!Last, B!HasStar, B!Starred
<1>2. Is(B!Octal)
  BY DEF B!Octal, B!Last, B!HasStar, B!Starred
<1>3. Is(<<"1">>)
  BY DEF B!Last, B!HasStar, B!Starred
<1>4. Is(<<"1", "1">>)
  BY DEF B!Last, B!HasStar, B!Starred
<1>5. Is(<<"::1">>)
  BY DEF B!Last, B!HasStar, B!Starred
<1>6. l = B!Quad \/ l = B!Octal \/ l = <<"1">> \/ l = <<"1", "1">> \/ l = <<"::1">>
  BY Zenon DEF AddressTexts
<1> HIDE DEF Is
<1>7. Is(l)
  BY <1>1, <1>2, <1>3, <1>4, <1>5, <1>6, Zenon
<1> QED
  BY <1>7 DEF Is

\* The ASCII form has the labels it had, but for those that were not ASCII.
LEMMA AsciiIs ==
  ASSUME NEW P, NEW l \in Seq(P)
  PROVE  /\ Len(B!Ascii(l)) = Len(l)
         /\ \A i \in 1 .. Len(l) : B!Ascii(l)[i] = IF l[i] = "u8" THEN "xn" ELSE l[i]
         /\ B!Ascii(l) \in Seq(P \cup {"xn"})
         /\ l = <<>> <=> B!Ascii(l) = <<>>
BY DEF B!Ascii

\* Labels that are ASCII stay as they are.
LEMMA AsciiKeeps ==
  ASSUME NEW P, NEW l \in Seq(P), \A i \in 1 .. Len(l) : l[i] # "u8"
  PROVE  B!Ascii(l) = l
BY DEF B!Ascii

\* An address is ASCII, and nothing else becomes one.
LEMMA AsciiOfAddresses ==
  ASSUME NEW P, NEW l \in Seq(P)
  PROVE  /\ B!Ascii(l) \in AddressTexts <=> l \in AddressTexts
         /\ l \in AddressTexts => B!Ascii(l) = l
         /\ B!Ascii(l) \in AddressTexts => B!Ascii(l) = l
<1>1. ASSUME l \in AddressTexts PROVE B!Ascii(l) = l
  BY <1>1, AddressTextsAre, AsciiKeeps
<1>2. ASSUME B!Ascii(l) \in AddressTexts PROVE B!Ascii(l) = l
  <2>1. \A i \in 1 .. Len(l) : B!Ascii(l)[i] # "xn"
    BY <1>2, AddressTextsAre, AsciiIs
  <2>2. \A i \in 1 .. Len(l) : l[i] # "u8"
    BY <2>1, AsciiIs
  <2> QED
    BY <2>2, AsciiKeeps
<1> QED
  BY <1>1, <1>2

\* What parse_host says of a text.
LEMMA ParsedHosts ==
  ASSUME NEW l
  PROVE  /\ B!parse_host(l) \in {"address", "name", "fails"}
         /\ B!parse_host(l) = "address" <=> l \in AddressTexts
         /\ B!parse_host(l) = "name" <=> /\ l # <<>> /\ l \notin AddressTexts
                                         /\ B!Last(l) \notin B!Numbers
BY AddressTextsFold, AddressTextsAre DEF B!parse_host

\* A text ends in another, label by label.
LEMMA SuffixIs ==
  ASSUME NEW P, NEW s \in Seq(P), NEW Q, NEW t \in Seq(Q)
  PROVE  B!IsSuffix(s, t) <=> /\ Len(s) <= Len(t)
                              /\ \A k \in 1 .. Len(s) : t[Len(t) - Len(s) + k] = s[k]
<1>1. B!IsSuffix(s, t) <=> IsSuffix(s, t)
  BY DEF B!IsSuffix, IsSuffix, B!IsPrefix, IsPrefix, B!Reverse, Reverse
<1>2. From(s, 0 + 1) = s
  BY DEF From
<1>3. Len(s) <= Len(t) => (IsSuffix(s, t) <=> \A k \in 1 .. Len(s) : t[Len(t) - Len(s) + k] = s[k])
  <2>1. LET n == Len(s) - 0 IN
         /\ Len(From(s, 0 + 1)) = n
         /\ n <= Len(t) =>
              (IsSuffix(From(s, 0 + 1), t)
                 <=> \A k \in 1 .. n : t[Len(t) - n + k] = s[0 + k])
    <3>1. 0 \in Nat /\ 0 <= Len(s)
      OBVIOUS
    <3> QED
      BY ONLY s \in Seq(P), t \in Seq(Q), <3>1, SuffixesAgree
  <2>2. Len(s) - 0 = Len(s) /\ \A k \in 1 .. Len(s) : 0 + k = k
    OBVIOUS
  <2> QED
    BY <1>2, <2>1, <2>2
<1>4. IsSuffix(s, t) => Len(s) <= Len(t)
  BY DEF IsSuffix, IsPrefix, Reverse
<1> QED
  BY <1>1, <1>3, <1>4

\* The name of a destination is read as a name.
LEMMA NamesAreParsed ==
  ASSUME NEW P, NEW l \in MetNames(P)
  PROVE  l \in Seq(P) /\ B!parse_host(l) = "name"
<1>1. l \in Seq(P) /\ l # <<>> /\ B!Last(l) \notin B!Numbers /\ B!Last(l) \notin {"1", "::1"}
  BY DEF MetNames, B!Numbers
<1>2. l \notin AddressTexts
  BY <1>1, AddressTextsAre
<1> QED
  BY <1>1, <1>2, ParsedHosts

\* So is what a destination ends in.
LEMMA SuffixesOfNames ==
  ASSUME NEW P, NEW l \in MetNames(P), NEW Q, NEW s \in Seq(Q), s # <<>>,
         B!IsSuffix(s, l) \/ l = s
  PROVE  B!parse_host(s) = "name"
<1>1. CASE l = s
  BY <1>1, NamesAreParsed
<1>2. CASE B!IsSuffix(s, l)
  <2>1. l \in Seq(P) /\ l # <<>> /\ B!Last(l) \notin B!Numbers \cup {"::1"}
    BY DEF MetNames
  <2>2. /\ Len(s) <= Len(l)
        /\ \A k \in 1 .. Len(s) : l[Len(l) - Len(s) + k] = s[k]
    BY <1>2, <2>1, SuffixIs
  <2>3. Len(s) \in 1 .. Len(s) /\ Len(l) - Len(s) + Len(s) = Len(l)
    BY <2>1
  <2>4. B!Last(s) = B!Last(l)
    BY <2>2, <2>3 DEF B!Last
  <2>5. B!Last(s) \notin {"1", "::1"} /\ B!Last(s) \notin B!Numbers
    BY <2>1, <2>4 DEF B!Numbers
  <2> QED
    BY <2>5, ParsedHosts, AddressTextsAre
<1> QED
  BY <1>1, <1>2

\* What ends in a text is the text or lies below it.
LEMMA SelfOrBelow ==
  ASSUME NEW P, NEW l \in Seq(P), NEW Q, NEW s \in Seq(Q)
  PROVE  B!IsSuffix(s, l) <=> l = s \/ (B!IsSuffix(s, l) /\ Len(l) > Len(s))
<1>1. ASSUME B!IsSuffix(s, l), ~(Len(l) > Len(s)) PROVE l = s
  <2>1. /\ Len(s) <= Len(l)
        /\ \A k \in 1 .. Len(s) : l[Len(l) - Len(s) + k] = s[k]
    BY <1>1, SuffixIs
  <2>2. Len(s) = Len(l) /\ \A k \in 1 .. Len(s) : l[k] = s[k]
    BY <1>1, <2>1
  <2> QED
    BY <2>2
<1>2. ASSUME l = s PROVE B!IsSuffix(s, l)
  BY <1>2, SuffixIs
<1> QED
  BY <1>1, <1>2

-----------------------------------------------------------------------------
(* What an entry grants, by its form.                                      *)

\* A text that is no block.
ByText(d, e, host) ==
    \/ host.ip # "none" /\ B!NamesAddress(d, e, host.ip)
    \/ host.ip = "none" /\ e.mark = "" /\ B!NamesName(d, e, host)
    \/ e.mark = "" /\ B!NamesByStar(d, e, host)
    \/ B!Word(e, "*") /\ d \notin {"macos", "gnome"}

\* What a trimmed entry grants.
Granted(d, e, host, port) ==
    /\ e.edge = "" /\ e.mark \in {"", "["}
    /\ B!port_matches(e.port, port)
    /\ d = "macos" => e.port = B!NoPort
    /\ IF e.net # "none"
       THEN /\ host.ip \in {"10.0.0.1", "8.0.0.1", "0.0.0.1", "1.0.0.1"}
            /\ B!AddressLabels(host.ip)[1] \in B!BlockNames(d, e.net)
       ELSE ByText(d, e, host)

\* A word has nothing about it.
LEMMA WordsAre ==
  ASSUME NEW e, NEW w, B!Word(e, w)
  PROVE  /\ e.labels = <<w>> /\ e.lead = "" /\ e.edge = "" /\ ~e.dot /\ e.port = B!NoPort
         /\ e.net = "none" /\ e.mark = ""
BY DEF B!Word, B!Written, B!Blank

\* The labels a name is compared by.
Compared(d, e) == IF d = "gnome" THEN e.labels ELSE B!Ascii(e.labels)

\* Which names an entry names, dialect by dialect.
NamedSo(d, e, host) ==
    LET s == Compared(d, e)
        below == B!IsSuffix(s, host.labels) /\ Len(host.labels) > Len(s)
        self == host.labels = s
    IN
    /\ s # <<>> /\ ~B!HasStar(s)
    /\ Shown(d, host)
    /\ e.dot => d \in {"suffix", "macos"}
    /\ d = "gnome" => below \/ self
    /\ d \in {"suffix", "kde"} => below \/ (e.lead = "" /\ self)
    /\ d \in {"windows", "macos"} =>
           \/ e.lead = "" /\ self
           \/ e.lead = "*." /\ below
           \/ e.lead = "." /\ d = "macos" /\ below

\* That is what NamesName says.
LEMMA NamedBy ==
  ASSUME NEW d \in B!EntryDialects, NEW e, NEW host
  PROVE  B!NamesName(d, e, host) <=> NamedSo(d, e, host)
<1> DEFINE s == Compared(d, e)
           below == B!IsSuffix(s, host.labels) /\ Len(host.labels) > Len(s)
           self == host.labels = s
           shown == Shown(d, host)
           bare == e.lead = ""
           star == e.lead = "*."
           point == e.lead = "."
           ports == e.dot => d \in {"suffix", "macos"}
<1>1. B!NamesName(d, e, host) <=>
             /\ s # <<>> /\ ~B!HasStar(s)
             /\ shown
             /\ ports
             /\ CASE d = "gnome" -> below \/ self
                  [] d \in {"suffix", "kde"} -> below \/ (bare /\ self)
                  [] d \in {"windows", "macos"} ->
                        \/ bare /\ self
                        \/ star /\ below
                        \/ point /\ d = "macos" /\ below
  BY Zenon DEF B!NamesName, Compared, Shown
<1>2. NamedSo(d, e, host) <=>
             /\ s # <<>> /\ ~B!HasStar(s)
             /\ shown
             /\ ports
             /\ d = "gnome" => below \/ self
             /\ d \in {"suffix", "kde"} => below \/ (bare /\ self)
             /\ d \in {"windows", "macos"} =>
                    \/ bare /\ self
                    \/ star /\ below
                    \/ point /\ d = "macos" /\ below
  BY Zenon DEF NamedSo
<1> HIDE DEF s, below, self, shown, bare, star, point, ports
<1>3. d = "gnome" \/ d = "suffix" \/ d = "kde" \/ d = "windows" \/ d = "macos"
  BY DEF B!EntryDialects
<1> QED
  BY <1>1, <1>2, <1>3

\* The labels a name is compared by are labels.
LEMMA ComparedIs ==
  ASSUME NEW d, NEW Q, NEW e, e.labels \in Seq(Q)
  PROVE  Compared(d, e) \in Seq(Q \cup {"xn"})
BY AsciiIs DEF Compared

\* A host is named by what it ends in.
LEMMA NamedEnds ==
  ASSUME NEW d \in B!EntryDialects, NEW e, NEW host, B!NamesName(d, e, host)
  PROVE  /\ Compared(d, e) # <<>> /\ ~B!HasStar(Compared(d, e))
         /\ B!IsSuffix(Compared(d, e), host.labels) \/ host.labels = Compared(d, e)
<1> DEFINE s == Compared(d, e)
           below == B!IsSuffix(s, host.labels) /\ Len(host.labels) > Len(s)
           self == host.labels = s
           bare == e.lead = ""
           star == e.lead = "*."
           dots == e.lead = "."
<1>1. /\ s # <<>> /\ ~B!HasStar(s)
      /\ CASE d = "gnome" -> below \/ self
           [] d \in {"suffix", "kde"} -> below \/ (bare /\ self)
           [] d \in {"windows", "macos"} ->
                 \/ bare /\ self
                 \/ star /\ below
                 \/ dots /\ d = "macos" /\ below
  BY Zenon DEF B!NamesName, Compared
<1> HIDE DEF s, below, self, bare, star, dots
<1>2. d = "gnome" \/ d = "suffix" \/ d = "kde" \/ d = "windows" \/ d = "macos"
  BY DEF B!EntryDialects
<1>3. below \/ self
  BY <1>1, <1>2
<1>4. below => B!IsSuffix(s, host.labels)
  BY DEF below
<1> QED
  BY <1>1, <1>3, <1>4, Zenon DEF s, self

\* What names a host is read as a name and has no star.
LEMMA NamedAreNames ==
  ASSUME NEW d \in B!EntryDialects, NEW P, NEW I, NEW host \in MetHosts(d, P, I), host.ip = "none",
         NEW Q, NEW e, e.labels \in Seq(Q), B!NamesName(d, e, host)
  PROVE  B!parse_host(Compared(d, e)) = "name" /\ ~B!HasStar(Compared(d, e))
<1> DEFINE s == Compared(d, e)
           l == host.labels
<1>1. s \in Seq(Q \cup {"xn"})
  BY AsciiIs DEF Compared
<1>2. l \in MetNames(P)
  BY MetHostIs
<1>3. /\ s # <<>> /\ ~B!HasStar(s)
      /\ B!IsSuffix(s, l) \/ l = s
  BY NamedEnds, Zenon
<1> HIDE DEF s, l
<1>4. B!parse_host(s) = "name"
  BY <1>1, <1>2, <1>3, SuffixesOfNames
<1> QED
  BY <1>3, <1>4 DEF s

\* What names an address is the text of one, alone.
LEMMA AddressesNamed ==
  ASSUME NEW d, NEW Q, NEW e, e.labels \in Seq(Q), NEW ip, ip # "none",
         B!NamesAddress(d, e, ip)
  PROVE  /\ e.labels \in AddressTexts /\ ip = B!FoldedAddress(e.labels)
         /\ e.lead = "" /\ (e.dot => d \in {"suffix", "macos"})
         /\ d = "suffix" \/ B!IsAddressText(e.labels)
<1> DEFINE l == e.labels
<1>1. /\ e.lead = "" /\ (e.dot => d \in {"suffix", "macos"})
      /\ \/ B!IsAddressText(l) /\ B!FoldedAddress(l) = ip
         \/ d = "suffix" /\ B!FoldedAddress(B!Ascii(l)) = ip
  BY Zenon DEF B!NamesAddress
<1>2. l \in Seq(Q)
  OBVIOUS
<1> HIDE DEF l
<1>3. CASE B!IsAddressText(l) /\ B!FoldedAddress(l) = ip
  <2>1. l \in AddressTexts
    BY <1>3, AddressTextsFold
  <2> QED
    BY <1>1, <1>3, <2>1, Zenon DEF l
<1>4. CASE d = "suffix" /\ B!FoldedAddress(B!Ascii(l)) = ip
  <2>1. B!Ascii(l) \in AddressTexts
    BY <1>4, AddressTextsFold
  <2>2. B!Ascii(l) = l
    BY <1>2, <2>1, AsciiOfAddresses
  <2> QED
    BY <1>1, <1>4, <2>1, <2>2, Zenon DEF l
<1> QED
  BY <1>1, <1>3, <1>4

\* The text of an address names that address.
LEMMA AddressesAreNamed ==
  ASSUME NEW d, NEW Q, NEW e, e.labels \in Seq(Q), e.labels \in AddressTexts,
         e.lead = "", e.dot => d \in {"suffix", "macos"},
         d = "suffix" \/ B!IsAddressText(e.labels)
  PROVE  B!NamesAddress(d, e, B!FoldedAddress(e.labels))
<1>1. B!Ascii(e.labels) = e.labels
  BY AsciiOfAddresses
<1> QED
  BY <1>1, Zenon DEF B!NamesAddress

\* One star is a star, and nothing is none.
LEMMA AStarIsAStar == B!HasStar(<<"*">>) /\ ~B!HasStar(<<>>)
<1>1. Len(<<"*">>) = 1 /\ <<"*">>[1] = "*" /\ 1 \in 1 .. 1
  OBVIOUS
<1> QED
  BY <1>1 DEF B!HasStar, B!Starred

\* A label that is not ASCII has a star in both forms or in neither.
LEMMA StarsKept ==
  ASSUME NEW Q, NEW l \in Seq(Q)
  PROVE  B!HasStar(B!Ascii(l)) <=> B!HasStar(l)
BY AsciiIs DEF B!HasStar, B!Starred

\* Only a text with a star names by it, and not in GNOME's list.
LEMMA StarsNamed ==
  ASSUME NEW d, NEW e, NEW host, B!NamesByStar(d, e, host)
  PROVE  B!HasStar(B!Ascii(e.labels)) /\ d # "gnome"
BY DEF B!NamesByStar

\* The text of an address grants that address.
LEMMA TextOfAddress ==
  ASSUME NEW d \in B!EntryDialects, NEW P, NEW I, NEW host \in MetHosts(d, P, I),
         NEW Q, NEW e, e.labels \in Seq(Q), e.labels \in AddressTexts,
         e.lead = "", e.dot => d \in {"suffix", "macos"},
         d = "suffix" \/ B!IsAddressText(e.labels)
  PROVE  ByText(d, e, host) <=> host.ip = B!FoldedAddress(e.labels)
<1>1. B!FoldedAddress(e.labels) # "none" /\ B!parse_host(e.labels) = "address"
  BY AddressTextsFold, ParsedHosts
<1>2. B!Ascii(e.labels) = e.labels /\ ~B!HasStar(e.labels) /\ e.labels # <<"*">>
  <2>1. B!Ascii(e.labels) = e.labels
    BY AsciiOfAddresses
  <2>2. ~B!HasStar(e.labels)
    BY AddressTextsAre
  <2>3. e.labels # <<"*">>
    BY <2>2, AStarIsAStar, Zenon
  <2> QED
    BY <2>1, <2>2, <2>3
<1>3. ~B!Word(e, "*") /\ ~B!NamesByStar(d, e, host)
  BY <1>2, WordsAre, StarsNamed
<1>4. ~(host.ip = "none" /\ B!NamesName(d, e, host))
  <2>1. Compared(d, e) = e.labels
    BY <1>2, Zenon DEF Compared
  <2>2. B!parse_host(e.labels) # "name"
    BY <1>1
  <2> QED
    BY <2>1, <2>2, NamedAreNames
<1>5. ByText(d, e, host) <=> host.ip # "none" /\ B!NamesAddress(d, e, host.ip)
  BY <1>3, <1>4, Zenon DEF ByText
<1>6. ASSUME host.ip # "none", B!NamesAddress(d, e, host.ip)
      PROVE  host.ip = B!FoldedAddress(e.labels)
  BY <1>6, AddressesNamed, Zenon
<1>7. B!NamesAddress(d, e, B!FoldedAddress(e.labels))
  BY AddressesAreNamed, Zenon
<1> QED
  BY <1>1, <1>5, <1>6, <1>7, Zenon

\* The text of a name grants what it names.
LEMMA TextOfName ==
  ASSUME NEW d \in B!EntryDialects, NEW P, NEW I, NEW host \in MetHosts(d, P, I),
         NEW Q, NEW e, e.labels \in Seq(Q), e.mark = "",
         B!parse_host(Compared(d, e)) = "name", ~B!HasStar(Compared(d, e))
  PROVE  ByText(d, e, host) <=> host.ip = "none" /\ B!NamesName(d, e, host)
<1>1. Compared(d, e) = e.labels \/ Compared(d, e) = B!Ascii(e.labels)
  BY DEF Compared
<1>2. ~B!HasStar(e.labels) /\ ~B!HasStar(B!Ascii(e.labels))
  BY <1>1, StarsKept
<1>3. e.labels \notin AddressTexts
  BY <1>1, ParsedHosts, AsciiOfAddresses
<1>4. ~B!Word(e, "*")
  <2>1. B!HasStar(<<"*">>)
    BY AStarIsAStar
  <2> QED
    BY <1>2, <2>1, WordsAre
<1>5. ~B!NamesByStar(d, e, host)
  BY <1>2, StarsNamed
<1>6. ~(host.ip # "none" /\ B!NamesAddress(d, e, host.ip))
  BY <1>3, AddressesNamed
<1> QED
  BY <1>4, <1>5, <1>6, Zenon DEF ByText

\* A text with a star grants what it fits.
LEMMA TextOfStar ==
  ASSUME NEW d \in B!EntryDialects, NEW P, NEW I, NEW host \in MetHosts(d, P, I),
         NEW Q, NEW e, e.labels \in Seq(Q), e.mark = "", B!HasStar(B!Ascii(e.labels)),
         ~(B!Word(e, "*") /\ d \notin {"macos", "gnome"})
  PROVE  ByText(d, e, host) <=> B!NamesByStar(d, e, host)
<1>1. B!HasStar(e.labels)
  BY StarsKept
<1>2. B!HasStar(Compared(d, e))
  BY <1>1, Zenon DEF Compared
<1>3. ~(host.ip = "none" /\ B!NamesName(d, e, host))
  BY <1>2, NamedAreNames
<1>4. e.labels \notin AddressTexts
  BY <1>1, AddressTextsAre
<1>5. ~(host.ip # "none" /\ B!NamesAddress(d, e, host.ip))
  BY <1>4, AddressesNamed
<1> QED
  BY <1>3, <1>5, Zenon DEF ByText

\* No text grants nothing.
LEMMA TextOfNothing ==
  ASSUME NEW d \in B!EntryDialects, NEW P, NEW I, NEW host \in MetHosts(d, P, I),
         NEW Q, NEW e, e.labels \in Seq(Q), e.labels = <<>>
  PROVE  ~ByText(d, e, host)
<1>1. B!Ascii(e.labels) = e.labels
  BY AsciiIs
<1>2. Compared(d, e) = <<>>
  BY <1>1, Zenon DEF Compared
<1>3. ~B!HasStar(<<>>) /\ <<>> \notin AddressTexts
  BY AddressTextsAre, AStarIsAStar
<1>4. B!parse_host(<<>>) # "name" /\ ~B!Word(e, "*")
  <2>1. B!parse_host(<<>>) # "name"
    BY ParsedHosts
  <2>2. <<>> # <<"*">>
    BY AStarIsAStar, Zenon
  <2> QED
    BY <2>1, <2>2, WordsAre, Zenon
<1>5. ~(host.ip = "none" /\ B!NamesName(d, e, host))
  BY <1>2, <1>4, NamedAreNames
<1>6. ~(host.ip # "none" /\ B!NamesAddress(d, e, host.ip))
  <2>1. e.labels \notin AddressTexts
    BY <1>3
  <2> QED
    BY <2>1, AddressesNamed
<1>7. ~B!NamesByStar(d, e, host)
  BY <1>1, <1>3, StarsNamed
<1> QED
  BY <1>4, <1>5, <1>6, <1>7, Zenon DEF ByText

\* The address of a text is one that no list folds further.
LEMMA AddressesOfTexts ==
  ASSUME NEW l \in AddressTexts
  PROVE  B!FoldedAddress(l) # "none" /\ B!Mapped(B!FoldedAddress(l)) = B!FoldedAddress(l)
<1> DEFINE ip == B!FoldedAddress(l)
<1>1. ip \in {"10.0.0.1", "8.0.0.1", "0.0.0.1", "1.0.0.1", "::1"}
  BY AddressTextsFold
<1> HIDE DEF ip
<1>2. ip # "none" /\ B!Mapped(ip) = ip
  BY <1>1 DEF B!Mapped
<1> QED
  BY <1>2 DEF ip

\* A rule for the address of a text sends around what the text grants.
LEMMA SentByAddress ==
  ASSUME NEW d \in B!EntryDialects, NEW P, NEW I, NEW host \in MetHosts(d, P, I),
         NEW Q, NEW e, e.labels \in Seq(Q), e.labels \in AddressTexts,
         e.lead = "", e.dot => d \in {"suffix", "macos"},
         d = "suffix" \/ B!IsAddressText(e.labels), NEW q
  PROVE  Sends(d, B!ExactRule(B!Address(B!FoldedAddress(e.labels)), e.port), host, q)
             <=> B!port_matches(e.port, q) /\ ByText(d, e, host)
<1>1. ByText(d, e, host) <=> host.ip = B!FoldedAddress(e.labels)
  BY TextOfAddress, Zenon
<1> DEFINE ip == B!FoldedAddress(e.labels)
<1>2. ip # "none" /\ B!Mapped(ip) = ip
  BY AddressesOfTexts
<1> HIDE DEF ip
<1>3. Sends(d, B!ExactRule(B!Address(ip), e.port), host, q)
          <=> host.ip = ip /\ B!port_matches(e.port, q)
  BY ONLY d \in B!EntryDialects, host \in MetHosts(d, P, I), <1>2, AddressesMeet
<1> QED
  BY <1>1, <1>3, Zenon DEF ip

\* So does a rule for its name.
LEMMA SentByName ==
  ASSUME NEW d \in B!EntryDialects, NEW P, NEW I, NEW host \in MetHosts(d, P, I),
         NEW Q, NEW e, e.labels \in Seq(Q), e.mark = "",
         B!parse_host(Compared(d, e)) = "name", ~B!HasStar(Compared(d, e)),
         d \in {"windows", "macos"}, e.lead = "", e.dot => d \in {"suffix", "macos"}, NEW q
  PROVE  Sends(d, B!ExactRule(B!Name(Compared(d, e), FALSE), e.port), host, q)
             <=> B!port_matches(e.port, q) /\ ByText(d, e, host)
<1>1. ByText(d, e, host) <=> host.ip = "none" /\ B!NamesName(d, e, host)
  BY TextOfName
<1> DEFINE s == Compared(d, e)
           below == B!IsSuffix(s, host.labels) /\ Len(host.labels) > Len(s)
           self == host.labels = s
           shown == Shown(d, host)
<1>2. s # <<>>
  BY ParsedHosts
<1>3. B!NamesName(d, e, host) <=>
          /\ s # <<>> /\ ~B!HasStar(s)
          /\ shown
          /\ e.dot => d \in {"suffix", "macos"}
          /\ d = "gnome" => below \/ self
          /\ d \in {"suffix", "kde"} => below \/ (e.lead = "" /\ self)
          /\ d \in {"windows", "macos"} =>
                 \/ e.lead = "" /\ self
                 \/ e.lead = "*." /\ below
                 \/ e.lead = "." /\ d = "macos" /\ below
  <2>1. B!NamesName(d, e, host) <=> NamedSo(d, e, host)
    BY NamedBy
  <2> QED
    BY ONLY <2>1, Zenon DEF NamedSo, s, below, self, shown
<1>4. Sends(d, B!ExactRule(B!Name(s, FALSE), e.port), host, q)
         <=> host.ip = "none" /\ self /\ shown /\ B!port_matches(e.port, q)
  <2> HIDE DEF s
  <2> QED
    BY ONLY d \in B!EntryDialects, host \in MetHosts(d, P, I), NamesMeet
<1> HIDE DEF s, below, self, shown
<1>5. d # "gnome" /\ d \notin {"suffix", "kde"} /\ "" # "*." /\ "" # "."
  OBVIOUS
<1>6. ~B!HasStar(s)
  BY DEF s
<1>7. B!NamesName(d, e, host) <=> self /\ shown
  BY <1>2, <1>3, <1>5, <1>6, Zenon
<1> QED
  BY <1>1, <1>4, <1>7, Zenon DEF s

\* So does a rule for its domain.
LEMMA SentByDomain ==
  ASSUME NEW d \in B!EntryDialects, NEW P, NEW I, NEW host \in MetHosts(d, P, I),
         NEW Q, NEW e, e.labels \in Seq(Q), e.mark = "", e.lead \in {"", ".", "*."},
         B!parse_host(Compared(d, e)) = "name", ~B!HasStar(Compared(d, e)),
         d = "windows" => e.lead # ".", e.dot => d \in {"suffix", "macos"},
         NEW alone \in BOOLEAN,
         alone <=> d = "gnome" \/ e.lead = "",
         e.lead = "" => d \notin {"windows", "macos"}, NEW q
  PROVE  Sends(d, B!NameRule(Compared(d, e), alone, e.port), host, q)
             <=> B!port_matches(e.port, q) /\ ByText(d, e, host)
<1>1. ByText(d, e, host) <=> host.ip = "none" /\ B!NamesName(d, e, host)
  BY TextOfName
<1> DEFINE s == Compared(d, e)
           deeper == Len(host.labels) > Len(s)
           ends == B!IsSuffix(s, host.labels)
           self == host.labels = s
           shown == Shown(d, host)
<1>2. s # <<>> /\ s \in Seq(Q \cup {"xn"})
  <2>1. s # <<>>
    BY ParsedHosts
  <2>2. s \in Seq(Q \cup {"xn"})
    BY ComparedIs
  <2> QED
    BY <2>1, <2>2
<1>3. B!NamesName(d, e, host) <=>
          /\ s # <<>> /\ ~B!HasStar(s)
          /\ shown
          /\ e.dot => d \in {"suffix", "macos"}
          /\ d = "gnome" => (ends /\ deeper) \/ self
          /\ d \in {"suffix", "kde"} => (ends /\ deeper) \/ (e.lead = "" /\ self)
          /\ d \in {"windows", "macos"} =>
                 \/ e.lead = "" /\ self
                 \/ e.lead = "*." /\ (ends /\ deeper)
                 \/ e.lead = "." /\ d = "macos" /\ (ends /\ deeper)
  <2>1. B!NamesName(d, e, host) <=> NamedSo(d, e, host)
    BY NamedBy
  <2> QED
    BY ONLY <2>1, Zenon DEF NamedSo, s, ends, deeper, self, shown
<1>4. Sends(d, B!NameRule(s, alone, e.port), host, q)
         <=> host.ip = "none" /\ ends /\ (alone \/ deeper) /\ shown /\ B!port_matches(e.port, q)
  <2> HIDE DEF s
  <2> QED
    BY ONLY d \in B!EntryDialects, host \in MetHosts(d, P, I), alone \in BOOLEAN, DomainsMeet
<1>5. host.ip = "none" => (ends <=> self \/ (ends /\ deeper))
  <2>1. host.labels \in Seq(P)
    BY MetHostIs
  <2> HIDE DEF s
  <2> QED
    BY <1>2, <2>1, SelfOrBelow
<1> HIDE DEF s, ends, deeper, self, shown
<1>6. ~B!HasStar(s)
  BY DEF s
<1>7. d = "gnome" \/ d = "suffix" \/ d = "kde" \/ d = "windows" \/ d = "macos"
  BY DEF B!EntryDialects
<1>8. e.lead = "" \/ e.lead = "." \/ e.lead = "*."
  OBVIOUS
<1>9. host.ip = "none" => (B!NamesName(d, e, host) <=> shown /\ ends /\ (alone \/ deeper))
  <2> DEFINE bare == e.lead = ""
             star == e.lead = "*."
             point == e.lead = "."
             ports == e.dot => d \in {"suffix", "macos"}
  <2>1. /\ bare \/ point \/ star
        /\ bare => ~point /\ ~star
        /\ d = "windows" => ~point
        /\ alone <=> d = "gnome" \/ bare
        /\ bare => d \notin {"windows", "macos"}
        /\ ports
    BY <1>8, Zenon
  <2>2. B!NamesName(d, e, host) <=>
          /\ s # <<>> /\ ~B!HasStar(s)
          /\ shown
          /\ ports
          /\ d = "gnome" => (ends /\ deeper) \/ self
          /\ d \in {"suffix", "kde"} => (ends /\ deeper) \/ (bare /\ self)
          /\ d \in {"windows", "macos"} =>
                 \/ bare /\ self
                 \/ star /\ (ends /\ deeper)
                 \/ point /\ d = "macos" /\ (ends /\ deeper)
    BY <1>3, Zenon
  <2> HIDE DEF bare, star, point, ports
  <2> DEFINE named == B!NamesName(d, e, host)
  <2>3. SUFFICES ASSUME host.ip = "none"
                 PROVE  named <=> shown /\ ends /\ (alone \/ deeper)
    OBVIOUS
  <2>4. ends <=> self \/ (ends /\ deeper)
    BY <1>5, <2>3
  <2>5. named <=>
          /\ shown
          /\ d = "gnome" => (ends /\ deeper) \/ self
          /\ d \in {"suffix", "kde"} => (ends /\ deeper) \/ (bare /\ self)
          /\ d \in {"windows", "macos"} =>
                 \/ bare /\ self
                 \/ star /\ (ends /\ deeper)
                 \/ point /\ d = "macos" /\ (ends /\ deeper)
    BY <1>2, <1>6, <2>1, <2>2, Zenon
  <2> HIDE DEF named
  <2>6. CASE d = "gnome"
    BY <2>1, <2>4, <2>5, <2>6
  <2>7. CASE d \in {"suffix", "kde"}
    BY <2>1, <2>4, <2>5, <2>7
  <2>8. CASE d \in {"windows", "macos"}
    BY <2>1, <2>4, <2>5, <2>8
  <2> QED
    BY <1>7, <2>6, <2>7, <2>8
<1> QED
  BY <1>1, <1>4, <1>9, Zenon DEF s

\* What is seen of a host is the host, but for its dot.
LEMMA SeenIs ==
  ASSUME NEW d \in B!EntryDialects, NEW P, NEW I, NEW host \in MetHosts(d, P, I)
  PROVE  Seen(d, host) = IF d \in {"suffix", "macos"} THEN [host EXCEPT !.dot = FALSE] ELSE host
<1> DEFINE r == B!Reader(d, <<>>, {})
<1>1. r.strip_trailing_dot <=> d \in {"suffix", "macos"}
  BY ReadersRead
<1>2. B!Stripped(r, host) = Seen(d, host)
  BY HostIsSeen
<1> HIDE DEF r
<1>3. B!Stripped(r, host) = IF r.strip_trailing_dot THEN [host EXCEPT !.dot = FALSE] ELSE host
  BY Zenon DEF B!Stripped
<1> QED
  BY <1>1, <1>2, <1>3, Zenon

\* What a text with a star is compared with: all of it, after what stands in front.
StarText(e) == (IF e.lead = "" THEN <<>> ELSE <<"*">>) \o B!Ascii(e.labels)

\* Where a star may stand.
StarFits(d, e) ==
    LET a == B!Ascii(e.labels) IN
    /\ d # "gnome"
    /\ d = "windows" => e.lead # "."
    /\ d = "macos" => /\ e.lead = "" /\ Len(a) > 1 /\ B!Last(a) = "*"
                      /\ ~B!HasStar(B!Front(a))

\* That is what NamesByStar says.
LEMMA StarsFit ==
  ASSUME NEW d \in B!EntryDialects, NEW P, NEW I, NEW host \in MetHosts(d, P, I), NEW e
  PROVE  B!NamesByStar(d, e, host) <=>
             /\ B!HasStar(B!Ascii(e.labels))
             /\ B!Glob(StarText(e), B!HostText(Seen(d, host)))
             /\ StarFits(d, e)
<1> DEFINE a == B!Ascii(e.labels)
           seen == IF d \in {"suffix", "macos"}
                   THEN B!HostText([host EXCEPT !.dot = FALSE]) ELSE B!HostText(host)
           met == B!Glob(StarText(e), seen)
           bare == e.lead = ""
           point == e.lead = "."
           star == B!HasStar(a)
           last == Len(a) > 1 /\ B!Last(a) = "*" /\ ~B!HasStar(B!Front(a))
<1>1. B!NamesByStar(d, e, host) <=>
          /\ star /\ met
          /\ CASE d \in {"suffix", "kde"} -> TRUE
               [] d = "windows" -> ~point
               [] d = "macos" -> bare /\ last
               [] d = "gnome" -> FALSE
  BY Zenon DEF B!NamesByStar, StarText
<1>2. seen = B!HostText(Seen(d, host))
  <2>1. Seen(d, host) = IF d \in {"suffix", "macos"} THEN [host EXCEPT !.dot = FALSE] ELSE host
    BY SeenIs
  <2> QED
    BY <2>1, Zenon
<1>3. StarFits(d, e) <=> d # "gnome" /\ (d = "windows" => ~point) /\ (d = "macos" => bare /\ last)
  BY Zenon DEF StarFits
<1> HIDE DEF a, met, bare, point, star, last
<1>4. d = "gnome" \/ d = "suffix" \/ d = "kde" \/ d = "windows" \/ d = "macos"
  BY DEF B!EntryDialects
<1>5. B!NamesByStar(d, e, host) <=> star /\ met /\ StarFits(d, e)
  BY <1>1, <1>3, <1>4
<1> QED
  BY <1>2, <1>5, Zenon DEF met, star, a

\* A rule with a star sends around what its text grants.
LEMMA SentByStar ==
  ASSUME NEW d \in B!EntryDialects, NEW P, NEW I, NEW host \in MetHosts(d, P, I),
         NEW Q, NEW e, e.labels \in Seq(Q), e.mark = "", B!HasStar(B!Ascii(e.labels)),
         ~(B!Word(e, "*") /\ d \notin {"macos", "gnome"}), StarFits(d, e),
         Seen(d, host) \in B!Destinations, NEW q
  PROVE  Sends(d, B!GlobRule(StarText(e), e.port), host, q)
             <=> B!port_matches(e.port, q) /\ ByText(d, e, host)
<1>1. ByText(d, e, host) <=> B!NamesByStar(d, e, host)
  BY TextOfStar, Zenon
<1>2. B!NamesByStar(d, e, host) <=> B!Glob(StarText(e), B!HostText(Seen(d, host)))
  BY StarsFit, Zenon
<1> DEFINE t == StarText(e)
<1>3. Sends(d, B!GlobRule(t, e.port), host, q)
          <=> B!Glob(t, B!HostText(Seen(d, host))) /\ B!port_matches(e.port, q)
  <2> HIDE DEF t
  <2> QED
    BY ONLY d \in B!EntryDialects, host \in MetHosts(d, P, I),
            Seen(d, host) \in B!Destinations, GlobsMeet
<1> QED
  BY <1>1, <1>2, <1>3, Zenon

\* The addresses of a block: what its reader says of the first octet.
NetIs(first) == IF first = "10" THEN {"10.0.0.1"} ELSE {"8.0.0.1"}

\* The rule of a block.
LEMMA NetRulesAre ==
  ASSUME NEW first \in {"10", "8"}
  PROVE  B!NetRule(first) = [kind |-> "cidr", net |-> NetIs(first)]
<1>1. /\ B!AddressLabels("10.0.0.1")[1] = "10" /\ B!AddressLabels("8.0.0.1")[1] = "8"
      /\ B!AddressLabels("0.0.0.1")[1] = "0" /\ B!AddressLabels("1.0.0.1")[1] = "1"
  BY DEF B!AddressLabels, B!Quad
<1>2. {ip \in {"10.0.0.1", "8.0.0.1", "0.0.0.1", "1.0.0.1"} : B!AddressLabels(ip)[1] = first}
          = NetIs(first)
  <2>1. CASE first = "10"
    BY <1>1, <2>1 DEF NetIs
  <2>2. CASE first = "8"
    BY <1>1, <2>2 DEF NetIs
  <2> QED
    BY <2>1, <2>2
<1> QED
  BY <1>2, Zenon DEF B!NetRule

\* It sends around the addresses that begin as the block does.
LEMMA SentByNet ==
  ASSUME NEW d \in B!EntryDialects, NEW P, NEW I, NEW host \in MetHosts(d, P, I),
         NEW first \in {"10", "8"}, NEW q
  PROVE  Sends(d, B!NetRule(first), host, q) <=>
             /\ host.ip \in {"10.0.0.1", "8.0.0.1", "0.0.0.1", "1.0.0.1"}
             /\ B!AddressLabels(host.ip)[1] \in {first}
<1> DEFINE net == NetIs(first)
<1>1. net # {} /\ \A ip \in net : ip # "none" /\ B!Mapped(ip) = ip
  BY DEF NetIs, B!Mapped
<1>2. Sends(d, [kind |-> "cidr", net |-> net], host, q) <=> host.ip \in net
  <2> HIDE DEF net
  <2> QED
    BY ONLY d \in B!EntryDialects, host \in MetHosts(d, P, I), <1>1, NetsMeet
<1>3. B!NetRule(first) = [kind |-> "cidr", net |-> net]
  BY NetRulesAre
<1>4. B!NetRule(first).net = net
  BY <1>3
<1>5. B!NetRule(first).net = {ip \in {"10.0.0.1", "8.0.0.1", "0.0.0.1", "1.0.0.1"} :
                                  B!AddressLabels(ip)[1] = first}
  BY DEF B!NetRule
<1> QED
  BY <1>2, <1>3, <1>4, <1>5, Zenon

-----------------------------------------------------------------------------
(* What a text that can be read becomes.                                   *)

\* The dots that are part of the text.
Dotted(d, e) == e.dot => d \in {"suffix", "macos"}

\* A text that became a rule for an address, for a star, for a name or a domain.
AddressForm(d, e, rule) ==
    /\ e.mark \in {"", "["}
    /\ e.labels \in AddressTexts /\ e.lead = "" /\ Dotted(d, e)
    /\ d = "suffix" \/ B!IsAddressText(e.labels)
    /\ rule = B!ExactRule(B!Address(B!FoldedAddress(e.labels)), e.port)

StarForm(d, e, rule) ==
    /\ e.mark = "" /\ B!HasStar(B!Ascii(e.labels)) /\ StarFits(d, e)
    /\ rule = B!GlobRule(StarText(e), e.port)

\* A text that is compared as a name.
IsNamed(d, e) ==
    /\ e.mark = "" /\ Dotted(d, e)
    /\ B!parse_host(Compared(d, e)) = "name" /\ ~B!HasStar(Compared(d, e))

NameForm(d, e, rule) ==
    /\ IsNamed(d, e) /\ d \in {"windows", "macos"} /\ e.lead = ""
    /\ rule = B!ExactRule(B!Name(Compared(d, e), FALSE), e.port)

DomainForm(d, e, rule) ==
    /\ IsNamed(d, e)
    /\ d = "windows" => e.lead # "."
    /\ e.lead = "" => d \notin {"windows", "macos"}
    /\ rule = B!NameRule(Compared(d, e), d = "gnome" \/ e.lead = "", e.port)

\* What GLib compares as it is written.
Verbatim(e) ==
    /\ ~e.dot
    /\ ~B!Contains(e.labels, "u8")
    /\ e.labels \in AddressTexts => B!IsAddressText(e.labels)

\* A text that parse_in comes to read as a name or an address.
Legible(d, e) ==
    /\ e.lead \in {"", ".", "*."} /\ e.mark \in {"", "[", ".."}
    /\ ~B!Misplaced(d, e)
    /\ d = "windows" /\ e.lead = "." => e.labels = <<>>
    /\ d = "gnome" => Verbatim(e)

\* What can be read of a text: its marks, its dots, what it is compared by.
LEMMA LegibleMarks ==
  ASSUME NEW d \in B!EntryDialects, NEW Q, NEW e, e.labels \in Seq(Q), Legible(d, e),
         e.labels # <<>>, ~B!Unreachable(e, B!Ascii(e.labels))
  PROVE  /\ e.mark = "" \/ (e.mark = "[" /\ e.labels \in AddressTexts)
         /\ ~B!HasStar(e.labels) => Dotted(d, e)
         /\ e.lead # "" => \/ B!parse_host(B!Ascii(e.labels)) = "name"
                           \/ B!HasStar(B!Ascii(e.labels))
         /\ d = "gnome" => B!Ascii(e.labels) = e.labels
         /\ Compared(d, e) = B!Ascii(e.labels)
<1> DEFINE l == e.labels
           a == B!Ascii(l)
<1>1. /\ e.lead \in {"", ".", "*."} /\ e.mark \in {"", "[", ".."}
      /\ ~B!Misplaced(d, e) /\ (d = "gnome" => Verbatim(e))
  BY Zenon DEF Legible
<1>2. e.mark # ".."
  BY DEF B!Unreachable
<1>3. e.mark = "[" => l \in AddressTexts
  <2>1. e.mark = "[" => B!parse_host(l) = "address"
    BY <1>1, Zenon DEF B!Misplaced
  <2> QED
    BY <2>1, ParsedHosts
<1>4. ASSUME ~B!HasStar(l), e.dot PROVE d \in {"suffix", "macos"}
  <2>1. \E i \in DOMAIN l : l[i] # "*"
    <3>1. 1 \in 1 .. Len(l) /\ 1 \in DOMAIN l
      OBVIOUS
    <3>2. l[1] # "*"
      BY <1>4, <3>1 DEF B!HasStar, B!Starred
    <3> QED
      BY <3>1, <3>2
  <2>2. d \notin {"windows", "kde"}
    BY <1>1, <1>4, <2>1, Zenon DEF B!Misplaced
  <2>3. d # "gnome"
    BY <1>1, <1>4, Zenon DEF Verbatim
  <2> QED
    BY <2>2, <2>3 DEF B!EntryDialects
<1>5. a # <<>>
  BY AsciiIs
<1>6. e.lead # "" => B!parse_host(a) = "name" \/ B!HasStar(a)
  <2>1. e.lead # "" => /\ B!parse_host(a) # "address"
                       /\ B!parse_host(a) = "fails" => B!FitsADottedQuad(a)
    BY <1>5, Zenon DEF B!Unreachable
  <2>2. B!FitsADottedQuad(a) => B!HasStar(a)
    BY Zenon DEF B!FitsADottedQuad
  <2> QED
    BY <2>1, <2>2, ParsedHosts
<1>7. d = "gnome" => a = l
  <2>1. d = "gnome" => ~B!Contains(l, "u8")
    BY <1>1, Zenon DEF Verbatim
  <2>2. ~B!Contains(l, "u8") => \A i \in 1 .. Len(l) : l[i] # "u8"
    BY DEF B!Contains
  <2> QED
    BY <2>1, <2>2, AsciiKeeps
<1>8. Compared(d, e) = a
  BY <1>7, Zenon DEF Compared
<1>9. e.mark = "" \/ (e.mark = "[" /\ l \in AddressTexts)
  BY <1>1, <1>2, <1>3
<1> QED
  BY <1>4, <1>6, <1>7, <1>8, <1>9, Zenon DEF Dotted

\* What BareParsed says, for any labels.
LEMMA BareIs ==
  ASSUME NEW d \in B!EntryDialects, NEW l, NEW p
  PROVE  B!BareParsed(d, l, p) =
             IF B!parse_host(l) = "fails" THEN B!Refused
             ELSE IF B!parse_host(l) = "address"
             THEN IF d \in {"windows", "macos", "kde"} THEN B!Refused
                  ELSE B!ExactRule(B!Address(B!FoldedAddress(l)), p)
             ELSE IF d \in {"windows", "macos"} THEN B!ExactRule(B!Name(l, FALSE), p)
             ELSE B!NameRule(l, TRUE, p)
<1> DEFINE one == B!ExactRule(B!Address(B!FoldedAddress(l)), p)
           two == B!ExactRule(B!Name(l, FALSE), p)
           three == B!NameRule(l, TRUE, p)
           no == B!Refused
<1>1. B!BareParsed(d, l, p) =
          CASE B!parse_host(l) = "fails" -> no
            [] B!parse_host(l) = "address" -> IF d \in {"windows", "macos", "kde"} THEN no ELSE one
            [] OTHER -> IF d \in {"windows", "macos"} THEN two ELSE three
  BY Zenon DEF B!BareParsed
<1> HIDE DEF one, two, three, no
<1>2. B!BareParsed(d, l, p) =
          IF B!parse_host(l) = "fails" THEN no
          ELSE IF B!parse_host(l) = "address"
          THEN IF d \in {"windows", "macos", "kde"} THEN no ELSE one
          ELSE IF d \in {"windows", "macos"} THEN two ELSE three
  <2>1. CASE B!parse_host(l) = "fails"
    BY <1>1, <2>1
  <2>2. CASE B!parse_host(l) = "address"
    BY <1>1, <2>2
  <2>3. CASE B!parse_host(l) # "fails" /\ B!parse_host(l) # "address"
    BY <1>1, <2>3
  <2> QED
    BY <2>1, <2>2, <2>3
<1> QED
  BY <1>2, Zenon DEF one, two, three, no

\* A star is refused, or stands where its reader has one.
LEMMA StarIs ==
  ASSUME NEW d \in B!EntryDialects, NEW Q, NEW e, e.labels \in Seq(Q),
         d = "windows" => e.lead # "."
  PROVE  \/ B!StarParsed(d, e, B!Ascii(e.labels)) = B!Refused
         \/ /\ B!StarParsed(d, e, B!Ascii(e.labels)) = B!GlobRule(StarText(e), e.port)
            /\ StarFits(d, e)
<1> DEFINE a == B!Ascii(e.labels)
           fits == /\ e.lead = ""
                   /\ Len(a) > 1 /\ B!Last(a) = "*"
                   /\ ~B!HasStar(B!Front(a))
           one == B!GlobRule(a, e.port)
           two == B!GlobRule(StarText(e), e.port)
           no == B!Refused
           point == e.lead = "."
<1>1. B!StarParsed(d, e, a) =
          CASE d = "gnome" -> no
            [] d = "macos" -> IF fits THEN one ELSE no
            [] OTHER -> two
  BY Zenon DEF B!StarParsed, StarText
<1>2. fits => one = two
  <2>1. a \in Seq(Q \cup {"xn"}) /\ <<>> \o a = a
    BY AsciiIs
  <2>2. fits => StarText(e) = <<>> \o a
    BY Zenon DEF StarText
  <2> QED
    BY <2>1, <2>2, Zenon
<1>3. StarFits(d, e) <=> d # "gnome" /\ (d = "windows" => ~point) /\ (d = "macos" => fits)
  BY Zenon DEF StarFits
<1>4. d = "windows" => ~point
  OBVIOUS
<1>5. d = "gnome" \/ d = "suffix" \/ d = "kde" \/ d = "windows" \/ d = "macos"
  BY DEF B!EntryDialects
<1> DEFINE parsed == B!StarParsed(d, e, a)
<1> HIDE DEF fits, one, two, no, point, parsed
<1>6. parsed = no \/ (parsed = two /\ StarFits(d, e))
  <2>1. CASE d = "gnome"
    BY <1>1, <2>1 DEF parsed
  <2>2. CASE d = "macos"
    BY <1>1, <1>2, <1>3, <2>2 DEF parsed
  <2>3. CASE d # "gnome" /\ d # "macos"
    BY <1>1, <1>3, <1>4, <2>3 DEF parsed
  <2> QED
    BY <2>1, <2>2, <2>3
<1> QED
  BY <1>6, Zenon DEF parsed, no, two, a

\* What a legible text becomes.
LEMMA TextsBecome ==
  ASSUME NEW d \in B!EntryDialects, NEW Q, NEW e, e.labels \in Seq(Q), Legible(d, e)
  PROVE  LET rule == B!NameParsed(d, e) IN
         \/ rule = B!Refused
         \/ rule = B!NoRule /\ e.labels = <<>>
         \/ AddressForm(d, e, rule) \/ StarForm(d, e, rule)
         \/ NameForm(d, e, rule) \/ DomainForm(d, e, rule)
<1> DEFINE l == e.labels
           a == B!Ascii(l)
           rule == B!NameParsed(d, e)
           lost == B!NotIdna(l) \/ B!Unreachable(e, a)
           exact == B!ExactRule(B!Address(B!FoldedAddress(a)), e.port)
           starred == B!StarParsed(d, e, a)
           below == B!Subdomains(d, a, e.port)
           bare == B!BareParsed(d, a, e.port)
<1>1. rule = IF lost THEN B!Refused
             ELSE IF a = <<>> THEN B!NoRule
             ELSE IF a \in {B!Quad, <<"::1">>} THEN exact
             ELSE IF B!HasStar(a) THEN starred
             ELSE IF e.lead # "" THEN below ELSE bare
  BY Zenon DEF B!NameParsed
<1>2. CASE lost
  BY <1>1, <1>2, Zenon
<1>3. CASE ~lost /\ a = <<>>
  <2>1. l = <<>>
    BY <1>3, AsciiIs
  <2> QED
    BY <1>1, <1>3, <2>1, Zenon
<1> SUFFICES ASSUME ~lost, a # <<>>
             PROVE  \/ rule = B!Refused
                    \/ AddressForm(d, e, rule) \/ StarForm(d, e, rule)
                    \/ NameForm(d, e, rule) \/ DomainForm(d, e, rule)
  BY <1>2, <1>3, Zenon
<1>4. l # <<>>
  BY AsciiIs
<1>5. /\ e.mark = "" \/ (e.mark = "[" /\ l \in AddressTexts)
      /\ ~B!HasStar(l) => Dotted(d, e)
      /\ e.lead # "" => B!parse_host(a) = "name" \/ B!HasStar(a)
      /\ d = "gnome" => a = l
      /\ Compared(d, e) = a
  BY <1>4, LegibleMarks
<1> e.mark \in {"", "["}
  BY <1>5
<1>6. B!HasStar(l) <=> B!HasStar(a)
  BY StarsKept
<1>7. ASSUME a \in AddressTexts PROVE a = l /\ e.lead = "" /\ Dotted(d, e)
  <2>1. a = l
    BY <1>7, AsciiOfAddresses
  <2>2. ~B!HasStar(a) /\ B!parse_host(a) # "name"
    BY <1>7, AddressTextsAre, ParsedHosts
  <2> QED
    BY <1>5, <1>6, <2>1, <2>2, Zenon
<1>8. CASE a \in {B!Quad, <<"::1">>}
  <2>1. a \in AddressTexts
    BY <1>8 DEF AddressTexts
  <2>2. rule = exact
    BY <1>1, <1>8, Zenon
  <2>3. B!IsAddressText(a)
    BY <1>8, Zenon DEF B!IsAddressText
  <2>4. AddressForm(d, e, rule)
    BY <1>7, <2>1, <2>2, <2>3, Zenon DEF AddressForm
  <2> QED
    BY <2>4
<1>9. CASE a \notin {B!Quad, <<"::1">>} /\ B!HasStar(a)
  <2>1. rule = starred
    BY <1>1, <1>9, Zenon
  <2>2. e.mark = ""
    BY <1>5, <1>6, <1>9, AddressTextsAre
  <2>3. d = "windows" => e.lead # "."
    BY <1>4, Zenon DEF Legible
  <2>4. starred = B!Refused \/ (starred = B!GlobRule(StarText(e), e.port) /\ StarFits(d, e))
    BY <2>3, StarIs, Zenon
  <2> QED
    BY <1>9, <2>1, <2>2, <2>4, Zenon DEF StarForm
<1>10. ASSUME ~B!HasStar(a), B!parse_host(a) = "name" PROVE IsNamed(d, e)
  <2>1. l \notin AddressTexts
    BY <1>10, ParsedHosts, AsciiOfAddresses
  <2> QED
    BY <1>5, <1>6, <1>10, <2>1, Zenon DEF IsNamed
<1>11. CASE a \notin {B!Quad, <<"::1">>} /\ ~B!HasStar(a) /\ e.lead # ""
  <2>1. rule = B!NameRule(a, d = "gnome", e.port)
    <3>1. rule = below
      BY <1>1, <1>11, Zenon
    <3> QED
      BY <3>1, Zenon DEF B!Subdomains
  <2>2. IsNamed(d, e)
    BY <1>5, <1>10, <1>11
  <2>3. d = "windows" => e.lead # "."
    BY <1>4, Zenon DEF Legible
  <2>4. (d = "gnome" \/ e.lead = "") = (d = "gnome")
    BY <1>11
  <2>5. DomainForm(d, e, rule)
    BY <1>5, <1>11, <2>1, <2>2, <2>3, <2>4, Zenon DEF DomainForm
  <2> QED
    BY <2>5
<1>12. CASE a \notin {B!Quad, <<"::1">>} /\ ~B!HasStar(a) /\ e.lead = ""
  <2>1. rule = IF B!parse_host(a) = "fails" THEN B!Refused
               ELSE IF B!parse_host(a) = "address"
               THEN IF d \in {"windows", "macos", "kde"} THEN B!Refused ELSE exact
               ELSE IF d \in {"windows", "macos"} THEN B!ExactRule(B!Name(a, FALSE), e.port)
               ELSE B!NameRule(a, TRUE, e.port)
    <3>1. rule = bare
      BY <1>1, <1>12, Zenon
    <3> QED
      BY <3>1, BareIs, Zenon
  <2>2. CASE B!parse_host(a) = "fails"
    BY <2>1, <2>2, Zenon
  <2>3. CASE B!parse_host(a) = "address"
    <3>1. a \in AddressTexts
      BY <2>3, ParsedHosts
    <3>2. a = l /\ e.lead = "" /\ Dotted(d, e)
      BY <1>7, <3>1
    <3>3. "address" # "fails"
      OBVIOUS
    <3>4. rule = B!Refused \/ (d \notin {"windows", "macos", "kde"} /\ rule = exact)
      BY <2>1, <2>3, <3>3, Zenon
    <3>5. d \notin {"windows", "macos", "kde"} => d = "suffix" \/ d = "gnome"
      BY DEF B!EntryDialects
    <3>6. d = "gnome" => B!IsAddressText(l)
      BY <3>1, <3>2, Zenon DEF Legible, Verbatim
    <3> QED
      BY <3>1, <3>2, <3>4, <3>5, <3>6, Zenon DEF AddressForm
  <2>4. CASE B!parse_host(a) = "name"
    <3>1. IsNamed(d, e)
      BY <1>10, <1>12, <2>4
    <3>2. "name" # "fails" /\ "name" # "address"
      OBVIOUS
    <3>3. rule = IF d \in {"windows", "macos"} THEN B!ExactRule(B!Name(a, FALSE), e.port)
                 ELSE B!NameRule(a, TRUE, e.port)
      BY <2>1, <2>4, <3>2, Zenon
    <3>4. CASE d \in {"windows", "macos"}
      BY <1>5, <1>12, <3>1, <3>3, <3>4, Zenon DEF NameForm
    <3>5. CASE d \notin {"windows", "macos"}
      <4>1. rule = B!NameRule(a, TRUE, e.port)
        BY <3>3, <3>5, Zenon
      <4>2. (d = "gnome" \/ e.lead = "") = TRUE
        BY <1>12
      <4>3. d # "windows"
        BY <3>5
      <4> QED
        BY <1>5, <3>1, <3>5, <4>1, <4>2, <4>3, Zenon DEF DomainForm
    <3> QED
      BY <3>4, <3>5
  <2> QED
    BY <2>2, <2>3, <2>4, ParsedHosts
<1> QED
  BY <1>8, <1>9, <1>11, <1>12

\* A text that became a rule.
TextForm(d, e, rule) ==
    AddressForm(d, e, rule) \/ StarForm(d, e, rule) \/ NameForm(d, e, rule) \/ DomainForm(d, e, rule)

\* That is a rule.
LEMMA FormsAreRules ==
  ASSUME NEW d, NEW e, NEW rule, TextForm(d, e, rule)
  PROVE  /\ rule.kind \in {"exact", "wildcard", "domain"} /\ e.mark \in {"", "["}
         /\ rule # B!NoRule /\ rule # B!Refused
<1>1. rule.kind \in {"exact", "wildcard", "domain"}
  <2>1. CASE AddressForm(d, e, rule)
    <3>1. rule = B!ExactRule(B!Address(B!FoldedAddress(e.labels)), e.port)
      BY <2>1, Zenon DEF AddressForm
    <3> QED
      BY <3>1 DEF B!ExactRule
  <2>2. CASE StarForm(d, e, rule)
    <3>1. rule = B!GlobRule(StarText(e), e.port)
      BY <2>2, Zenon DEF StarForm
    <3> QED
      BY <3>1 DEF B!GlobRule
  <2>3. CASE NameForm(d, e, rule)
    <3>1. rule = B!ExactRule(B!Name(Compared(d, e), FALSE), e.port)
      BY <2>3, Zenon DEF NameForm
    <3> QED
      BY <3>1 DEF B!ExactRule
  <2>4. CASE DomainForm(d, e, rule)
    <3>1. rule = B!NameRule(Compared(d, e), d = "gnome" \/ e.lead = "", e.port)
      BY <2>4, Zenon DEF DomainForm
    <3> QED
      BY <3>1 DEF B!NameRule
  <2> QED
    BY <2>1, <2>2, <2>3, <2>4 DEF TextForm
<1>2. e.mark \in {"", "["}
  <2>1. CASE AddressForm(d, e, rule)
    BY <2>1, Zenon DEF AddressForm
  <2>2. CASE e.mark = ""
    BY <2>2
  <2>3. StarForm(d, e, rule) \/ NameForm(d, e, rule) \/ DomainForm(d, e, rule) => e.mark = ""
    BY Zenon DEF StarForm, NameForm, DomainForm, IsNamed
  <2> QED
    BY <2>1, <2>2, <2>3, Zenon DEF TextForm
<1>3. B!NoRule.kind = "none" /\ B!Refused.kind = "refused"
  BY DEF B!NoRule, B!Refused
<1>4. rule.kind # "none" /\ rule.kind # "refused"
  BY <1>1
<1> QED
  BY <1>1, <1>2, <1>3, <1>4, Zenon

\* And it sends around what the text grants.
LEMMA FormsSend ==
  ASSUME NEW d \in B!EntryDialects, NEW P, NEW I, NEW host \in MetHosts(d, P, I),
         NEW Q, NEW e, e.labels \in Seq(Q), e.lead \in {"", ".", "*."},
         ~(B!Word(e, "*") /\ d \notin {"macos", "gnome"}),
         B!HasStar(B!Ascii(e.labels)) => Seen(d, host) \in B!Destinations,
         NEW rule, TextForm(d, e, rule), NEW q
  PROVE  Sends(d, rule, host, q) <=> B!port_matches(e.port, q) /\ ByText(d, e, host)
<1>1. CASE AddressForm(d, e, rule)
  <2>1. /\ e.labels \in AddressTexts /\ e.lead = "" /\ (e.dot => d \in {"suffix", "macos"})
        /\ d = "suffix" \/ B!IsAddressText(e.labels)
        /\ rule = B!ExactRule(B!Address(B!FoldedAddress(e.labels)), e.port)
    BY <1>1, Zenon DEF AddressForm, Dotted
  <2>2. Sends(d, B!ExactRule(B!Address(B!FoldedAddress(e.labels)), e.port), host, q)
             <=> B!port_matches(e.port, q) /\ ByText(d, e, host)
    BY <2>1, SentByAddress, Zenon
  <2> QED
    BY <2>1, <2>2, Zenon
<1>2. CASE StarForm(d, e, rule)
  <2>1. /\ e.mark = "" /\ B!HasStar(B!Ascii(e.labels)) /\ StarFits(d, e)
        /\ rule = B!GlobRule(StarText(e), e.port)
    BY <1>2, Zenon DEF StarForm
  <2>2. Sends(d, B!GlobRule(StarText(e), e.port), host, q)
             <=> B!port_matches(e.port, q) /\ ByText(d, e, host)
    BY <2>1, SentByStar, Zenon
  <2> QED
    BY <2>1, <2>2, Zenon
<1>3. CASE NameForm(d, e, rule)
  <2>1. /\ e.mark = "" /\ (e.dot => d \in {"suffix", "macos"})
        /\ B!parse_host(Compared(d, e)) = "name" /\ ~B!HasStar(Compared(d, e))
        /\ d \in {"windows", "macos"} /\ e.lead = ""
        /\ rule = B!ExactRule(B!Name(Compared(d, e), FALSE), e.port)
    BY <1>3, Zenon DEF NameForm, IsNamed, Dotted
  <2>2. Sends(d, B!ExactRule(B!Name(Compared(d, e), FALSE), e.port), host, q)
             <=> B!port_matches(e.port, q) /\ ByText(d, e, host)
    BY <2>1, SentByName, Zenon
  <2> QED
    BY <2>1, <2>2, Zenon
<1>4. CASE DomainForm(d, e, rule)
  <2> DEFINE alone == d = "gnome" \/ e.lead = ""
  <2>1. /\ e.mark = "" /\ (e.dot => d \in {"suffix", "macos"})
        /\ B!parse_host(Compared(d, e)) = "name" /\ ~B!HasStar(Compared(d, e))
        /\ d = "windows" => e.lead # "."
        /\ e.lead = "" => d \notin {"windows", "macos"}
        /\ rule = B!NameRule(Compared(d, e), alone, e.port)
    BY <1>4, Zenon DEF DomainForm, IsNamed, Dotted
  <2>2. alone \in BOOLEAN /\ (alone <=> d = "gnome" \/ e.lead = "")
    OBVIOUS
  <2> HIDE DEF alone
  <2>3. Sends(d, B!NameRule(Compared(d, e), alone, e.port), host, q)
             <=> B!port_matches(e.port, q) /\ ByText(d, e, host)
    BY <2>1, <2>2, SentByDomain, Zenon
  <2> QED
    BY <2>1, <2>3, Zenon
<1> QED
  BY <1>1, <1>2, <1>3, <1>4, Zenon DEF TextForm

-----------------------------------------------------------------------------
(* What an entry becomes.                                                  *)

\* What parse_in makes of a trimmed entry.
Parsed(d, e) ==
    CASE e = B!Blank -> B!NoRule
      [] B!Word(e, "*") /\ d \notin {"macos", "gnome"} -> [kind |-> "all"]
      [] B!Word(e, "<local>") -> [kind |-> "local"]
      [] B!Word(e, "<-loopback>") -> [kind |-> "subtract"]
      [] OTHER ->
            IF B!Unreadable(d, e) THEN B!Refused
            ELSE IF e.net # "none" THEN B!NetParsed(d, e)
            ELSE IF B!Misplaced(d, e) THEN B!Refused
            ELSE B!NameParsed(d, e)

\* An entry that says something, of one destination or of all of them.
Ordinary(e) == e.labels \notin {<<"<local>">>, <<"<-loopback>">>}

\* What is left of parse_in for an entry that is no word.
ReadIn(d, e) ==
    IF B!Unreadable(d, e) THEN B!Refused
    ELSE IF e.net # "none" THEN B!NetParsed(d, e)
    ELSE IF B!Misplaced(d, e) THEN B!Refused
    ELSE B!NameParsed(d, e)

\* An ordinary entry is nothing, a star for all, or is read.
LEMMA ParsedIs ==
  ASSUME NEW d, NEW e, Ordinary(e)
  PROVE  Parsed(d, e) = IF e = B!Blank THEN B!NoRule
                        ELSE IF B!Word(e, "*") /\ d \notin {"macos", "gnome"} THEN [kind |-> "all"]
                        ELSE ReadIn(d, e)
<1> DEFINE blank == e = B!Blank
           star == B!Word(e, "*") /\ d \notin {"macos", "gnome"}
           local == B!Word(e, "<local>")
           loop == B!Word(e, "<-loopback>")
           none == B!NoRule
           all == [kind |-> "all"]
           one == [kind |-> "local"]
           two == [kind |-> "subtract"]
           rest == ReadIn(d, e)
<1>1. ~local /\ ~loop
  BY WordsAre DEF Ordinary
<1>2. star => ~blank
  <2>1. B!Blank.labels = <<>>
    BY DEF B!Blank
  <2>2. <<"*">> # <<>>
    OBVIOUS
  <2> QED
    BY <2>1, <2>2, WordsAre, Zenon
<1>3. Parsed(d, e) = CASE blank -> none [] star -> all [] local -> one [] loop -> two
                       [] OTHER -> rest
  BY Zenon DEF Parsed, ReadIn
<1> HIDE DEF blank, star, local, loop, none, all, one, two, rest
<1>4. Parsed(d, e) = IF blank THEN none ELSE IF star THEN all ELSE rest
  <2>1. CASE blank
    BY <1>1, <1>2, <1>3, <2>1
  <2>2. CASE star
    BY <1>1, <1>2, <1>3, <2>2
  <2>3. CASE ~blank /\ ~star
    BY <1>1, <1>3, <2>3
  <2> QED
    BY <2>1, <2>2, <2>3
<1> QED
  BY <1>4, Zenon DEF blank, star, none, all, rest

\* An entry that became a rule for all, for a block, or for what its text names.
AllForm(d, e, rule) ==
    B!Word(e, "*") /\ d \notin {"macos", "gnome"} /\ rule = [kind |-> "all"]

NetForm(d, e, rule) ==
    /\ e.net # "none" /\ e = Block(e.net, "")
    /\ \E first \in {"10", "8"} :
           rule = B!NetRule(first) /\ B!BlockNames(d, e.net) = {first}

ReadForm(d, e, rule) ==
    /\ e.edge = "" /\ e.net = "none"
    /\ d = "macos" => e.port = B!NoPort
    /\ ~(B!Word(e, "*") /\ d \notin {"macos", "gnome"})
    /\ TextForm(d, e, rule)

\* An entry that parse_in reads.
Given(d, Q, e) ==
    /\ e \in WholeEntries(Q) /\ Ordinary(e)
    /\ d = "gnome" => e.net = "none" /\ Verbatim(e)

\* The parts of an entry.
LEMMA WholeEntriesAre ==
  ASSUME NEW Q, NEW e \in WholeEntries(Q)
  PROVE  /\ e.labels \in Seq(Q) /\ e.lead \in {"", ".", "*."} /\ e.mark \in Marks
         /\ e.edge \in {"", "before", "after"} /\ e.net \in Nets /\ e.port \in Nat
         /\ e.net # "none" => e = Block(e.net, e.edge)
BY DEF WholeEntries, EntryForms

\* The parts of a block.
LEMMA BlocksAre ==
  ASSUME NEW net, NEW edge
  PROVE  LET e == Block(net, edge) IN
         /\ e.net = net /\ e.edge = edge /\ e.lead = "" /\ e.labels = <<>>
         /\ e.mark = "" /\ e.port = B!NoPort
BY DEF Block, B!Blank

\* A block is refused, or becomes the rule its reader means by it.
LEMMA NetIsParsed ==
  ASSUME NEW d \in B!EntryDialects, d \notin {"windows", "gnome"}, NEW e, e.net \in Nets, e.net # "none"
  PROVE  \/ B!NetParsed(d, e) = B!Refused
         \/ \E first \in {"10", "8"} :
                B!NetParsed(d, e) = B!NetRule(first) /\ B!BlockNames(d, e.net) = {first}
<1> DEFINE ten == B!NetRule("10")
           eight == B!NetRule("8")
           no == B!Refused
           net == e.net
           rule == B!NetParsed(d, e)
           names == B!BlockNames(d, net)
           x == {"10"}
           y == {"8"}
<1>1. rule = CASE net \in {"plain", "bits"} -> ten
               [] net = "octal" -> IF d \in {"macos", "kde"} THEN no ELSE eight
               [] net \in {"short", "bad"} -> no
  BY Zenon DEF B!NetParsed
<1>2. names = CASE net \in {"plain", "bits"} /\ d # "windows" -> x
                [] net = "octal" /\ d = "suffix" -> y
                [] net = "short" /\ d = "macos" -> x
                [] OTHER -> {}
  BY Zenon DEF B!BlockNames
<1>3. /\ net = "plain" \/ net = "bits" \/ net = "octal" \/ net = "short" \/ net = "bad"
      /\ d = "suffix" \/ d = "kde" \/ d = "macos"
  BY DEF Nets, B!EntryDialects
<1> HIDE DEF ten, eight, no, net, rule, names, x, y
<1>4. rule = no \/ (rule = ten /\ names = x) \/ (rule = eight /\ names = y)
  <2>1. CASE net \in {"plain", "bits"}
    BY <1>1, <1>2, <1>3, <2>1
  <2>2. CASE net = "octal"
    BY <1>1, <1>2, <1>3, <2>2
  <2>3. CASE net \in {"short", "bad"}
    BY <1>1, <2>3
  <2> QED
    BY <1>3, <2>1, <2>2, <2>3
<1> QED
  BY <1>4, Zenon DEF rule, no, ten, eight, names, x, y, net

\* What an entry becomes.
LEMMA EntriesBecome ==
  ASSUME NEW d \in B!EntryDialects, NEW Q, NEW e, Given(d, Q, e)
  PROVE  LET rule == Parsed(d, e) IN
         \/ rule = B!Refused
         \/ rule = B!NoRule /\ e.labels = <<>> /\ e.net = "none"
         \/ AllForm(d, e, rule) \/ NetForm(d, e, rule) \/ ReadForm(d, e, rule)
<1> DEFINE rule == Parsed(d, e)
           star == B!Word(e, "*") /\ d \notin {"macos", "gnome"}
<1>1. e \in WholeEntries(Q) /\ Ordinary(e) /\ (d = "gnome" => e.net = "none" /\ Verbatim(e))
  BY Zenon DEF Given
<1>2. /\ e.labels \in Seq(Q) /\ e.lead \in {"", ".", "*."} /\ e.mark \in Marks
      /\ e.net \in Nets
      /\ e.net # "none" => e = Block(e.net, e.edge)
  BY <1>1, WholeEntriesAre
<1>3. rule = IF e = B!Blank THEN B!NoRule ELSE IF star THEN [kind |-> "all"] ELSE ReadIn(d, e)
  BY <1>1, ParsedIs, Zenon
<1>4. CASE e = B!Blank
  <2>1. e.labels = <<>> /\ e.net = "none"
    BY <1>4 DEF B!Blank
  <2> QED
    BY <1>3, <1>4, <2>1, Zenon
<1>5. CASE e # B!Blank /\ star
  <2>1. rule = [kind |-> "all"]
    BY <1>3, <1>5, Zenon
  <2> QED
    BY <1>5, <2>1, Zenon DEF AllForm
<1>6. CASE e # B!Blank /\ ~star
  <2>1. rule = ReadIn(d, e)
    BY <1>3, <1>6, Zenon
  <2>2. CASE B!Unreadable(d, e)
    BY <2>1, <2>2, Zenon DEF ReadIn
  <2>3. CASE ~B!Unreadable(d, e)
    <3>1. /\ e.edge = "" /\ e.mark \notin {"@", " ", "://"}
          /\ ~(d = "windows" /\ e.net # "none")
          /\ ~(d = "windows" /\ e.lead = "." /\ e.labels # <<>>)
      BY <2>3, Zenon DEF B!Unreadable, B!LeadingDot
    <3>2. CASE e.net # "none"
      <4>1. rule = B!NetParsed(d, e)
        BY <2>1, <2>3, <3>2, Zenon DEF ReadIn
      <4>2. d \notin {"windows", "gnome"}
        BY <1>1, <3>1, <3>2
      <4>3. \/ B!NetParsed(d, e) = B!Refused
            \/ \E first \in {"10", "8"} :
                   B!NetParsed(d, e) = B!NetRule(first) /\ B!BlockNames(d, e.net) = {first}
        BY <1>2, <3>2, <4>2, NetIsParsed
      <4>4. e = Block(e.net, "")
        BY <1>2, <3>1, <3>2, Zenon
      <4> QED
        BY <3>2, <4>1, <4>3, <4>4, Zenon DEF NetForm
    <3>3. CASE e.net = "none" /\ B!Misplaced(d, e)
      BY <2>1, <2>3, <3>3, Zenon DEF ReadIn
    <3>4. CASE e.net = "none" /\ ~B!Misplaced(d, e)
      <4>1. rule = B!NameParsed(d, e)
        BY <2>1, <2>3, <3>4, Zenon DEF ReadIn
      <4>2. e.mark # ":" /\ e.mark # "%" /\ (d = "macos" => e.port = B!NoPort)
        BY <3>4, Zenon DEF B!Misplaced
      <4>3. e.mark \in {"", "[", ".."}
        BY <1>2, <3>1, <4>2 DEF Marks
      <4>4. Legible(d, e)
        BY <1>1, <1>2, <3>1, <3>4, <4>3, Zenon DEF Legible
      <4>5. \/ rule = B!Refused
            \/ rule = B!NoRule /\ e.labels = <<>>
            \/ TextForm(d, e, rule)
        BY <1>2, <4>1, <4>4, TextsBecome, Zenon DEF TextForm
      <4> QED
        BY <1>6, <3>1, <3>4, <4>2, <4>5, Zenon DEF ReadForm
    <3> QED
      BY <3>2, <3>3, <3>4
  <2> QED
    BY <2>2, <2>3
<1> QED
  BY <1>4, <1>5, <1>6

\* An entry without labels grants nothing.
LEMMA NothingIsGranted ==
  ASSUME NEW d \in B!EntryDialects, NEW P, NEW I, NEW host \in MetHosts(d, P, I),
         NEW Q, NEW e, e.labels \in Seq(Q), e.labels = <<>>, e.net = "none", NEW q
  PROVE  ~Granted(d, e, host, q)
<1>1. ~ByText(d, e, host)
  BY TextOfNothing
<1> QED
  BY <1>1, Zenon DEF Granted

\* What an entry becomes sends around what the entry grants.
LEMMA EntriesSend ==
  ASSUME NEW d \in B!EntryDialects, NEW P, NEW I, NEW host \in MetHosts(d, P, I),
         NEW Q, NEW e, Given(d, Q, e),
         B!HasStar(B!Ascii(e.labels)) => Seen(d, host) \in B!Destinations,
         NEW rule, AllForm(d, e, rule) \/ NetForm(d, e, rule) \/ ReadForm(d, e, rule), NEW q
  PROVE  Sends(d, rule, host, q) <=> Granted(d, e, host, q)
<1>1. e \in WholeEntries(Q)
  BY Zenon DEF Given
<1>2. e.labels \in Seq(Q) /\ e.lead \in {"", ".", "*."}
  BY <1>1, WholeEntriesAre
<1>3. B!port_matches(B!NoPort, q)
  BY DEF B!port_matches
<1>4. CASE AllForm(d, e, rule)
  <2>1. B!Word(e, "*") /\ d \notin {"macos", "gnome"} /\ rule = [kind |-> "all"]
    BY <1>4, Zenon DEF AllForm
  <2>2. rule.kind = "all"
    BY <2>1
  <2>3. Sends(d, rule, host, q)
    BY <2>2 DEF Sends, B!PatternMatches
  <2>4. e.edge = "" /\ e.port = B!NoPort /\ e.net = "none" /\ e.mark = ""
    BY <2>1, WordsAre
  <2>5. ByText(d, e, host)
    BY <2>1, Zenon DEF ByText
  <2>6. e.mark \in {"", "["}
    BY <2>4
  <2>7. Granted(d, e, host, q)
    BY <1>3, <2>4, <2>5, <2>6, Zenon DEF Granted
  <2> QED
    BY <2>3, <2>7
<1>5. CASE NetForm(d, e, rule)
  <2>1. PICK first \in {"10", "8"} :
            rule = B!NetRule(first) /\ B!BlockNames(d, e.net) = {first}
    BY <1>5, Zenon DEF NetForm
  <2>2. e.net # "none" /\ e = Block(e.net, "")
    BY <1>5, Zenon DEF NetForm
  <2>3. e.edge = "" /\ e.mark = "" /\ e.port = B!NoPort
    <3> DEFINE net == e.net
               b == Block(net, "")
    <3>1. b.edge = "" /\ b.mark = "" /\ b.port = B!NoPort
      BY DEF Block, B!Blank
    <3>2. e = b
      BY <2>2
    <3> HIDE DEF b, net
    <3> QED
      BY <3>1, <3>2
  <2>4. e.mark \in {"", "["}
    BY <2>3
  <2>5. Granted(d, e, host, q) <=>
             /\ host.ip \in {"10.0.0.1", "8.0.0.1", "0.0.0.1", "1.0.0.1"}
             /\ B!AddressLabels(host.ip)[1] \in {first}
    BY <1>3, <2>1, <2>2, <2>3, <2>4, Zenon DEF Granted
  <2>6. Sends(d, B!NetRule(first), host, q) <=>
             /\ host.ip \in {"10.0.0.1", "8.0.0.1", "0.0.0.1", "1.0.0.1"}
             /\ B!AddressLabels(host.ip)[1] \in {first}
    BY SentByNet, Zenon
  <2> QED
    BY <2>1, <2>5, <2>6, Zenon
<1>6. CASE ReadForm(d, e, rule)
  <2>1. /\ e.edge = "" /\ e.net = "none"
        /\ d = "macos" => e.port = B!NoPort
        /\ ~(B!Word(e, "*") /\ d \notin {"macos", "gnome"})
        /\ TextForm(d, e, rule)
    BY <1>6, Zenon DEF ReadForm
  <2>2. e.mark \in {"", "["}
    BY <2>1, FormsAreRules
  <2>3. Granted(d, e, host, q) <=> B!port_matches(e.port, q) /\ ByText(d, e, host)
    BY <2>1, <2>2, Zenon DEF Granted
  <2>4. Sends(d, rule, host, q) <=> B!port_matches(e.port, q) /\ ByText(d, e, host)
    BY <1>2, <2>1, FormsSend, Zenon
  <2> QED
    BY <2>3, <2>4, Zenon
<1> QED
  BY <1>4, <1>5, <1>6

\* It is a rule of a kind that is named.
LEMMA RulesAreKnown ==
  ASSUME NEW d, NEW e, NEW rule, AllForm(d, e, rule) \/ NetForm(d, e, rule) \/ ReadForm(d, e, rule)
  PROVE  /\ rule.kind \in {"all", "cidr", "exact", "wildcard", "domain"}
         /\ rule # B!NoRule /\ rule # B!Refused
<1>1. CASE AllForm(d, e, rule)
  BY <1>1 DEF AllForm, B!NoRule, B!Refused
<1>2. CASE NetForm(d, e, rule)
  <2>1. PICK first \in {"10", "8"} : rule = B!NetRule(first)
    BY <1>2, Zenon DEF NetForm
  <2>2. rule.kind = "cidr"
    BY <2>1 DEF B!NetRule
  <2> QED
    BY <2>2 DEF B!NoRule, B!Refused
<1>3. CASE ReadForm(d, e, rule)
  <2>1. TextForm(d, e, rule)
    BY <1>3, Zenon DEF ReadForm
  <2> QED
    BY <2>1, FormsAreRules
<1> QED
  BY <1>1, <1>2, <1>3

\* A trimmed entry is an entry with the same labels.
LEMMA TrimmedIs ==
  ASSUME NEW d, NEW Q, NEW e \in WholeEntries(Q)
  PROVE  /\ B!trim(d, e) \in WholeEntries(Q)
         /\ B!trim(d, e).labels = e.labels /\ B!trim(d, e).net = e.net
<1> DEFINE t == [e EXCEPT !.edge = ""]
<1>1. t \in EntryForms(Q) /\ t.labels = e.labels /\ t.net = e.net
  BY DEF WholeEntries, EntryForms
<1>2. e.net # "none" => t = Block(e.net, "")
  BY DEF WholeEntries, Block
<1>3. t \in WholeEntries(Q)
  BY <1>1, <1>2 DEF WholeEntries, EntryForms
<1>4. B!trim(d, e) = e \/ B!trim(d, e) = t
  BY Zenon DEF B!trim
<1> QED
  BY <1>1, <1>3, <1>4, Zenon

\* parse_in and the store's own reader trim alike.
LEMMA TrimmedReads ==
  ASSUME NEW d, NEW e, NEW host, NEW q
  PROVE  /\ B!parse_in(d, e) = Parsed(d, B!trim(d, e))
         /\ B!Grants(d, e, host, q) <=> Granted(d, B!trim(d, e), host, q)
<1>1. B!parse_in(d, e) = Parsed(d, B!trim(d, e))
  BY Zenon DEF B!parse_in, Parsed
<1>2. B!Grants(d, e, host, q) <=> Granted(d, B!trim(d, e), host, q)
  BY Zenon DEF B!Grants, Granted, ByText
<1> QED
  BY <1>1, <1>2

\* What GNOME's list trims stays trimmed.
LEMMA TrimmedOnce ==
  ASSUME NEW Q, NEW e \in WholeEntries(Q)
  PROVE  B!trim("gnome", B!trim("gnome", e)) = B!trim("gnome", e)
<1> DEFINE t == [e EXCEPT !.edge = ""]
<1>1. "macos" # "gnome"
  OBVIOUS
<1>2. \A x : B!trim("gnome", x) = IF x.edge = "after" THEN [x EXCEPT !.edge = ""] ELSE x
  BY <1>1 DEF B!trim
<1>3. t.edge = ""
  BY DEF WholeEntries, EntryForms
<1> HIDE DEF t
<1>4. B!trim("gnome", t) = t
  BY <1>2, <1>3
<1>5. CASE e.edge = "after"
  BY <1>2, <1>4, <1>5 DEF t
<1>6. CASE e.edge # "after"
  BY <1>2, <1>6
<1> QED
  BY <1>5, <1>6

-----------------------------------------------------------------------------
(* The list of GNOME.                                                      *)

\* The rule of an entry, and whether it has one.
GnomeRule(e) == IF B!Mask(e) THEN B!glib_mask(e) ELSE Parsed("gnome", e)
GnomeHas(e) ==
    \/ B!Mask(e)
    \/ /\ ~B!Nameless(e) /\ ~B!NoGlibName(e) /\ ~B!NeverMet(e)
       /\ Parsed("gnome", e) \notin {B!Refused, B!NoRule}

\* A mask is an address or a block, with nothing about it.
LEMMA MasksAre ==
  ASSUME NEW e, B!Mask(e)
  PROVE  /\ e.edge = "" /\ e.mark = "" /\ e.port = B!NoPort /\ e.lead = "" /\ ~e.dot
         /\ e.net = "plain" \/ (e.net = "none" /\ B!IsAddressText(e.labels))
         /\ ~B!Nameless(e)
<1>1. CASE B!Word(e, "::1")
  <2>1. e.labels = <<"::1">> /\ e.lead = "" /\ e.edge = "" /\ ~e.dot /\ e.port = B!NoPort
        /\ e.net = "none" /\ e.mark = ""
    BY <1>1, WordsAre
  <2>2. B!IsAddressText(<<"::1">>) /\ <<"::1">> # <<>>
    BY DEF B!IsAddressText
  <2>3. B!IsAddressText(e.labels) /\ e.labels # <<>>
    BY <2>1, <2>2, Zenon
  <2> QED
    BY <2>1, <2>3 DEF B!Nameless
<1>2. CASE e = B!Written(B!Quad)
  <2>1. e.labels = B!Quad /\ e.lead = "" /\ e.edge = "" /\ ~e.dot /\ e.port = B!NoPort
        /\ e.net = "none" /\ e.mark = ""
    BY <1>2 DEF B!Written, B!Blank
  <2>2. B!IsAddressText(B!Quad) /\ B!Quad # <<>>
    BY DEF B!IsAddressText, B!Quad
  <2>3. B!IsAddressText(e.labels) /\ e.labels # <<>>
    BY <2>1, <2>2, Zenon
  <2> QED
    BY <2>1, <2>3 DEF B!Nameless
<1>3. CASE e = [B!Blank EXCEPT !.net = "plain"]
  BY <1>3 DEF B!Blank, B!Nameless
<1> QED
  BY <1>1, <1>2, <1>3 DEF B!Mask

\* The rule of a mask sends around what the mask grants.
LEMMA MaskedGrants ==
  ASSUME NEW P, NEW I, NEW host \in MetHosts("gnome", P, I),
         NEW Q, NEW e \in WholeEntries(Q), B!Mask(e), NEW q
  PROVE  Sends("gnome", B!glib_mask(e), host, q) <=> Granted("gnome", e, host, q)
<1>1. /\ e.edge = "" /\ e.mark = "" /\ e.port = B!NoPort /\ e.lead = "" /\ ~e.dot
      /\ e.net = "plain" \/ (e.net = "none" /\ B!IsAddressText(e.labels))
  BY MasksAre
<1>2. "gnome" \in B!EntryDialects /\ e.mark \in {"", "["} /\ "gnome" # "macos"
  BY <1>1 DEF B!EntryDialects
<1>3. B!port_matches(e.port, q)
  BY <1>1 DEF B!port_matches
<1>4. CASE e.net = "plain"
  <2>1. B!BlockNames("gnome", e.net) = {"10"}
    BY <1>4 DEF B!BlockNames
  <2>2. B!glib_mask(e) = B!NetRule("10")
    BY <1>4, Zenon DEF B!glib_mask
  <2>3. Granted("gnome", e, host, q) <=>
             /\ host.ip \in {"10.0.0.1", "8.0.0.1", "0.0.0.1", "1.0.0.1"}
             /\ B!AddressLabels(host.ip)[1] \in {"10"}
    <3>1. e.net # "none"
      BY <1>4
    <3> QED
      BY <1>1, <1>2, <1>3, <2>1, <3>1, Zenon DEF Granted
  <2>4. Sends("gnome", B!NetRule("10"), host, q) <=>
             /\ host.ip \in {"10.0.0.1", "8.0.0.1", "0.0.0.1", "1.0.0.1"}
             /\ B!AddressLabels(host.ip)[1] \in {"10"}
    BY <1>2, SentByNet, Zenon
  <2> QED
    BY <2>2, <2>3, <2>4, Zenon
<1>5. CASE e.net = "none" /\ B!IsAddressText(e.labels)
  <2> DEFINE ip == B!FoldedAddress(e.labels)
  <2>1. e.labels \in AddressTexts /\ e.labels \in Seq(Q)
    BY <1>5, WholeEntriesAre, Zenon DEF B!IsAddressText, AddressTexts
  <2>2. ip # "none" /\ B!Mapped(ip) = ip
    BY <2>1, AddressesOfTexts
  <2>3. B!glib_mask(e) = [kind |-> "cidr", net |-> {ip}]
    <3>1. e.net # "plain"
      BY <1>5
    <3> QED
      BY <3>1, Zenon DEF B!glib_mask
  <2>4. ByText("gnome", e, host) <=> host.ip = ip
    BY <1>1, <1>2, <1>5, <2>1, TextOfAddress, Zenon
  <2>5. Granted("gnome", e, host, q) <=> host.ip = ip
    BY <1>1, <1>2, <1>3, <1>5, <2>4, Zenon DEF Granted
  <2> HIDE DEF ip
  <2>6. {ip} # {} /\ \A i \in {ip} : i # "none" /\ B!Mapped(i) = i
    BY <2>2
  <2>7. Sends("gnome", [kind |-> "cidr", net |-> {ip}], host, q) <=> host.ip \in {ip}
    <3> DEFINE net == {ip}
    <3>1. net # {} /\ \A i \in net : i # "none" /\ B!Mapped(i) = i
      BY <2>6
    <3> HIDE DEF net
    <3>2. Sends("gnome", [kind |-> "cidr", net |-> net], host, q) <=> host.ip \in net
      BY ONLY <1>2, host \in MetHosts("gnome", P, I), <3>1, NetsMeet
    <3> QED
      BY <3>2, Zenon DEF net
  <2> QED
    BY <2>3, <2>5, <2>7, Zenon
<1> QED
  BY <1>1, <1>4, <1>5

\* A text without labels becomes no rule.
LEMMA NothingBecomesARule ==
  ASSUME NEW d, NEW e, e.labels = <<>>, e.net = "none"
  PROVE  Parsed(d, e) \in {B!Refused, B!NoRule}
<1>1. Ordinary(e) /\ ~B!Word(e, "*")
  <2>1. <<>> # <<"<local>">> /\ <<>> # <<"<-loopback>">> /\ <<>> # <<"*">>
    OBVIOUS
  <2> QED
    BY <2>1, WordsAre, Zenon DEF Ordinary
<1>2. Parsed(d, e) = B!NoRule \/ Parsed(d, e) = ReadIn(d, e)
  BY <1>1, ParsedIs, Zenon
<1>3. B!Ascii(e.labels) = <<>>
  BY DEF B!Ascii
<1>4. B!NameParsed(d, e) \in {B!Refused, B!NoRule}
  BY <1>3, Zenon DEF B!NameParsed
<1>5. ReadIn(d, e) \in {B!Refused, B!NoRule}
  BY <1>4, Zenon DEF ReadIn
<1> QED
  BY <1>2, <1>5, Zenon

\* A name GLib may meet is given to parse_in as it is compared.
LEMMA GivenToGnome ==
  ASSUME NEW Q, NEW e \in WholeEntries(Q), ~B!NeverMet(e)
  PROVE  Given("gnome", Q, e)
<1>1. /\ e.labels \notin {<<"<local>">>, <<"<-loopback>">>}
      /\ ~B!Contains(e.labels, "u8")
      /\ ~e.dot
      /\ e.net = "none"
      /\ ~(~B!IsAddressText(e.labels) /\ B!parse_host(e.labels) = "address")
  BY Zenon DEF B!NeverMet
<1>2. e.labels \in AddressTexts => B!IsAddressText(e.labels)
  BY <1>1, ParsedHosts, Zenon
<1> QED
  BY <1>1, <1>2, Zenon DEF Given, Ordinary, Verbatim

\* The rule of an entry comes of a mask, or of parse_in.
LEMMA GnomeRuleKinds ==
  ASSUME NEW Q, NEW e \in WholeEntries(Q), GnomeHas(e)
  PROVE  /\ GnomeRule(e).kind \in {"all", "cidr", "exact", "wildcard", "domain"}
         /\ \/ B!Mask(e) /\ GnomeRule(e) = B!glib_mask(e)
            \/ /\ Given("gnome", Q, e)
               /\ \/ AllForm("gnome", e, GnomeRule(e)) \/ NetForm("gnome", e, GnomeRule(e))
                  \/ ReadForm("gnome", e, GnomeRule(e))
<1>1. "gnome" \in B!EntryDialects
  BY DEF B!EntryDialects
<1>2. CASE B!Mask(e)
  <2>1. GnomeRule(e) = B!glib_mask(e)
    BY <1>2, Zenon DEF GnomeRule
  <2>2. B!glib_mask(e).kind = "cidr"
    BY DEF B!glib_mask, B!NetRule
  <2>3. GnomeRule(e).kind = "cidr"
    BY <2>1, <2>2
  <2> QED
    BY <1>2, <2>1, <2>3
<1>3. CASE ~B!Mask(e)
  <2> DEFINE rule == Parsed("gnome", e)
  <2>1. GnomeRule(e) = rule
    BY <1>3, Zenon DEF GnomeRule
  <2>2. ~B!NeverMet(e) /\ rule # B!Refused /\ rule # B!NoRule
    BY <1>3, Zenon DEF GnomeHas
  <2>3. Given("gnome", Q, e)
    BY <2>2, GivenToGnome
  <2>4. AllForm("gnome", e, rule) \/ NetForm("gnome", e, rule) \/ ReadForm("gnome", e, rule)
    BY <1>1, <2>2, <2>3, EntriesBecome
  <2> HIDE DEF rule
  <2>5. rule.kind \in {"all", "cidr", "exact", "wildcard", "domain"}
    BY <2>4, RulesAreKnown
  <2> QED
    BY <2>1, <2>3, <2>4, <2>5
<1> QED
  BY <1>2, <1>3

\* Either way it sends around what the entry grants.
LEMMA GnomeRulesGrant ==
  ASSUME NEW P, NEW I, NEW host \in MetHosts("gnome", P, I),
         NEW Q, NEW e \in WholeEntries(Q), GnomeHas(e),
         B!HasStar(B!Ascii(e.labels)) => Seen("gnome", host) \in B!Destinations, NEW q
  PROVE  Sends("gnome", GnomeRule(e), host, q) <=> Granted("gnome", e, host, q)
<1> DEFINE rule == GnomeRule(e)
<1>1. "gnome" \in B!EntryDialects
  BY DEF B!EntryDialects
<1>2. CASE B!Mask(e) /\ rule = B!glib_mask(e)
  <2>1. Sends("gnome", B!glib_mask(e), host, q) <=> Granted("gnome", e, host, q)
    BY <1>2, MaskedGrants
  <2> QED
    BY <1>2, <2>1
<1> HIDE DEF rule
<1>3. CASE /\ Given("gnome", Q, e)
           /\ \/ AllForm("gnome", e, rule) \/ NetForm("gnome", e, rule)
              \/ ReadForm("gnome", e, rule)
  <2>1. Sends("gnome", rule, host, q) <=> Granted("gnome", e, host, q)
    BY <1>1, <1>3, EntriesSend
  <2> QED
    BY <2>1 DEF rule
<1> QED
  BY <1>2, <1>3, GnomeRuleKinds DEF rule

\* An entry without a name grants nothing.
LEMMA NamelessGrantsNothing ==
  ASSUME NEW P, NEW I, NEW host \in MetHosts("gnome", P, I),
         NEW Q, NEW e \in WholeEntries(Q), B!Nameless(e), NEW q
  PROVE  ~Granted("gnome", e, host, q)
<1>1. e.labels = <<>> /\ e.net = "none"
  BY Zenon DEF B!Nameless
<1>2. "gnome" \in B!EntryDialects /\ e.labels \in Seq(Q)
  BY WholeEntriesAre DEF B!EntryDialects
<1> QED
  BY <1>1, <1>2, NothingIsGranted

\* What a step makes of a list.
LEMMA GnomeStepIs ==
  ASSUME NEW Q, NEW text \in WholeEntries(Q), NEW s
  PROVE  LET e == B!trim("gnome", text)
             next == B!GnomeStep(s, text)
             past == [s EXCEPT !.names_ended = @ \/ B!Nameless(e)]
         IN
         \/ /\ GnomeHas(e)
            /\ B!Mask(e)
            /\ next = [s EXCEPT !.patterns = Append(@, GnomeRule(e))]
         \/ /\ GnomeHas(e)
            /\ ~s.names_ended
            /\ ~B!Nameless(e)
            /\ next = [past EXCEPT !.patterns = Append(@, GnomeRule(e))]
         \/ next = [past EXCEPT !.rejected = Append(@, e)]
         \/ B!Nameless(e) /\ next = past
<1> DEFINE e == B!trim("gnome", text)
           past == [s EXCEPT !.names_ended = @ \/ B!Nameless(e)]
           masked == [s EXCEPT !.patterns = Append(@, B!glib_mask(e))]
           lost == [past EXCEPT !.rejected = Append(@, e)]
           parsed == B!parse_in("gnome", e)
           more == [past EXCEPT !.patterns = Append(@, parsed)]
           next == B!GnomeStep(s, text)
           unmet == ~B!Nameless(e) /\ (s.names_ended \/ B!NeverMet(e))
<1>1. next = IF B!Mask(e) THEN masked
             ELSE IF B!NoGlibName(e) \/ unmet \/ parsed = B!Refused THEN lost
             ELSE IF parsed = B!NoRule THEN past ELSE more
  BY Zenon DEF B!GnomeStep
<1>2. e \in WholeEntries(Q)
  BY TrimmedIs
<1>3. parsed = Parsed("gnome", e)
  <2>1. parsed = Parsed("gnome", B!trim("gnome", e))
    BY TrimmedReads
  <2>2. B!trim("gnome", e) = e
    BY TrimmedOnce
  <2> QED
    BY <2>1, <2>2
<1>4. B!Nameless(e) => parsed \in {B!Refused, B!NoRule}
  <2>1. B!Nameless(e) => e.labels = <<>> /\ e.net = "none"
    BY Zenon DEF B!Nameless
  <2> QED
    BY <1>3, <2>1, NothingBecomesARule
<1>5. ~B!Mask(e) => GnomeRule(e) = parsed
  BY <1>3, Zenon DEF GnomeRule
<1>6. B!Mask(e) => GnomeRule(e) = B!glib_mask(e) /\ GnomeHas(e)
  BY Zenon DEF GnomeRule, GnomeHas
<1>7. GnomeHas(e) <=> \/ B!Mask(e)
                      \/ /\ ~B!Nameless(e) /\ ~B!NoGlibName(e) /\ ~B!NeverMet(e)
                         /\ parsed \notin {B!Refused, B!NoRule}
  BY <1>3, Zenon DEF GnomeHas
<1>8. ~B!Nameless(e) => parsed # B!NoRule \/ B!Mask(e) \/ B!NoGlibName(e) \/ B!NeverMet(e)
  <2> SUFFICES ASSUME ~B!Nameless(e), ~B!NoGlibName(e), ~B!NeverMet(e), parsed = B!NoRule
               PROVE  FALSE
    OBVIOUS
  <2>1. Given("gnome", Q, e) /\ e.net = "none"
    BY <1>2, GivenToGnome, Zenon DEF B!NeverMet
  <2>2. "gnome" \in B!EntryDialects
    BY DEF B!EntryDialects
  <2>3. e.labels # <<>>
    BY <2>1, Zenon DEF B!Nameless
  <2>4. B!NoRule # B!Refused
    BY DEF B!NoRule, B!Refused
  <2> DEFINE rule == Parsed("gnome", e)
  <2>5. \/ rule = B!Refused
        \/ rule = B!NoRule /\ e.labels = <<>> /\ e.net = "none"
        \/ AllForm("gnome", e, rule) \/ NetForm("gnome", e, rule) \/ ReadForm("gnome", e, rule)
    BY <2>1, <2>2, EntriesBecome
  <2> HIDE DEF rule
  <2>6. AllForm("gnome", e, rule) \/ NetForm("gnome", e, rule) \/ ReadForm("gnome", e, rule)
            => rule # B!NoRule
    BY RulesAreKnown
  <2> QED
    BY <1>3, <2>3, <2>4, <2>5, <2>6, Zenon DEF rule
<1> DEFINE ended == s.names_ended
<1>9. unmet <=> ~B!Nameless(e) /\ (ended \/ B!NeverMet(e))
  OBVIOUS
<1>10. B!Mask(e) => masked = [s EXCEPT !.patterns = Append(@, GnomeRule(e))]
  BY <1>6, Zenon
<1>11. ~B!Mask(e) => more = [past EXCEPT !.patterns = Append(@, GnomeRule(e))]
  BY <1>5, Zenon
<1> DEFINE one == [s EXCEPT !.patterns = Append(@, GnomeRule(e))]
           two == [past EXCEPT !.patterns = Append(@, GnomeRule(e))]
           refused == parsed = B!Refused
           none == parsed = B!NoRule
           noname == B!NoGlibName(e)
           nameless == B!Nameless(e)
           mask == B!Mask(e)
           has == GnomeHas(e)
<1>12. /\ next = IF mask THEN masked
                 ELSE IF noname \/ unmet \/ refused THEN lost
                 ELSE IF none THEN past ELSE more
       /\ mask => masked = one /\ has
       /\ ~mask => more = two
       /\ nameless => refused \/ none
       /\ has <=> mask \/ (~nameless /\ ~noname /\ ~B!NeverMet(e) /\ ~refused /\ ~none)
       /\ ~nameless => ~none \/ mask \/ noname \/ B!NeverMet(e)
       /\ unmet <=> ~nameless /\ (ended \/ B!NeverMet(e))
  BY <1>1, <1>4, <1>6, <1>7, <1>8, <1>9, <1>10, <1>11, Zenon
<1> HIDE DEF next, masked, lost, past, more, one, two, unmet, ended, refused, none, noname, nameless, mask, has
<1>13. \/ has /\ mask /\ next = one
       \/ has /\ ~ended /\ ~nameless /\ next = two
       \/ next = lost
       \/ nameless /\ next = past
  BY <1>12, Zenon
<1> QED
  BY <1>13, Zenon DEF next, lost, past, one, two, ended, nameless, mask, has
-----------------------------------------------------------------------------
(* A fold over a list, a position at a time.                               *)

\* A function over the positions, where it is known to stay in V.
Folds(it, n, base, V, F) ==
    /\ it[{}] = base
    /\ \A s \in SUBSET (1 .. n) :
           s # {} /\ it[s \ {Max(s)}] \in V => it[s] = F[<<it[s \ {Max(s)}], Max(s)>>]

\* Its values on the positions up to each of them.
Follows(run, it, n, base, V, F) ==
    /\ run[0] = base
    /\ \A k \in 1 .. n : run[k] = F[<<run[k - 1], k>>]
    /\ \A k \in 0 .. n : run[k] \in V
    /\ run[n] = it[1 .. n]

\* So the fold of a list runs through its positions.
LEMMA FoldRuns ==
  ASSUME NEW n \in Nat, NEW V, NEW base \in V, NEW F \in [V \X (1 .. n) -> V],
         NEW it, Folds(it, n, base, V, F)
  PROVE  \E run : Follows(run, it, n, base, V, F)
<1> DEFINE run == [k \in 0 .. n |-> it[1 .. k]]
<1>1. run[0] = base
  <2>1. 1 .. 0 = {} /\ 0 \in 0 .. n
    OBVIOUS
  <2> QED
    BY <2>1 DEF Folds
<1>2. ASSUME NEW k \in 1 .. n, run[k - 1] \in V
      PROVE  run[k] = F[<<run[k - 1], k>>]
  <2>1. /\ 1 .. k \in SUBSET (1 .. n) /\ 1 .. k # {} /\ (1 .. k) \ {k} = 1 .. (k - 1)
        /\ k \in 1 .. k /\ \A j \in 1 .. k : k >= j
    <3>1. k \in Nat /\ k >= 1 /\ k <= n /\ k \in 1 .. k
      OBVIOUS
    <3>2. (1 .. k) \ {k} = 1 .. (k - 1)
      BY ONLY <3>1
    <3> QED
      BY <3>1, <3>2
  <2>2. Max(1 .. k) = k
    BY <2>1, SelectedLast
  <2>3. run[k] = it[1 .. k] /\ run[k - 1] = it[1 .. (k - 1)]
    OBVIOUS
  <2> HIDE DEF run
  <2> QED
    BY <1>2, <2>1, <2>2, <2>3 DEF Folds
<1>3. run[n] = it[1 .. n]
  OBVIOUS
<1> HIDE DEF run
<1>4. \A k \in 0 .. n : run[k] \in V
  <2> DEFINE G == {k \in 0 .. n : run[k] \in V}
  <2>1. 0 \in G
    BY <1>1
  <2>2. \A k \in 1 .. n : k - 1 \in G => k \in G
    <3> SUFFICES ASSUME NEW k \in 1 .. n, k - 1 \in G
                 PROVE  k \in G
      OBVIOUS
    <3>1. run[k] = F[<<run[k - 1], k>>]
      BY <1>2
    <3>2. <<run[k - 1], k>> \in V \X (1 .. n)
      OBVIOUS
    <3> QED
      BY <3>1, <3>2
  <2>3. \A k \in 0 .. n : k \in G
    <3> HIDE DEF G
    <3> QED
      BY <2>1, <2>2, Climbs
  <2> QED
    BY <2>3
<1>5. \A k \in 1 .. n : run[k] = F[<<run[k - 1], k>>]
  BY <1>2, <1>4
<1> QED
  BY <1>1, <1>3, <1>4, <1>5 DEF Follows

-----------------------------------------------------------------------------
(* The walk of GNOME's list.                                               *)

\* The states of the walk.
GnomeRules(Q) == {GnomeRule(e) : e \in {x \in WholeEntries(Q) : GnomeHas(x)}}
GnomeStates(Q) ==
    [patterns : Seq(GnomeRules(Q)), rejected : Seq(WholeEntries(Q)), names_ended : BOOLEAN]
GnomeStart == [patterns |-> <<>>, rejected |-> <<>>, names_ended |-> FALSE]

\* What an append does to the three parts of the state.
LEMMA PartsGrow ==
  ASSUME NEW A, NEW C,
         NEW x \in [patterns : Seq(A), rejected : Seq(C), names_ended : BOOLEAN],
         NEW a, NEW c
  PROVE  LET V == [patterns : Seq(A), rejected : Seq(C), names_ended : BOOLEAN]
             more == [x EXCEPT !.patterns = Append(@, a)]
             lost == [x EXCEPT !.rejected = Append(@, c)]
         IN
         /\ more.patterns = Append(x.patterns, a) /\ more.rejected = x.rejected
         /\ more.names_ended = x.names_ended
         /\ a \in A => more \in V
         /\ lost.patterns = x.patterns /\ lost.rejected = Append(x.rejected, c)
         /\ lost.names_ended = x.names_ended
         /\ c \in C => lost \in V
<1> DEFINE V == [patterns : Seq(A), rejected : Seq(C), names_ended : BOOLEAN]
           more == [x EXCEPT !.patterns = Append(@, a)]
           lost == [x EXCEPT !.rejected = Append(@, c)]
           u == x.patterns
           v == x.rejected
           w == x.names_ended
<1>1. u \in Seq(A) /\ v \in Seq(C) /\ w \in BOOLEAN
  OBVIOUS
<1>2. x = [patterns |-> u, rejected |-> v, names_ended |-> w]
  OBVIOUS
<1>3. (a \in A => Append(u, a) \in Seq(A)) /\ (c \in C => Append(v, c) \in Seq(C))
  BY <1>1
<1> DEFINE ua == Append(u, a)
           vc == Append(v, c)
<1>4. more = [patterns |-> ua, rejected |-> v, names_ended |-> w]
  <2>1. more = [x EXCEPT !.patterns = ua]
    OBVIOUS
  <2> HIDE DEF u, v, w, ua, more
  <2> QED
    BY <1>2, <2>1
<1>5. lost = [patterns |-> u, rejected |-> vc, names_ended |-> w]
  <2>1. lost = [x EXCEPT !.rejected = vc]
    OBVIOUS
  <2> HIDE DEF u, v, w, vc, lost
  <2> QED
    BY <1>2, <2>1
<1> HIDE DEF u, v, w, ua, vc, more, lost
<1>6. more.patterns = ua /\ more.rejected = v /\ more.names_ended = w
  BY <1>4
<1>7. lost.patterns = u /\ lost.rejected = vc /\ lost.names_ended = w
  BY <1>5
<1>8. (a \in A => more \in V) /\ (c \in C => lost \in V)
  BY <1>1, <1>3, <1>4, <1>5 DEF ua, vc
<1> QED
  BY <1>6, <1>7, <1>8 DEF u, v, w, ua, vc, more, lost

\* What an entry does to the three parts of the state.
Parts(A, C) == [patterns : Seq(A), rejected : Seq(C), names_ended : BOOLEAN]
Moves(A, C, s, a, c, b) ==
    LET past == [s EXCEPT !.names_ended = @ \/ b]
        one == [s EXCEPT !.patterns = Append(@, a)]
        two == [past EXCEPT !.patterns = Append(@, a)]
        lost == [past EXCEPT !.rejected = Append(@, c)]
    IN
    /\ past \in Parts(A, C) /\ past.patterns = s.patterns /\ past.rejected = s.rejected
    /\ past.names_ended <=> s.names_ended \/ b
    /\ one.patterns = Append(s.patterns, a) /\ one.rejected = s.rejected
    /\ one.names_ended <=> s.names_ended
    /\ a \in A => one \in Parts(A, C)
    /\ two.patterns = Append(s.patterns, a) /\ two.rejected = s.rejected
    /\ two.names_ended <=> s.names_ended \/ b
    /\ a \in A => two \in Parts(A, C)
    /\ lost.patterns = s.patterns /\ lost.rejected = Append(s.rejected, c)
    /\ lost.names_ended <=> s.names_ended \/ b
    /\ c \in C => lost \in Parts(A, C)

\* Those are its effects on any state.
LEMMA PartsMove ==
  ASSUME NEW A, NEW C, NEW s \in Parts(A, C), NEW a, NEW c, NEW b
  PROVE  Moves(A, C, s, a, c, b)
<1> DEFINE past == [s EXCEPT !.names_ended = @ \/ b]
           one == [s EXCEPT !.patterns = Append(@, a)]
           two == [past EXCEPT !.patterns = Append(@, a)]
           lost == [past EXCEPT !.rejected = Append(@, c)]
           V == [patterns : Seq(A), rejected : Seq(C), names_ended : BOOLEAN]
           ended == s.names_ended \/ b
<1>1. ended \in BOOLEAN
  OBVIOUS
<1>2. past = [s EXCEPT !.names_ended = ended]
  OBVIOUS
<1>3. ended <=> s.names_ended \/ b
  OBVIOUS
<1> HIDE DEF ended
<1>4. past \in V /\ past.patterns = s.patterns /\ past.rejected = s.rejected
      /\ past.names_ended = ended
  BY <1>1, <1>2 DEF Parts
<1> HIDE DEF past
<1> DEFINE more(x) == [x EXCEPT !.patterns = Append(@, a)]
           refuse(x) == [x EXCEPT !.rejected = Append(@, c)]
<1>0. ASSUME NEW x \in V
      PROVE  /\ more(x).patterns = Append(x.patterns, a) /\ more(x).rejected = x.rejected
             /\ more(x).names_ended = x.names_ended
             /\ a \in A => more(x) \in V
             /\ refuse(x).patterns = x.patterns /\ refuse(x).rejected = Append(x.rejected, c)
             /\ refuse(x).names_ended = x.names_ended
             /\ c \in C => refuse(x) \in V
  BY PartsGrow
<1>9. one = more(s) /\ two = more(past) /\ lost = refuse(past)
  OBVIOUS
<1>10. s \in V
  BY DEF Parts
<1> HIDE DEF one, two, lost, V, more, refuse
<1>5. /\ one.patterns = Append(s.patterns, a) /\ one.rejected = s.rejected
      /\ one.names_ended = s.names_ended
      /\ a \in A => one \in V
  BY <1>0, <1>9, <1>10, Zenon
<1>6. /\ two.patterns = Append(s.patterns, a) /\ two.rejected = s.rejected
      /\ two.names_ended = ended
      /\ a \in A => two \in V
  BY <1>0, <1>4, <1>9, Zenon
<1>7. /\ lost.patterns = s.patterns /\ lost.rejected = Append(s.rejected, c)
      /\ lost.names_ended = ended
      /\ c \in C => lost \in V
  BY <1>0, <1>4, <1>9, Zenon
<1>8. /\ past.names_ended <=> s.names_ended \/ b
      /\ one.names_ended <=> s.names_ended
      /\ two.names_ended <=> s.names_ended \/ b
      /\ lost.names_ended <=> s.names_ended \/ b
  BY <1>3, <1>4, <1>5, <1>6, <1>7, Zenon
<1> QED
  BY <1>4, <1>5, <1>6, <1>7, <1>8, Zenon DEF past, one, two, lost, V, Moves, Parts

\* A step of the walk, and what it changes.
LEMMA GnomeStepMoves ==
  ASSUME NEW Q, NEW s \in GnomeStates(Q), NEW text \in WholeEntries(Q)
  PROVE  LET e == B!trim("gnome", text)
             next == B!GnomeStep(s, text)
         IN
         /\ next \in GnomeStates(Q)
         /\ next.names_ended <=> s.names_ended \/ B!Nameless(e)
         /\ \/ /\ GnomeHas(e) /\ (B!Mask(e) \/ ~next.names_ended)
               /\ next.patterns = Append(s.patterns, GnomeRule(e))
               /\ next.rejected = s.rejected
            \/ next.patterns = s.patterns /\ next.rejected = Append(s.rejected, e)
            \/ B!Nameless(e) /\ next.patterns = s.patterns /\ next.rejected = s.rejected
<1> DEFINE e == B!trim("gnome", text)
           next == B!GnomeStep(s, text)
           R == GnomeRules(Q)
           E == WholeEntries(Q)
           nameless == B!Nameless(e)
           past == [s EXCEPT !.names_ended = @ \/ nameless]
           rule == GnomeRule(e)
           one == [s EXCEPT !.patterns = Append(@, rule)]
           two == [past EXCEPT !.patterns = Append(@, rule)]
           lost == [past EXCEPT !.rejected = Append(@, e)]
           has == GnomeHas(e)
           mask == B!Mask(e)
<1>1. e \in E
  BY TrimmedIs
<1>2. has => rule \in R
  BY <1>1 DEF GnomeRules
<1>3. \/ has /\ mask /\ next = one
      \/ has /\ ~s.names_ended /\ ~nameless /\ next = two
      \/ next = lost
      \/ nameless /\ next = past
  BY GnomeStepIs
<1>4. mask => ~nameless
  BY MasksAre
<1>5. s \in [patterns : Seq(R), rejected : Seq(E), names_ended : BOOLEAN]
  BY DEF GnomeStates
<1> HIDE DEF e, next, R, E, nameless, rule, has, mask
<1>6. Moves(R, E, s, rule, e, nameless)
  BY <1>5, PartsMove DEF Parts
<1> DEFINE V == Parts(R, E)
<1>7. next \in V /\ (next.names_ended <=> s.names_ended \/ nameless)
      /\ \/ /\ has /\ (mask \/ ~next.names_ended)
            /\ next.patterns = Append(s.patterns, rule)
            /\ next.rejected = s.rejected
         \/ next.patterns = s.patterns /\ next.rejected = Append(s.rejected, e)
         \/ nameless /\ next.patterns = s.patterns /\ next.rejected = s.rejected
  <2> HIDE DEF one, two, lost, past, V
  <2>1. CASE has /\ mask /\ next = one
    BY <1>2, <1>4, <1>6, <2>1, Zenon DEF V, Moves, past, one, two, lost
  <2>2. CASE has /\ ~s.names_ended /\ ~nameless /\ next = two
    BY <1>2, <1>6, <2>2, Zenon DEF V, Moves, past, one, two, lost
  <2>3. CASE next = lost
    BY <1>1, <1>6, <2>3, Zenon DEF V, Moves, past, one, two, lost
  <2>4. CASE nameless /\ next = past
    BY <1>6, <2>4, Zenon DEF V, Moves, past, one, two, lost
  <2> QED
    BY <1>3, <2>1, <2>2, <2>3, <2>4, Zenon
<1> QED
  BY <1>7, Zenon DEF V, e, next, R, E, nameless, rule, has, mask, GnomeStates, Parts

\* The walk over a list, an entry at a time.
LEMMA GnomeRuns ==
  ASSUME NEW Q, NEW list \in Seq(WholeEntries(Q))
  PROVE  \E run : /\ run[0] = GnomeStart
                  /\ \A k \in 1 .. Len(list) : run[k] = B!GnomeStep(run[k - 1], list[k])
                  /\ \A k \in 0 .. Len(list) : run[k] \in GnomeStates(Q)
                  /\ B!push_gnome_entries(list) = run[Len(list)]
<1> DEFINE n == Len(list)
           V == GnomeStates(Q)
           base == GnomeStart
           F == [x \in V \X (1 .. n) |-> B!GnomeStep(x[1], list[x[2]])]
           Is(iter) == iter = [s \in SUBSET (1 .. n) |->
                                  IF s = {} THEN base
                                  ELSE B!GnomeStep(iter[s \ {Max(s)}], list[Max(s)])]
           it == CHOOSE iter : Is(iter)
<1>1. n \in Nat /\ DOMAIN list = 1 .. n /\ \A i \in 1 .. n : list[i] \in WholeEntries(Q)
  OBVIOUS
<1>2. base \in V
  <2> DEFINE no == FALSE
             R == GnomeRules(Q)
             E == WholeEntries(Q)
  <2>1. no \in BOOLEAN
    OBVIOUS
  <2> HIDE DEF no, R, E
  <2>2. [patterns |-> <<>>, rejected |-> <<>>, names_ended |-> no]
            \in [patterns : Seq(R), rejected : Seq(E), names_ended : BOOLEAN]
    BY <2>1
  <2> QED
    BY <2>2, Zenon DEF GnomeStart, GnomeStates, no, R, E
<1>3. \A v \in V, e \in WholeEntries(Q) : B!GnomeStep(v, e) \in V
  BY GnomeStepMoves
<1> HIDE DEF V, base, n
<1>4. F \in [V \X (1 .. n) -> V]
  BY <1>1, <1>3
<1>5. PICK iter \in [SUBSET (1 .. n) -> V] : Runs(iter, n, base, F)
  <2> HIDE DEF F
  <2> QED
    BY <1>1, <1>2, <1>4, RunExists
<1>6. Is(iter)
  <2> SUFFICES ASSUME NEW s \in SUBSET (1 .. n)
               PROVE  iter[s] = IF s = {} THEN base
                                ELSE B!GnomeStep(iter[s \ {Max(s)}], list[Max(s)])
    OBVIOUS
  <2>1. CASE s = {}
    BY <1>5, <2>1 DEF Runs
  <2>2. CASE s # {}
    <3>1. Max(s) \in 1 .. n
      BY <1>1, <2>2, GreatestIs
    <3>2. iter[s \ {Max(s)}] \in V
      BY <1>5
    <3>3. <<iter[s \ {Max(s)}], Max(s)>> \in V \X (1 .. n)
      BY <3>1, <3>2
    <3>4. iter[s] = F[<<iter[s \ {Max(s)}], Max(s)>>]
      BY <1>5, <2>2 DEF Runs
    <3> QED
      BY <2>2, <3>3, <3>4
  <2> QED
    BY <2>1, <2>2
<1>7. Is(it)
  <2> HIDE DEF Is
  <2> QED
    BY <1>6, Zenon
<1>8. B!push_gnome_entries(list) = it[1 .. n]
  BY <1>1 DEF B!push_gnome_entries, B!FoldLeft, B!MapThenFoldSet, B!Max, Max, base, GnomeStart
<1>9. \A s \in SUBSET (1 .. n) :
          it[s] = IF s = {} THEN base ELSE B!GnomeStep(it[s \ {Max(s)}], list[Max(s)])
  <2>1. it = [s \in SUBSET (1 .. n) |->
                 IF s = {} THEN base ELSE B!GnomeStep(it[s \ {Max(s)}], list[Max(s)])]
    <3> HIDE DEF it
    <3> QED
      BY <1>7
  <2> HIDE DEF it
  <2> QED
    BY <2>1
<1> HIDE DEF it
<1>10. it[{}] = base
  <2>1. {} \in SUBSET (1 .. n)
    OBVIOUS
  <2> QED
    BY <1>9, <2>1
<1>11. \A s \in SUBSET (1 .. n) :
           s # {} /\ it[s \ {Max(s)}] \in V => it[s] = F[<<it[s \ {Max(s)}], Max(s)>>]
  <2> SUFFICES ASSUME NEW s \in SUBSET (1 .. n), s # {}, it[s \ {Max(s)}] \in V
               PROVE  it[s] = F[<<it[s \ {Max(s)}], Max(s)>>]
    OBVIOUS
  <2>1. Max(s) \in 1 .. n
    BY <1>1, GreatestIs
  <2>2. <<it[s \ {Max(s)}], Max(s)>> \in V \X (1 .. n)
    BY <2>1
  <2>3. it[s] = B!GnomeStep(it[s \ {Max(s)}], list[Max(s)])
    BY <1>9
  <2> QED
    BY <2>2, <2>3
<1>12. \A v \in V, k \in 1 .. n : F[<<v, k>>] = B!GnomeStep(v, list[k])
  OBVIOUS
<1> HIDE DEF F, Is
<1>15. Folds(it, n, base, V, F)
  BY <1>10, <1>11 DEF Folds
<1>16. PICK run : Follows(run, it, n, base, V, F)
  BY <1>1, <1>2, <1>4, <1>15, FoldRuns
<1>13. /\ run[0] = base
       /\ \A k \in 1 .. n : run[k] = F[<<run[k - 1], k>>]
       /\ \A k \in 0 .. n : run[k] \in V
       /\ run[n] = it[1 .. n]
  BY <1>16 DEF Follows
<1>14. \A k \in 1 .. n : run[k] = B!GnomeStep(run[k - 1], list[k])
  <2> SUFFICES ASSUME NEW k \in 1 .. n
               PROVE  run[k] = B!GnomeStep(run[k - 1], list[k])
    OBVIOUS
  <2>1. k - 1 \in 0 .. n
    BY <1>1
  <2> QED
    BY <1>12, <1>13, <2>1
<1> QED
  BY <1>8, <1>13, <1>14 DEF V, base, n

\* Some member of a list is in a set.
Holds(list, T) == \E i \in 1 .. Len(list) : list[i] \in T

\* A list with one member more.
LEMMA AppendHolds ==
  ASSUME NEW R, NEW list \in Seq(R), NEW r \in R, NEW T
  PROVE  Holds(Append(list, r), T) <=> Holds(list, T) \/ r \in T
<1> DEFINE n == Len(list)
           more == Append(list, r)
<1>1. /\ n \in Nat /\ Len(more) = n + 1 /\ more[n + 1] = r
      /\ \A i \in 1 .. n : more[i] = list[i]
  OBVIOUS
<1> HIDE DEF more
<1>2. ASSUME Holds(more, T) PROVE Holds(list, T) \/ r \in T
  <2>1. PICK i \in 1 .. n + 1 : more[i] \in T
    BY <1>1, <1>2 DEF Holds
  <2>2. i = n + 1 \/ i \in 1 .. n
    BY <1>1
  <2> QED
    BY <1>1, <2>1, <2>2 DEF Holds
<1>3. ASSUME Holds(list, T) PROVE Holds(more, T)
  <2>1. PICK i \in 1 .. n : list[i] \in T
    BY <1>3 DEF Holds
  <2>2. i \in 1 .. Len(more) /\ more[i] \in T
    BY <1>1, <2>1
  <2> QED
    BY <2>2 DEF Holds
<1>4. ASSUME r \in T PROVE Holds(more, T)
  <2>1. n + 1 \in 1 .. Len(more) /\ more[n + 1] \in T
    BY <1>1, <1>4
  <2> QED
    BY <2>1 DEF Holds
<1> QED
  BY <1>2, <1>3, <1>4 DEF more

\* The position of an entry that GLib reads.
ReadAt(list, k) ==
    \/ B!Mask(B!trim("gnome", list[k]))
    \/ \A n \in 1 .. k : ~B!Nameless(B!trim("gnome", list[n]))

\* The walk has kept a rule that sends a request around only if an entry it has
\* read grants it, and a rule for each that does unless it has lost one.
GnomeSoFar(list, s, k, T, G) ==
    /\ s.names_ended <=> \E i \in 1 .. k : B!Nameless(B!trim("gnome", list[i]))
    /\ Holds(s.patterns, T) => \E i \in 1 .. k : ReadAt(list, i) /\ i \in G
    /\ s.rejected = <<>> => \A i \in 1 .. k : i \in G => Holds(s.patterns, T)

\* That stays so with one entry more.
LEMMA GnomeGoesOn ==
  ASSUME NEW Q, NEW list \in Seq(WholeEntries(Q)), NEW k \in 1 .. Len(list),
         NEW s \in GnomeStates(Q), NEW T, NEW G,
         \A i \in 1 .. Len(list) : LET e == B!trim("gnome", list[i]) IN
             /\ GnomeHas(e) => (GnomeRule(e) \in T <=> i \in G)
             /\ B!Nameless(e) => i \notin G,
         GnomeSoFar(list, s, k - 1, T, G)
  PROVE  GnomeSoFar(list, B!GnomeStep(s, list[k]), k, T, G)
<1> DEFINE e == B!trim("gnome", list[k])
           next == B!GnomeStep(s, list[k])
           Ends(i) == B!Nameless(B!trim("gnome", list[i]))
           Reads(i) == ReadAt(list, i)
           has == GnomeHas(e)
           mask == B!Mask(e)
           nameless == B!Nameless(e)
           hit == Holds(s.patterns, T)
           hits == Holds(next.patterns, T)
           rule == GnomeRule(e)
<1>1. list[k] \in WholeEntries(Q) /\ k \in Nat /\ k >= 1
  OBVIOUS
<1>2. e \in WholeEntries(Q)
  BY <1>1, TrimmedIs
<1>3. /\ next.names_ended <=> s.names_ended \/ nameless
      /\ \/ /\ has /\ (mask \/ ~next.names_ended)
            /\ next.patterns = Append(s.patterns, rule)
            /\ next.rejected = s.rejected
         \/ next.patterns = s.patterns /\ next.rejected = Append(s.rejected, e)
         \/ nameless /\ next.patterns = s.patterns /\ next.rejected = s.rejected
  BY <1>1, GnomeStepMoves
<1>4. /\ s.names_ended <=> \E i \in 1 .. k - 1 : Ends(i)
      /\ hit => \E i \in 1 .. k - 1 : Reads(i) /\ i \in G
      /\ s.rejected = <<>> => \A i \in 1 .. k - 1 : i \in G => hit
  BY DEF GnomeSoFar
<1>5. (has => (rule \in T <=> k \in G)) /\ (nameless => k \notin G) /\ (nameless <=> Ends(k))
  OBVIOUS
<1>6. Reads(k) <=> mask \/ \A i \in 1 .. k : ~Ends(i)
  BY DEF ReadAt
<1>7. has => (Holds(Append(s.patterns, rule), T) <=> hit \/ rule \in T)
  <2> SUFFICES ASSUME has PROVE Holds(Append(s.patterns, rule), T) <=> hit \/ rule \in T
    OBVIOUS
  <2>1. rule \in GnomeRules(Q)
    BY <1>2 DEF GnomeRules
  <2>2. s.patterns \in Seq(GnomeRules(Q))
    BY DEF GnomeStates
  <2> QED
    BY <2>1, <2>2, AppendHolds
<1>8. Append(s.rejected, e) # <<>>
  <2>1. s.rejected \in Seq(WholeEntries(Q))
    BY DEF GnomeStates
  <2> QED
    BY <1>2, <2>1
<1> HIDE DEF next, Ends, Reads, has, mask, nameless, hit, rule, e
<1>9. \A i \in 1 .. k : i \in 1 .. k - 1 \/ i = k
  BY <1>1
<1>10. (1 .. k - 1) \subseteq (1 .. k) /\ k \in 1 .. k
  BY <1>1
<1>11. next.names_ended <=> \E i \in 1 .. k : Ends(i)
  BY <1>3, <1>4, <1>5, <1>9, <1>10
<1>12. hits => \E i \in 1 .. k : Reads(i) /\ i \in G
  <2>1. CASE /\ has /\ (mask \/ ~next.names_ended)
             /\ next.patterns = Append(s.patterns, rule)
    <3>1. Reads(k)
      BY <1>6, <1>11, <2>1, Zenon
    <3>2. hits => hit \/ k \in G
      BY <1>5, <1>7, <2>1, Zenon
    <3> QED
      BY <1>4, <1>10, <3>1, <3>2, Zenon
  <2>2. CASE next.patterns = s.patterns
    <3>1. hits => hit
      BY <2>2, Zenon DEF hit
    <3> QED
      BY <1>4, <1>10, <3>1, Zenon
  <2> QED
    BY <1>3, <2>1, <2>2, Zenon
<1>13. next.rejected = <<>> => \A i \in 1 .. k : i \in G => hits
  <2>1. CASE /\ has
             /\ next.patterns = Append(s.patterns, rule)
             /\ next.rejected = s.rejected
    <3>1. hits <=> hit \/ k \in G
      BY <1>5, <1>7, <2>1, Zenon
    <3> QED
      BY <1>4, <1>9, <2>1, <3>1, Zenon
  <2>2. CASE next.rejected = Append(s.rejected, e)
    BY <1>8, <2>2
  <2>3. CASE nameless /\ next.patterns = s.patterns /\ next.rejected = s.rejected
    <3>1. hits <=> hit
      BY <2>3, Zenon DEF hit
    <3> QED
      BY <1>4, <1>5, <1>9, <2>3, <3>1, Zenon
  <2> QED
    BY <1>3, <2>1, <2>2, <2>3, Zenon
<1> QED
  BY <1>11, <1>12, <1>13, Zenon DEF GnomeSoFar, next, Ends, Reads

\* The rules a list comes to and the entries it holds.
LEMMA GnomeListKeeps ==
  ASSUME NEW Q, NEW list \in Seq(WholeEntries(Q)), NEW T, NEW G,
         \A i \in 1 .. Len(list) : LET e == B!trim("gnome", list[i]) IN
             /\ GnomeHas(e) => (GnomeRule(e) \in T <=> i \in G)
             /\ B!Nameless(e) => i \notin G
  PROVE  /\ B!push_gnome_entries(list) \in GnomeStates(Q)
         /\ GnomeSoFar(list, B!push_gnome_entries(list), Len(list), T, G)
<1> DEFINE n == Len(list)
<1>1. n \in Nat
  OBVIOUS
<1>2. PICK run : /\ run[0] = GnomeStart
                 /\ \A k \in 1 .. n : run[k] = B!GnomeStep(run[k - 1], list[k])
                 /\ \A k \in 0 .. n : run[k] \in GnomeStates(Q)
                 /\ B!push_gnome_entries(list) = run[n]
  BY GnomeRuns
<1> HIDE DEF n
<1> DEFINE J == {k \in 0 .. n : GnomeSoFar(list, run[k], k, T, G)}
<1>3. 0 \in J
  <2>1. 1 .. 0 = {} /\ 0 \in 0 .. n
    BY <1>1
  <2>2. ~GnomeStart.names_ended /\ GnomeStart.patterns = <<>>
    BY DEF GnomeStart
  <2>3. ~Holds(<<>>, T)
    BY DEF Holds
  <2>4. ~Holds(GnomeStart.patterns, T)
    BY <2>2, <2>3
  <2>5. GnomeSoFar(list, GnomeStart, 0, T, G)
    BY <2>1, <2>2, <2>4 DEF GnomeSoFar
  <2> QED
    BY <1>2, <2>1, <2>5
<1>4. \A k \in 1 .. n : k - 1 \in J => k \in J
  <2> SUFFICES ASSUME NEW k \in 1 .. n, k - 1 \in J
               PROVE  k \in J
    OBVIOUS
  <2>1. k \in 0 .. n /\ k - 1 \in 0 .. n
    BY <1>1
  <2>2. run[k - 1] \in GnomeStates(Q) /\ GnomeSoFar(list, run[k - 1], k - 1, T, G)
    BY <1>2, <2>1
  <2>3. GnomeSoFar(list, B!GnomeStep(run[k - 1], list[k]), k, T, G)
    BY <2>2, GnomeGoesOn DEF n
  <2> QED
    BY <1>2, <2>1, <2>3
<1>5. \A k \in 0 .. n : k \in J
  <2> HIDE DEF J
  <2> QED
    BY <1>1, <1>3, <1>4, Climbs
<1>6. n \in 0 .. n
  BY <1>1
<1> QED
  BY <1>2, <1>5, <1>6 DEF n
-----------------------------------------------------------------------------
(* A list without subtractions.                                            *)

\* A list that subtracts nothing speaks if it holds a rule that does.
LEMMA HeldIsSpoken ==
  ASSUME NEW list, NEW T
  PROVE  Verdict(list, T, {}) = IF Holds(list, T) THEN "other" ELSE "none"
BY DEF Verdict, Speaking, Holds

\* It sends around what one of its entries names, and what comes with the list.
LEMMA ListsSend ==
  ASSUME NEW P, NEW list \in Seq(P), \A p \in P : ~B!Subtracts(p),
         NEW rules, rules.patterns = B!dedup_patterns(list), ~rules.reversed_exceptions,
         NEW host, NEW q, NEW T,
         \A p \in P : p \in T <=> B!PatternMatches(rules, p, host, q)
  PROVE  B!matches(rules, host, q) <=>
             \/ rules.exclude_simple_hostnames /\ ~B!HasDot(host)
             \/ Holds(list, T)
             \/ B!covers(rules.implicit, host)
<1> DEFINE tell == Tells(P, rules, host, q)
           kept == rules.patterns
           held == Holds(list, T)
           implicit == B!covers(rules.implicit, host)
           simple == rules.exclude_simple_hostnames /\ ~B!HasDot(host)
           verdict == Verdict(kept, tell, {})
           takes == Takes(kept, {})
<1>1. Subs(P) = {}
  BY DEF Subs
<1>2. tell = T \cap P
  BY DEF Tells
<1>3. \A p \in P : p \in {} <=> B!Subtracts(p)
  OBVIOUS
<1>4. kept \in Seq(P) /\ verdict = Verdict(list, tell, {})
  BY <1>3, DedupKeepsTheVerdict
<1>5. Holds(list, tell) <=> held
  <2>1. \A i \in 1 .. Len(list) : list[i] \in P
    OBVIOUS
  <2> HIDE DEF tell
  <2> QED
    BY <1>2, <2>1 DEF Holds
<1>6. verdict = IF held THEN "other" ELSE "none"
  BY <1>4, <1>5, HeldIsSpoken
<1>7. ~takes
  BY DEF Takes
<1>8. B!matches(rules, host, q) <=> Around(rules, host, verdict, takes)
  BY <1>1, <1>4, MatchesIs
<1> HIDE DEF verdict, takes, held
<1>9. Around(rules, host, verdict, takes) <=>
          \/ simple
          \/ verdict = "none" /\ implicit
          \/ verdict = "other"
  <2>1. ~B!Unnamed(rules)
    BY Zenon DEF B!Unnamed
  <2>2. Around(rules, host, verdict, takes) <=>
           \/ rules.exclude_simple_hostnames /\ ~B!HasDot(host) /\ ~(takes /\ implicit)
           \/ verdict = "none" /\ (implicit \/ B!Unnamed(rules))
           \/ verdict = "sub" /\ B!Unnamed(rules)
           \/ verdict = "other" /\ ~rules.reversed_exceptions
    BY Zenon DEF Around
  <2> QED
    BY <1>7, <2>1, <2>2, Zenon
<1>10. (verdict = "none" <=> ~held) /\ (verdict = "other" <=> held)
  BY <1>6
<1> QED
  BY <1>8, <1>9, <1>10, Zenon DEF held

\* A rule is compared by what the list says of addresses and of dots.
LEMMA RulesCompareAlike ==
  ASSUME NEW d, NEW rules,
         rules.ipv4_mapped_as_ipv4 = B!Reader(d, <<>>, {}).ipv4_mapped_as_ipv4,
         rules.strip_trailing_dot = B!Reader(d, <<>>, {}).strip_trailing_dot,
         NEW rule, NEW host, NEW q
  PROVE  B!PatternMatches(rules, rule, host, q) <=> Sends(d, rule, host, q)
<1> DEFINE r == B!Reader(d, <<>>, {})
<1> HIDE DEF r
<1>1. /\ rules.ipv4_mapped_as_ipv4 = r.ipv4_mapped_as_ipv4
      /\ rules.strip_trailing_dot = r.strip_trailing_dot
  BY DEF r
<1>2. B!PatternMatches(rules, rule, host, q) <=> B!PatternMatches(r, rule, host, q)
  BY <1>1, Zenon DEF B!PatternMatches, B!Stripped
<1> QED
  BY <1>2, Zenon DEF Sends, r

-----------------------------------------------------------------------------
(* What GNOME's list sends around.                                         *)

\* What GLib reads of a list, by its positions.
LEMMA GnomeReadsAre ==
  ASSUME NEW Q, NEW list \in Seq(WholeEntries(Q)), NEW host, NEW q
  PROVE  (\E e \in B!GnomeReads(list) : B!Grants("gnome", e, host, q)) <=>
             \E i \in 1 .. Len(list) :
                 ReadAt(list, i) /\ Granted("gnome", B!trim("gnome", list[i]), host, q)
<1>1. DOMAIN list = 1 .. Len(list)
  OBVIOUS
<1>2. B!GnomeReads(list) = {list[i] : i \in {k \in 1 .. Len(list) : ReadAt(list, k)}}
  BY <1>1, Zenon DEF B!GnomeReads, ReadAt
<1>3. \A i \in 1 .. Len(list) : B!Grants("gnome", list[i], host, q)
                                   <=> Granted("gnome", B!trim("gnome", list[i]), host, q)
  BY TrimmedReads
<1> QED
  BY <1>2, <1>3

\* A list of GNOME of any length sends around what an entry that GLib reads grants,
\* and all of it unless an entry is recorded as lost: push_gnome_entries walks it
\* entry by entry, and GLib reads on where the walk does.
THEOREM GnomeListsSendWhatTheyGrant ==
  ASSUME NEW P, NEW I, NEW host \in MetHosts("gnome", P, I),
         NEW Q, NEW list \in Seq(WholeEntries(Q)),
         \A i \in 1 .. Len(list) :
             B!HasStar(B!Ascii(list[i].labels)) => Seen("gnome", host) \in B!Destinations,
         NEW q
  PROVE  LET read == B!push_gnome_entries(list)
             sent == B!matches(B!Reader("gnome", read.patterns, {}), host, q)
             asked == \E e \in B!GnomeReads(list) : B!Grants("gnome", e, host, q)
         IN
         /\ sent => asked
         /\ read.rejected = <<>> => (sent <=> asked)
<1> DEFINE read == B!push_gnome_entries(list)
           pats == read.patterns
           rules == B!Reader("gnome", pats, {})
           R == GnomeRules(Q)
           T == {r \in R : Sends("gnome", r, host, q)}
           G == {i \in 1 .. Len(list) : Granted("gnome", B!trim("gnome", list[i]), host, q)}
           sent == B!matches(rules, host, q)
           asked == \E e \in B!GnomeReads(list) : B!Grants("gnome", e, host, q)
<1>1. ASSUME NEW i \in 1 .. Len(list)
      PROVE  LET e == B!trim("gnome", list[i]) IN
             /\ GnomeHas(e) => (GnomeRule(e) \in T <=> i \in G)
             /\ B!Nameless(e) => i \notin G
  <2> DEFINE e == B!trim("gnome", list[i])
  <2>1. list[i] \in WholeEntries(Q)
    OBVIOUS
  <2>2. e \in WholeEntries(Q) /\ e.labels = list[i].labels
    BY <2>1, TrimmedIs
  <2>3. ASSUME GnomeHas(e) PROVE GnomeRule(e) \in T <=> i \in G
    <3>1. GnomeRule(e) \in R
      BY <2>2, <2>3 DEF GnomeRules
    <3>2. B!HasStar(B!Ascii(e.labels)) => Seen("gnome", host) \in B!Destinations
      BY <2>2
    <3>3. Sends("gnome", GnomeRule(e), host, q) <=> Granted("gnome", e, host, q)
      <4> HIDE DEF e
      <4> QED
        BY <2>2, <2>3, <3>2, GnomeRulesGrant
    <3> HIDE DEF R
    <3> QED
      BY <3>1, <3>3
  <2>4. ASSUME B!Nameless(e) PROVE i \notin G
    <3>1. ~Granted("gnome", e, host, q)
      BY <2>2, <2>4, NamelessGrantsNothing
    <3> QED
      BY <3>1
  <2> QED
    BY <2>3, <2>4
<1> HIDE DEF T, G
<1>2. read \in GnomeStates(Q) /\ GnomeSoFar(list, read, Len(list), T, G)
  BY <1>1, GnomeListKeeps
<1> HIDE DEF read
<1>3. /\ Holds(pats, T) => \E i \in 1 .. Len(list) : ReadAt(list, i) /\ i \in G
      /\ read.rejected = <<>> => \A i \in 1 .. Len(list) : i \in G => Holds(pats, T)
  BY <1>2, Zenon DEF GnomeSoFar
<1>4. asked <=> \E i \in 1 .. Len(list) : ReadAt(list, i) /\ i \in G
  <2>1. asked <=> \E i \in 1 .. Len(list) :
                     ReadAt(list, i) /\ Granted("gnome", B!trim("gnome", list[i]), host, q)
    BY GnomeReadsAre
  <2> QED
    BY <2>1 DEF G
<1>5. sent <=> Holds(pats, T)
  <2>1. pats \in Seq(R)
    BY <1>2 DEF GnomeStates
  <2>2. \A r \in R : ~B!Subtracts(r)
    <3> SUFFICES ASSUME NEW e \in WholeEntries(Q), GnomeHas(e)
                 PROVE  ~B!Subtracts(GnomeRule(e))
      BY DEF GnomeRules
    <3>1. GnomeRule(e).kind \in {"all", "cidr", "exact", "wildcard", "domain"}
      BY GnomeRuleKinds
    <3> QED
      BY <3>1 DEF B!Subtracts
  <2>3. /\ rules.patterns = B!dedup_patterns(pats)
        /\ ~rules.reversed_exceptions /\ ~rules.exclude_simple_hostnames
        /\ rules.implicit = "empty"
        /\ rules.ipv4_mapped_as_ipv4 = B!Reader("gnome", <<>>, {}).ipv4_mapped_as_ipv4
        /\ rules.strip_trailing_dot = B!Reader("gnome", <<>>, {}).strip_trailing_dot
    BY DEF B!Reader, B!Entries
  <2>4. ~B!covers("empty", host)
    BY DEF B!covers
  <2> HIDE DEF R, rules
  <2>5. \A r \in R : r \in T <=> B!PatternMatches(rules, r, host, q)
    <3> SUFFICES ASSUME NEW r \in R PROVE r \in T <=> B!PatternMatches(rules, r, host, q)
      OBVIOUS
    <3>1. B!PatternMatches(rules, r, host, q) <=> Sends("gnome", r, host, q)
      BY <2>3, RulesCompareAlike
    <3> QED
      BY <3>1 DEF T
  <2>6. sent <=> \/ rules.exclude_simple_hostnames /\ ~B!HasDot(host)
                 \/ Holds(pats, T)
                 \/ B!covers(rules.implicit, host)
    <3> HIDE DEF pats
    <3> QED
      BY <2>1, <2>2, <2>3, <2>5, ListsSend
  <2> QED
    BY <2>3, <2>4, <2>6
<1> QED
  BY <1>3, <1>4, <1>5, Zenon DEF read
-----------------------------------------------------------------------------
(* The list of macOS.                                                      *)

\* Entries of a list, none of them a word of another dialect.
OrdinaryEntries(Q) == {e \in WholeEntries(Q) : Ordinary(e)}

\* The short form of a block is an entry that grants the same.
LEMMA MacExpanded ==
  ASSUME NEW Q, NEW e \in OrdinaryEntries(Q), NEW host, NEW q
  PROVE  LET x == B!expand_abbreviated_cidr(e) IN
         /\ x \in OrdinaryEntries(Q) /\ x.labels = e.labels
         /\ Granted("macos", x, host, q) <=> Granted("macos", e, host, q)
<1> DEFINE x == B!expand_abbreviated_cidr(e)
<1>1. e \in WholeEntries(Q) /\ Ordinary(e) /\ (e.net # "none" => e = Block(e.net, e.edge))
  BY WholeEntriesAre DEF OrdinaryEntries
<1>2. CASE ~(e.net = "short" /\ e.edge = "")
  <2>1. x = e
    BY <1>2, Zenon DEF B!expand_abbreviated_cidr
  <2> QED
    BY <2>1, Zenon
<1>3. CASE e.net = "short" /\ e.edge = ""
  <2> DEFINE long == Block("plain", "")
             short == Block("short", "")
  <2>1. e = short
    <3>1. e.net # "none"
      BY <1>3
    <3> QED
      BY <1>1, <1>3, <3>1, Zenon
  <2>2. x = [e EXCEPT !.net = "plain"]
    BY <1>3, Zenon DEF B!expand_abbreviated_cidr
  <2>3. x = long
    <3>1. [short EXCEPT !.net = "plain"] = long
      BY DEF Block, B!Blank
    <3> HIDE DEF short, long, x
    <3> QED
      BY <2>1, <2>2, <3>1
  <2>4. long.labels = <<>> /\ long \in EntryForms(Q) /\ long.net = "plain" /\ long.edge = ""
    <3>1. long.labels = <<>> /\ long.net = "plain" /\ long.edge = ""
      BY DEF Block, B!Blank
    <3>2. [e EXCEPT !.net = "plain"] \in EntryForms(Q)
      <4>1. e \in EntryForms(Q)
        BY <1>1 DEF WholeEntries
      <4> QED
        BY <4>1 DEF EntryForms, Nets
    <3> HIDE DEF long, x
    <3> QED
      BY <2>2, <2>3, <3>1, <3>2
  <2>5. long \in WholeEntries(Q)
    <3> HIDE DEF long
    <3>1. long = Block(long.net, long.edge)
      BY <2>4, Zenon DEF long
    <3> QED
      BY <2>4, <3>1 DEF WholeEntries
  <2>6. Ordinary(long)
    <3>1. <<>> # <<"<local>">> /\ <<>> # <<"<-loopback>">>
      OBVIOUS
    <3> QED
      BY <2>4, <3>1, Zenon DEF Ordinary
  <2>7. short.labels = <<>>
    BY DEF Block, B!Blank
  <2>8. /\ B!BlockNames("macos", "plain") = {"10"}
        /\ B!BlockNames("macos", "short") = {"10"}
    BY DEF B!BlockNames
  <2>9. \A net \in {"plain", "short"} :
            LET b == Block(net, "") IN
            b.edge = "" /\ b.mark \in {"", "["} /\ b.port = B!NoPort /\ b.net = net /\ b.net # "none"
    BY DEF Block, B!Blank
  <2>10. Granted("macos", long, host, q) <=> Granted("macos", short, host, q)
    <3>1. /\ long.edge = "" /\ long.mark \in {"", "["} /\ long.port = B!NoPort
          /\ long.net = "plain" /\ long.net # "none"
      BY <2>9
    <3>2. /\ short.edge = "" /\ short.mark \in {"", "["} /\ short.port = B!NoPort
          /\ short.net = "short" /\ short.net # "none"
      BY <2>9
    <3> HIDE DEF long, short
    <3> QED
      BY <2>8, <3>1, <3>2, Zenon DEF Granted
  <2> HIDE DEF long, short, x
  <2>11. /\ x \in OrdinaryEntries(Q) /\ x.labels = e.labels
         /\ Granted("macos", x, host, q) <=> Granted("macos", e, host, q)
    BY <2>1, <2>3, <2>4, <2>5, <2>6, <2>7, <2>10 DEF OrdinaryEntries
  <2> QED
    BY <2>11, Zenon DEF x
<1> QED
  BY <1>2, <1>3

\* What an entry of macOS becomes.
MacRule(e) == B!parse_in("macos", B!expand_abbreviated_cidr(e))

\* The list of macOS is not trimmed.
LEMMA MacTrims ==
  ASSUME NEW e
  PROVE  B!trim("macos", e) = e
BY DEF B!trim

\* An entry of macOS is refused, grants nothing, or becomes a rule for what it grants.
LEMMA MacRulesGrant ==
  ASSUME NEW P, NEW I, NEW host \in MetHosts("macos", P, I),
         NEW Q, NEW e \in OrdinaryEntries(Q),
         B!HasStar(B!Ascii(e.labels)) => Seen("macos", host) \in B!Destinations, NEW q
  PROVE  \/ MacRule(e) = B!Refused
         \/ MacRule(e) = B!NoRule /\ ~Granted("macos", e, host, q)
         \/ /\ MacRule(e) # B!Refused /\ MacRule(e) # B!NoRule
            /\ MacRule(e).kind \in {"all", "cidr", "exact", "wildcard", "domain"}
            /\ Sends("macos", MacRule(e), host, q) <=> Granted("macos", e, host, q)
<1> DEFINE x == B!expand_abbreviated_cidr(e)
           rule == MacRule(e)
<1>1. /\ x \in OrdinaryEntries(Q) /\ x.labels = e.labels
      /\ Granted("macos", x, host, q) <=> Granted("macos", e, host, q)
  BY MacExpanded
<1>2. rule = Parsed("macos", x)
  <2>1. B!parse_in("macos", x) = Parsed("macos", B!trim("macos", x))
    BY TrimmedReads
  <2>2. B!trim("macos", x) = x
    BY MacTrims
  <2> QED
    BY <2>1, <2>2 DEF MacRule
<1> HIDE DEF x, rule
<1>3. Given("macos", Q, x)
  <2>1. "macos" # "gnome" /\ x \in WholeEntries(Q) /\ Ordinary(x)
    BY <1>1 DEF OrdinaryEntries
  <2> QED
    BY <2>1, Zenon DEF Given
<1>4. "macos" \in B!EntryDialects
  BY DEF B!EntryDialects
<1>5. \/ rule = B!Refused
      \/ rule = B!NoRule /\ x.labels = <<>> /\ x.net = "none"
      \/ AllForm("macos", x, rule) \/ NetForm("macos", x, rule) \/ ReadForm("macos", x, rule)
  BY <1>2, <1>3, <1>4, EntriesBecome
<1>6. CASE rule = B!NoRule /\ x.labels = <<>> /\ x.net = "none"
  <2>1. x.labels \in Seq(Q)
    BY <1>1, WholeEntriesAre DEF OrdinaryEntries
  <2>2. ~Granted("macos", x, host, q)
    BY <1>4, <1>6, <2>1, NothingIsGranted
  <2> QED
    BY <1>1, <1>6, <2>2, Zenon DEF rule
<1>7. CASE AllForm("macos", x, rule) \/ NetForm("macos", x, rule) \/ ReadForm("macos", x, rule)
  <2>1. /\ rule.kind \in {"all", "cidr", "exact", "wildcard", "domain"}
        /\ rule # B!NoRule /\ rule # B!Refused
    BY <1>7, RulesAreKnown
  <2>2. B!HasStar(B!Ascii(x.labels)) => Seen("macos", host) \in B!Destinations
    BY <1>1
  <2>3. Sends("macos", rule, host, q) <=> Granted("macos", x, host, q)
    BY <1>3, <1>4, <1>7, <2>2, EntriesSend
  <2> QED
    BY <1>1, <2>1, <2>3, Zenon DEF rule
<1> QED
  BY <1>5, <1>6, <1>7, Zenon DEF rule

\* The rules are of the kinds that are named.
LEMMA MacRuleKinds ==
  ASSUME NEW Q, NEW e \in OrdinaryEntries(Q), MacRule(e) \notin {B!Refused, B!NoRule}
  PROVE  MacRule(e).kind \in {"all", "cidr", "exact", "wildcard", "domain"}
<1> DEFINE x == B!expand_abbreviated_cidr(e)
           rule == MacRule(e)
<1>1. x \in OrdinaryEntries(Q)
  BY MacExpanded
<1>2. rule = Parsed("macos", x)
  <2>1. B!parse_in("macos", x) = Parsed("macos", B!trim("macos", x))
    BY TrimmedReads
  <2>2. B!trim("macos", x) = x
    BY MacTrims
  <2> QED
    BY <2>1, <2>2 DEF MacRule
<1> HIDE DEF x, rule
<1>3. Given("macos", Q, x)
  <2>1. "macos" # "gnome" /\ x \in WholeEntries(Q) /\ Ordinary(x)
    BY <1>1 DEF OrdinaryEntries
  <2> QED
    BY <2>1, Zenon DEF Given
<1>4. "macos" \in B!EntryDialects
  BY DEF B!EntryDialects
<1>5. \/ rule = B!Refused \/ rule = B!NoRule
      \/ AllForm("macos", x, rule) \/ NetForm("macos", x, rule) \/ ReadForm("macos", x, rule)
  BY <1>2, <1>3, <1>4, EntriesBecome, Zenon
<1>6. AllForm("macos", x, rule) \/ NetForm("macos", x, rule) \/ ReadForm("macos", x, rule)
  BY <1>5 DEF rule
<1>7. rule.kind \in {"all", "cidr", "exact", "wildcard", "domain"}
  BY <1>6, RulesAreKnown
<1> QED
  BY <1>7 DEF rule

\* The states of the walk.
MacRules(Q) ==
    {MacRule(e) : e \in {x \in OrdinaryEntries(Q) : MacRule(x) \notin {B!Refused, B!NoRule}}}
MacStates(Q) == [kept : Seq(MacRules(Q)), lost : Nat]
MacStart == [kept |-> <<>>, lost |-> 0]

\* A step of the walk, and what it changes.
LEMMA MacStepMoves ==
  ASSUME NEW Q, NEW s \in MacStates(Q), NEW e \in OrdinaryEntries(Q)
  PROVE  LET next == B!MacStep(s, e) IN
         /\ next \in MacStates(Q)
         /\ \/ MacRule(e) = B!Refused /\ next.kept = s.kept /\ next.lost = s.lost + 1
            \/ MacRule(e) = B!NoRule /\ next = s
            \/ /\ MacRule(e) \notin {B!Refused, B!NoRule}
               /\ next.kept = Append(s.kept, MacRule(e)) /\ next.lost = s.lost
<1> DEFINE rule == MacRule(e)
           next == B!MacStep(s, e)
           R == MacRules(Q)
<1>1. next = IF rule = B!Refused THEN [s EXCEPT !.lost = @ + 1]
             ELSE IF rule = B!NoRule THEN s
             ELSE [s EXCEPT !.kept = Append(@, rule)]
  BY Zenon DEF B!MacStep, MacRule
<1>2. rule \notin {B!Refused, B!NoRule} => rule \in R
  BY DEF MacRules
<1>3. s \in [kept : Seq(R), lost : Nat] /\ MacStates(Q) = [kept : Seq(R), lost : Nat]
  BY DEF MacStates
<1> HIDE DEF rule, next, R
<1>4. CASE rule = B!Refused
  <2>1. next = [s EXCEPT !.lost = @ + 1]
    BY <1>1, <1>4, Zenon
  <2>2. next \in MacStates(Q) /\ next.kept = s.kept /\ next.lost = s.lost + 1
    BY <1>3, <2>1
  <2> QED
    BY <1>4, <2>2, Zenon DEF rule, next
<1>5. CASE rule # B!Refused /\ rule = B!NoRule
  <2>1. next = s
    BY <1>1, <1>5, Zenon
  <2> QED
    BY <1>5, <2>1, Zenon DEF rule, next
<1>6. CASE rule \notin {B!Refused, B!NoRule}
  <2>1. next = [s EXCEPT !.kept = Append(@, rule)]
    BY <1>1, <1>6, Zenon
  <2>2. s.kept \in Seq(R) /\ s.lost \in Nat /\ rule \in R
    BY <1>2, <1>3, <1>6
  <2>3. next = [kept |-> Append(s.kept, rule), lost |-> s.lost]
    BY <1>3, <2>1
  <2>4. Append(s.kept, rule) \in Seq(R)
    BY <2>2
  <2>5. next \in MacStates(Q) /\ next.kept = Append(s.kept, rule) /\ next.lost = s.lost
    BY <1>3, <2>2, <2>3, <2>4
  <2> QED
    BY <1>6, <2>5, Zenon DEF rule, next
<1> QED
  BY <1>4, <1>5, <1>6, Zenon

\* The walk over a list, an entry at a time.
LEMMA MacRuns ==
  ASSUME NEW Q, NEW list \in Seq(OrdinaryEntries(Q))
  PROVE  \E run : /\ run[0] = MacStart
                  /\ \A k \in 1 .. Len(list) : run[k] = B!MacStep(run[k - 1], list[k])
                  /\ \A k \in 0 .. Len(list) : run[k] \in MacStates(Q)
                  /\ B!FoldLeft(B!MacStep, MacStart, list) = run[Len(list)]
<1> DEFINE n == Len(list)
           V == MacStates(Q)
           base == MacStart
           F == [x \in V \X (1 .. n) |-> B!MacStep(x[1], list[x[2]])]
           Is(iter) == iter = [s \in SUBSET (1 .. n) |->
                                  IF s = {} THEN base
                                  ELSE B!MacStep(iter[s \ {Max(s)}], list[Max(s)])]
           it == CHOOSE iter : Is(iter)
<1>1. n \in Nat /\ DOMAIN list = 1 .. n /\ \A i \in 1 .. n : list[i] \in OrdinaryEntries(Q)
  OBVIOUS
<1>2. base \in V
  <2>1. <<>> \in Seq(MacRules(Q))
    OBVIOUS
  <2> QED
    BY <2>1 DEF MacStart, MacStates
<1>3. \A v \in V, e \in OrdinaryEntries(Q) : B!MacStep(v, e) \in V
  BY MacStepMoves
<1> HIDE DEF V, base, n
<1>4. F \in [V \X (1 .. n) -> V]
  BY <1>1, <1>3
<1>5. PICK iter \in [SUBSET (1 .. n) -> V] : Runs(iter, n, base, F)
  <2> HIDE DEF F
  <2> QED
    BY <1>1, <1>2, <1>4, RunExists
<1>6. Is(iter)
  <2> SUFFICES ASSUME NEW s \in SUBSET (1 .. n)
               PROVE  iter[s] = IF s = {} THEN base
                                ELSE B!MacStep(iter[s \ {Max(s)}], list[Max(s)])
    OBVIOUS
  <2>1. CASE s = {}
    BY <1>5, <2>1 DEF Runs
  <2>2. CASE s # {}
    <3>1. Max(s) \in 1 .. n
      BY <1>1, <2>2, GreatestIs
    <3>2. iter[s \ {Max(s)}] \in V
      BY <1>5
    <3>3. <<iter[s \ {Max(s)}], Max(s)>> \in V \X (1 .. n)
      BY <3>1, <3>2
    <3>4. iter[s] = F[<<iter[s \ {Max(s)}], Max(s)>>]
      BY <1>5, <2>2 DEF Runs
    <3> QED
      BY <2>2, <3>3, <3>4
  <2> QED
    BY <2>1, <2>2
<1>7. Is(it)
  <2> HIDE DEF Is
  <2> QED
    BY <1>6, Zenon
<1>8. B!FoldLeft(B!MacStep, base, list) = it[1 .. n]
  BY <1>1 DEF B!FoldLeft, B!MapThenFoldSet, B!Max, Max
<1>9. \A s \in SUBSET (1 .. n) :
          it[s] = IF s = {} THEN base ELSE B!MacStep(it[s \ {Max(s)}], list[Max(s)])
  <2>1. it = [s \in SUBSET (1 .. n) |->
                 IF s = {} THEN base ELSE B!MacStep(it[s \ {Max(s)}], list[Max(s)])]
    <3> HIDE DEF it
    <3> QED
      BY <1>7
  <2> HIDE DEF it
  <2> QED
    BY <2>1
<1> HIDE DEF it
<1>10. it[{}] = base
  <2>1. {} \in SUBSET (1 .. n)
    OBVIOUS
  <2> QED
    BY <1>9, <2>1
<1>11. \A s \in SUBSET (1 .. n) :
           s # {} /\ it[s \ {Max(s)}] \in V => it[s] = F[<<it[s \ {Max(s)}], Max(s)>>]
  <2> SUFFICES ASSUME NEW s \in SUBSET (1 .. n), s # {}, it[s \ {Max(s)}] \in V
               PROVE  it[s] = F[<<it[s \ {Max(s)}], Max(s)>>]
    OBVIOUS
  <2>1. Max(s) \in 1 .. n
    BY <1>1, GreatestIs
  <2>2. <<it[s \ {Max(s)}], Max(s)>> \in V \X (1 .. n)
    BY <2>1
  <2>3. it[s] = B!MacStep(it[s \ {Max(s)}], list[Max(s)])
    BY <1>9
  <2> QED
    BY <2>2, <2>3
<1>12. \A v \in V, k \in 1 .. n : F[<<v, k>>] = B!MacStep(v, list[k])
  OBVIOUS
<1> HIDE DEF F, Is
<1>15. Folds(it, n, base, V, F)
  BY <1>10, <1>11 DEF Folds
<1>16. PICK run : Follows(run, it, n, base, V, F)
  BY <1>1, <1>2, <1>4, <1>15, FoldRuns
<1>13. /\ run[0] = base
       /\ \A k \in 1 .. n : run[k] = F[<<run[k - 1], k>>]
       /\ \A k \in 0 .. n : run[k] \in V
       /\ run[n] = it[1 .. n]
  BY <1>16 DEF Follows
<1>14. \A k \in 1 .. n : run[k] = B!MacStep(run[k - 1], list[k])
  <2> SUFFICES ASSUME NEW k \in 1 .. n
               PROVE  run[k] = B!MacStep(run[k - 1], list[k])
    OBVIOUS
  <2>1. k - 1 \in 0 .. n
    BY <1>1
  <2> QED
    BY <1>12, <1>13, <2>1
<1> QED
  BY <1>8, <1>13, <1>14 DEF V, base, n

\* The walk keeps a rule that sends a request around only for an entry that grants
\* it, and a rule for each such entry unless it has lost one.
MacSoFar(s, k, T, G) ==
    /\ Holds(s.kept, T) => \E i \in 1 .. k : i \in G
    /\ s.lost = 0 => \A i \in 1 .. k : i \in G => Holds(s.kept, T)

\* That stays so with one entry more.
LEMMA MacGoesOn ==
  ASSUME NEW Q, NEW n \in Nat, NEW k \in 1 .. n, NEW e \in OrdinaryEntries(Q),
         NEW s \in MacStates(Q), NEW T, NEW G,
         MacRule(e) \notin {B!Refused, B!NoRule} => (MacRule(e) \in T <=> k \in G),
         MacRule(e) = B!NoRule => k \notin G,
         MacSoFar(s, k - 1, T, G)
  PROVE  MacSoFar(B!MacStep(s, e), k, T, G)
<1> DEFINE next == B!MacStep(s, e)
           rule == MacRule(e)
           hit == Holds(s.kept, T)
           hits == Holds(next.kept, T)
<1>1. /\ next \in MacStates(Q)
      /\ \/ rule = B!Refused /\ next.kept = s.kept /\ next.lost = s.lost + 1
         \/ rule = B!NoRule /\ next = s
         \/ /\ rule \notin {B!Refused, B!NoRule}
            /\ next.kept = Append(s.kept, rule) /\ next.lost = s.lost
  BY MacStepMoves
<1>2. B!NoRule # B!Refused
  BY DEF B!NoRule, B!Refused
<1>3. /\ hit => \E i \in 1 .. k - 1 : i \in G
      /\ s.lost = 0 => \A i \in 1 .. k - 1 : i \in G => hit
  BY DEF MacSoFar
<1>4. /\ \A i \in 1 .. k : i \in 1 .. k - 1 \/ i = k
      /\ (1 .. k - 1) \subseteq (1 .. k) /\ k \in 1 .. k
  OBVIOUS
<1>5. s.kept \in Seq(MacRules(Q)) /\ s.lost \in Nat
  BY DEF MacStates
<1>6. rule \notin {B!Refused, B!NoRule}
          => (Holds(Append(s.kept, rule), T) <=> hit \/ rule \in T)
  <2> SUFFICES ASSUME rule \notin {B!Refused, B!NoRule}
               PROVE  Holds(Append(s.kept, rule), T) <=> hit \/ rule \in T
    OBVIOUS
  <2>1. rule \in MacRules(Q)
    BY DEF MacRules
  <2> QED
    BY <1>5, <2>1, AppendHolds
<1>7. /\ rule \notin {B!Refused, B!NoRule} => (rule \in T <=> k \in G)
      /\ rule = B!NoRule => k \notin G
  BY <1>2
<1> HIDE DEF next, rule, hit
<1>8. (hits => \E i \in 1 .. k : i \in G) /\ (next.lost = 0 => \A i \in 1 .. k : i \in G => hits)
  <2>1. CASE rule = B!Refused /\ next.kept = s.kept /\ next.lost = s.lost + 1
    <3>1. (hits <=> hit) /\ next.lost # 0
      BY <1>5, <2>1 DEF hit
    <3> QED
      BY <1>3, <1>4, <3>1
  <2>2. CASE rule = B!NoRule /\ next = s
    <3>1. (hits <=> hit) /\ next.lost = s.lost /\ k \notin G
      BY <1>7, <2>2 DEF hit
    <3> QED
      BY <1>3, <1>4, <3>1
  <2>3. CASE /\ rule \notin {B!Refused, B!NoRule}
             /\ next.kept = Append(s.kept, rule) /\ next.lost = s.lost
    <3>1. hits <=> hit \/ k \in G
      BY <1>6, <1>7, <2>3
    <3> QED
      BY <1>3, <1>4, <2>3, <3>1
  <2> QED
    BY <1>1, <2>1, <2>2, <2>3
<1> QED
  BY <1>8 DEF MacSoFar, next

\* The rules a list comes to and the entries it holds.
LEMMA MacListKeeps ==
  ASSUME NEW Q, NEW list \in Seq(OrdinaryEntries(Q)), NEW T, NEW G,
         \A i \in 1 .. Len(list) :
             /\ MacRule(list[i]) \notin {B!Refused, B!NoRule} => (MacRule(list[i]) \in T <=> i \in G)
             /\ MacRule(list[i]) = B!NoRule => i \notin G
  PROVE  LET read == B!FoldLeft(B!MacStep, MacStart, list) IN
         read \in MacStates(Q) /\ MacSoFar(read, Len(list), T, G)
<1> DEFINE n == Len(list)
<1>1. n \in Nat
  OBVIOUS
<1>2. PICK run : /\ run[0] = MacStart
                 /\ \A k \in 1 .. n : run[k] = B!MacStep(run[k - 1], list[k])
                 /\ \A k \in 0 .. n : run[k] \in MacStates(Q)
                 /\ B!FoldLeft(B!MacStep, MacStart, list) = run[n]
  BY MacRuns
<1>3. \A k \in 1 .. n : list[k] \in OrdinaryEntries(Q)
  OBVIOUS
<1> DEFINE J == {k \in 0 .. n : MacSoFar(run[k], k, T, G)}
<1>4. 0 \in J
  <2>1. 1 .. 0 = {} /\ 0 \in 0 .. n
    BY <1>1
  <2>2. ~Holds(MacStart.kept, T)
    BY DEF Holds, MacStart
  <2>3. MacSoFar(MacStart, 0, T, G)
    BY <2>1, <2>2 DEF MacSoFar
  <2> QED
    BY <1>2, <2>1, <2>3
<1>5. \A k \in 1 .. n : k - 1 \in J => k \in J
  <2> SUFFICES ASSUME NEW k \in 1 .. n, k - 1 \in J
               PROVE  k \in J
    OBVIOUS
  <2>1. k \in 0 .. n /\ k - 1 \in 0 .. n
    BY <1>1
  <2>2. run[k - 1] \in MacStates(Q) /\ MacSoFar(run[k - 1], k - 1, T, G)
    BY <1>2, <2>1
  <2>3. /\ MacRule(list[k]) \notin {B!Refused, B!NoRule} => (MacRule(list[k]) \in T <=> k \in G)
        /\ MacRule(list[k]) = B!NoRule => k \notin G
    OBVIOUS
  <2>4. list[k] \in OrdinaryEntries(Q)
    BY <1>3
  <2> HIDE DEF n
  <2>5. MacSoFar(B!MacStep(run[k - 1], list[k]), k, T, G)
    BY <1>1, <2>2, <2>3, <2>4, MacGoesOn
  <2> QED
    BY <1>2, <2>1, <2>5
<1> HIDE DEF n
<1>6. \A k \in 0 .. n : k \in J
  <2> HIDE DEF J
  <2> QED
    BY <1>1, <1>4, <1>5, Climbs
<1>7. n \in 0 .. n
  BY <1>1
<1> QED
  BY <1>2, <1>6, <1>7 DEF n

\* A list of macOS of any length sends around what CFNetwork does by it, and all of
\* that unless an entry is recorded as lost.
THEOREM MacListsSendWhatTheyGrant ==
  ASSUME NEW P, NEW I, NEW host \in MetHosts("macos", P, I),
         NEW Q, NEW dict, dict.list \in Seq(OrdinaryEntries(Q)), dict.unreadable \in Nat,
         \A i \in 1 .. Len(dict.list) :
             B!HasStar(B!Ascii(dict.list[i].labels)) => Seen("macos", host) \in B!Destinations,
         NEW q
  PROVE  LET read == B!bypass_from_dict(dict)
             sent == B!matches(read, host, q)
             asked == B!MacAsks(dict, host, q)
         IN
         /\ sent => asked
         /\ read.rejected.entries = 0 => (sent <=> asked)
<1> DEFINE rules == B!bypass_from_dict(dict)
           list == IF dict.usable THEN dict.list ELSE <<>>
           unreadable == IF dict.usable THEN dict.unreadable ELSE 0
           read == B!FoldLeft(B!MacStep, MacStart, list)
           keyed == list # <<>> \/ unreadable > 0 \/ dict.simple = "on"
           R == MacRules(Q)
           T == {r \in R : Sends("macos", r, host, q)}
           G == {i \in 1 .. Len(list) : Granted("macos", list[i], host, q)}
           sent == B!matches(rules, host, q)
           asked == B!MacAsks(dict, host, q)
           base == B!Reader("macos", read.kept, {})
<1>1. list \in Seq(OrdinaryEntries(Q))
  <2>1. CASE dict.usable
    BY <2>1
  <2>2. CASE ~dict.usable
    BY <2>2
  <2> QED
    BY <2>1, <2>2
<1>2. \A i \in 1 .. Len(list) :
          B!HasStar(B!Ascii(list[i].labels)) => Seen("macos", host) \in B!Destinations
  <2>1. CASE dict.usable
    BY <2>1
  <2>2. CASE ~dict.usable
    BY <2>2
  <2> QED
    BY <2>1, <2>2
<1>3. rules = [base EXCEPT
                  !.implicit = IF keyed THEN "cfnetwork" ELSE "empty",
                  !.exclude_simple_hostnames = (dict.simple = "on"),
                  !.rejected = [entries |-> read.lost, unreadable |-> unreadable,
                                list |-> ~dict.usable, simple |-> dict.simple = "unusable"]]
  BY Zenon DEF B!bypass_from_dict, MacStart
<1>4. asked <=> \/ dict.usable /\ \E i \in DOMAIN dict.list : B!Grants("macos", dict.list[i], host, q)
                \/ dict.simple = "on" /\ ~B!HasDot(host)
                \/ /\ B!covers("cfnetwork", host)
                   /\ \/ dict.simple = "on"
                      \/ dict.usable /\ (dict.list # <<>> \/ dict.unreadable > 0)
  BY Zenon DEF B!MacAsks
<1>5. keyed <=> \/ dict.simple = "on"
                \/ dict.usable /\ (dict.list # <<>> \/ dict.unreadable > 0)
  <2>1. CASE dict.usable
    BY <2>1
  <2>2. CASE ~dict.usable
    BY <2>2
  <2> QED
    BY <2>1, <2>2
<1>6. (\E i \in 1 .. Len(list) : i \in G) <=>
          dict.usable /\ \E i \in DOMAIN dict.list : B!Grants("macos", dict.list[i], host, q)
  <2>1. \A e : B!Grants("macos", e, host, q) <=> Granted("macos", e, host, q)
    BY TrimmedReads, MacTrims
  <2>2. DOMAIN dict.list = 1 .. Len(dict.list)
    OBVIOUS
  <2>3. CASE dict.usable
    BY <2>1, <2>2, <2>3
  <2>4. CASE ~dict.usable
    BY <2>4
  <2> QED
    BY <2>3, <2>4
<1> HIDE DEF list, unreadable, keyed
<1>7. ASSUME NEW i \in 1 .. Len(list)
      PROVE  /\ MacRule(list[i]) \notin {B!Refused, B!NoRule} => (MacRule(list[i]) \in T <=> i \in G)
             /\ MacRule(list[i]) = B!NoRule => i \notin G
  <2>1. list[i] \in OrdinaryEntries(Q)
    BY <1>1
  <2>2. \/ MacRule(list[i]) = B!Refused
        \/ MacRule(list[i]) = B!NoRule /\ ~Granted("macos", list[i], host, q)
        \/ /\ MacRule(list[i]) # B!Refused /\ MacRule(list[i]) # B!NoRule
           /\ MacRule(list[i]).kind \in {"all", "cidr", "exact", "wildcard", "domain"}
           /\ Sends("macos", MacRule(list[i]), host, q) <=> Granted("macos", list[i], host, q)
    BY <1>2, <2>1, MacRulesGrant
  <2>3. MacRule(list[i]) \notin {B!Refused, B!NoRule} => MacRule(list[i]) \in R
    BY <2>1 DEF MacRules
  <2>4. B!NoRule # B!Refused
    BY DEF B!NoRule, B!Refused
  <2> HIDE DEF R
  <2> QED
    BY <2>2, <2>3, <2>4
<1> HIDE DEF T, G
<1>8. read \in MacStates(Q) /\ MacSoFar(read, Len(list), T, G)
  BY <1>1, <1>7, MacListKeeps
<1> HIDE DEF read
<1>9. /\ Holds(read.kept, T) => \E i \in 1 .. Len(list) : i \in G
      /\ read.lost = 0 => \A i \in 1 .. Len(list) : i \in G => Holds(read.kept, T)
  BY <1>8, Zenon DEF MacSoFar
<1>10. /\ rules.patterns = B!dedup_patterns(read.kept)
       /\ ~rules.reversed_exceptions
       /\ rules.exclude_simple_hostnames <=> dict.simple = "on"
       /\ rules.implicit = IF keyed THEN "cfnetwork" ELSE "empty"
       /\ rules.rejected.entries = read.lost
       /\ rules.ipv4_mapped_as_ipv4 = B!Reader("macos", <<>>, {}).ipv4_mapped_as_ipv4
       /\ rules.strip_trailing_dot = B!Reader("macos", <<>>, {}).strip_trailing_dot
  <2> DEFINE p == B!dedup_patterns(read.kept)
             own == IF keyed THEN "cfnetwork" ELSE "empty"
             on == dict.simple = "on"
             lost == [entries |-> read.lost, unreadable |-> unreadable,
                      list |-> ~dict.usable, simple |-> dict.simple = "unusable"]
             first == base.rejected
             second == base.implicit
             third == base.exclude_simple_hostnames
             mapped == "macos" = "suffix"
             strip == "macos" \in {"suffix", "macos", "macos_simple"}
             reversed == "macos" = "kde_reversed"
  <2>1. lost.entries = read.lost
    OBVIOUS
  <2>2. ~reversed
    OBVIOUS
  <2>3. /\ B!Reader("macos", <<>>, {}).ipv4_mapped_as_ipv4 = mapped
        /\ B!Reader("macos", <<>>, {}).strip_trailing_dot = strip
    BY DEF B!Reader
  <2>4. base = [patterns |-> p, rejected |-> first, implicit |-> second,
                ipv4_mapped_as_ipv4 |-> mapped, strip_trailing_dot |-> strip,
                exclude_simple_hostnames |-> third, reversed_exceptions |-> reversed]
    BY DEF B!Reader, B!Entries
  <2> HIDE DEF p, own, on, lost, first, second, third, mapped, strip, reversed, base, rules
  <2>5. rules = [base EXCEPT !.implicit = own, !.exclude_simple_hostnames = on, !.rejected = lost]
    BY <1>3, Zenon DEF own, on, lost
  <2>6. rules = [patterns |-> p, rejected |-> lost, implicit |-> own,
                 ipv4_mapped_as_ipv4 |-> mapped, strip_trailing_dot |-> strip,
                 exclude_simple_hostnames |-> on, reversed_exceptions |-> reversed]
    BY <2>4, <2>5
  <2>7. /\ rules.patterns = p /\ rules.rejected = lost /\ rules.implicit = own
        /\ rules.ipv4_mapped_as_ipv4 = mapped /\ rules.strip_trailing_dot = strip
        /\ rules.exclude_simple_hostnames = on /\ rules.reversed_exceptions = reversed
    BY <2>6
  <2>8. rules.rejected.entries = read.lost
    BY <2>1, <2>7
  <2> QED
    BY <2>2, <2>3, <2>7, <2>8, Zenon DEF p, own, on
<1>11. sent <=> \/ dict.simple = "on" /\ ~B!HasDot(host)
                \/ Holds(read.kept, T)
                \/ keyed /\ B!covers("cfnetwork", host)
  <2>1. read.kept \in Seq(R)
    BY <1>8 DEF MacStates
  <2>2. \A r \in R : ~B!Subtracts(r)
    <3> SUFFICES ASSUME NEW e \in OrdinaryEntries(Q), MacRule(e) \notin {B!Refused, B!NoRule}
                 PROVE  ~B!Subtracts(MacRule(e))
      BY DEF MacRules
    <3>1. MacRule(e).kind # "subtract"
      BY MacRuleKinds
    <3> QED
      BY <3>1 DEF B!Subtracts
  <2>3. ~B!covers("empty", host)
    BY DEF B!covers
  <2> HIDE DEF R, rules
  <2>4. \A r \in R : r \in T <=> B!PatternMatches(rules, r, host, q)
    <3> SUFFICES ASSUME NEW r \in R PROVE r \in T <=> B!PatternMatches(rules, r, host, q)
      OBVIOUS
    <3>1. B!PatternMatches(rules, r, host, q) <=> Sends("macos", r, host, q)
      BY <1>10, RulesCompareAlike
    <3> QED
      BY <3>1 DEF T
  <2>5. sent <=> \/ rules.exclude_simple_hostnames /\ ~B!HasDot(host)
                 \/ Holds(read.kept, T)
                 \/ B!covers(rules.implicit, host)
    BY <1>10, <2>1, <2>2, <2>4, ListsSend
  <2>6. B!covers(rules.implicit, host) <=> keyed /\ B!covers("cfnetwork", host)
    BY <1>10, <2>3
  <2> QED
    BY <1>10, <2>5, <2>6
<1> DEFINE held == Holds(read.kept, T)
           some == \E i \in 1 .. Len(list) : i \in G
           mine == dict.usable /\ \E i \in DOMAIN dict.list : B!Grants("macos", dict.list[i], host, q)
           simple == dict.simple = "on" /\ ~B!HasDot(host)
           own == keyed /\ B!covers("cfnetwork", host)
<1>12. (held => some) /\ (read.lost = 0 => (some => held)) /\ (some <=> mine)
  BY <1>6, <1>9
<1>13. (asked <=> mine \/ simple \/ own) /\ (sent <=> simple \/ held \/ own)
  BY <1>4, <1>5, <1>11, Zenon
<1> HIDE DEF held, some, mine, simple, own, asked, sent, rules
<1>14. (sent => asked) /\ (read.lost = 0 => (sent <=> asked))
  BY <1>12, <1>13, Zenon
<1> QED
  BY <1>10, <1>14, Zenon DEF rules, sent, asked
-----------------------------------------------------------------------------
(* An entry alone in the list of its dialect.                              *)

\* A trimmed entry has its port.
LEMMA TrimmedPort ==
  ASSUME NEW d, NEW Q, NEW e \in WholeEntries(Q)
  PROVE  B!trim(d, e).port = e.port
<1> DEFINE t == [e EXCEPT !.edge = ""]
<1>1. t.port = e.port
  BY DEF WholeEntries, EntryForms
<1>2. B!trim(d, e) = e \/ B!trim(d, e) = t
  BY Zenon DEF B!trim
<1> QED
  BY <1>1, <1>2, Zenon

\* So has a block in full.
LEMMA ExpandedPort ==
  ASSUME NEW Q, NEW e \in WholeEntries(Q)
  PROVE  B!expand_abbreviated_cidr(e).port = e.port
<1> DEFINE t == [e EXCEPT !.net = "plain"]
<1>1. t.port = e.port
  BY DEF WholeEntries, EntryForms
<1>2. B!expand_abbreviated_cidr(e) = e \/ B!expand_abbreviated_cidr(e) = t
  BY Zenon DEF B!expand_abbreviated_cidr
<1> QED
  BY <1>1, <1>2, Zenon

\* What the walk of GNOME's list makes of an entry by itself.
LEMMA GnomeAlone ==
  ASSUME NEW Q, NEW e \in WholeEntries(Q)
  PROVE  LET rule == B!ReadAlone("gnome", e)
             t == B!trim("gnome", e)
         IN
         rule \in {B!Refused, B!NoRule} \/ (GnomeHas(t) /\ rule = GnomeRule(t))
<1> DEFINE list == <<e>>
           read == B!push_gnome_entries(list)
           rule == B!ReadAlone("gnome", e)
           t == B!trim("gnome", e)
<1>1. list \in Seq(WholeEntries(Q)) /\ Len(list) = 1 /\ list[1] = e
  OBVIOUS
<1>2. rule = IF read.rejected # <<>> THEN B!Refused
             ELSE IF read.patterns = <<>> THEN B!NoRule ELSE read.patterns[1]
  <2>1. "gnome" # "macos"
    OBVIOUS
  <2> DEFINE mac == B!parse_in("gnome", B!expand_abbreviated_cidr(e))
             other == B!parse_in("gnome", e)
             gnome == IF read.rejected # <<>> THEN B!Refused
                      ELSE IF read.patterns = <<>> THEN B!NoRule ELSE read.patterns[1]
             is == "gnome" = "macos"
             isg == "gnome" = "gnome"
  <2>2. rule = CASE is -> mac [] isg -> gnome [] OTHER -> other
    BY Zenon DEF B!ReadAlone
  <2>3. ~is /\ isg
    OBVIOUS
  <2> HIDE DEF mac, other, gnome, is, isg, rule
  <2>4. rule = gnome
    BY <2>2, <2>3
  <2> QED
    BY <2>4, Zenon DEF gnome
<1> HIDE DEF list, rule
<1>3. PICK run : /\ run[0] = GnomeStart
                 /\ \A k \in 1 .. Len(list) : run[k] = B!GnomeStep(run[k - 1], list[k])
                 /\ \A k \in 0 .. Len(list) : run[k] \in GnomeStates(Q)
                 /\ read = run[Len(list)]
  BY <1>1, GnomeRuns
<1>4. read = B!GnomeStep(GnomeStart, e) /\ GnomeStart \in GnomeStates(Q)
  <2>1. 1 \in 1 .. Len(list) /\ 0 \in 0 .. Len(list) /\ 1 - 1 = 0
    BY <1>1
  <2>2. run[1] = B!GnomeStep(run[0], list[1])
    BY <1>3, <2>1
  <2> QED
    BY <1>1, <1>3, <2>1, <2>2
<1> HIDE DEF read, t
<1>5. \/ /\ GnomeHas(t)
         /\ read.patterns = Append(GnomeStart.patterns, GnomeRule(t))
         /\ read.rejected = GnomeStart.rejected
      \/ read.patterns = GnomeStart.patterns /\ read.rejected = Append(GnomeStart.rejected, t)
      \/ read.patterns = GnomeStart.patterns /\ read.rejected = GnomeStart.rejected
  BY <1>4, GnomeStepMoves, Zenon DEF t
<1>6. GnomeStart.patterns = <<>> /\ GnomeStart.rejected = <<>>
  BY DEF GnomeStart
<1>7. \A x : Append(<<>>, x) = <<x>> /\ <<x>> # <<>> /\ <<x>>[1] = x
  OBVIOUS
<1>8. CASE /\ GnomeHas(t) /\ read.patterns = Append(GnomeStart.patterns, GnomeRule(t))
           /\ read.rejected = GnomeStart.rejected
  <2>1. read.patterns = <<GnomeRule(t)>> /\ read.rejected = <<>>
    BY <1>6, <1>7, <1>8
  <2>2. rule = GnomeRule(t)
    BY <1>2, <1>7, <2>1
  <2> QED
    BY <1>8, <2>2 DEF rule, t
<1>9. CASE read.rejected = Append(GnomeStart.rejected, t)
  <2>1. read.rejected # <<>>
    BY <1>6, <1>7, <1>9
  <2> QED
    BY <1>2, <2>1 DEF rule
<1>10. CASE read.patterns = GnomeStart.patterns /\ read.rejected = GnomeStart.rejected
  BY <1>2, <1>6, <1>10 DEF rule
<1> QED
  BY <1>5, <1>8, <1>9, <1>10

\* A rule, and the entry that parse_in or the reader of masks made it of.
MadeOf(d, Q, x, rule) ==
    \/ /\ Given(d, Q, x)
       /\ AllForm(d, x, rule) \/ NetForm(d, x, rule) \/ ReadForm(d, x, rule)
    \/ d = "gnome" /\ x \in WholeEntries(Q) /\ B!Mask(x) /\ rule = B!glib_mask(x)

\* The rule of an entry alone is made of an entry that grants the same.
LEMMA AloneBecomes ==
  ASSUME NEW d \in B!EntryDialects, NEW Q, NEW e \in OrdinaryEntries(Q),
         B!ReadAlone(d, e) \notin {B!Refused, B!NoRule}
  PROVE  \E x : /\ x.labels = e.labels /\ x.port = e.port
                /\ \A host, q : Granted(d, x, host, q) <=> B!Grants(d, e, host, q)
                /\ MadeOf(d, Q, x, B!ReadAlone(d, e))
<1> DEFINE rule == B!ReadAlone(d, e)
<1>1. e \in WholeEntries(Q) /\ Ordinary(e)
  BY DEF OrdinaryEntries
<1>2. CASE d = "gnome"
  <2> DEFINE t == B!trim("gnome", e)
  <2>1. GnomeHas(t) /\ rule = GnomeRule(t)
    BY <1>1, <1>2, GnomeAlone
  <2>2. t \in WholeEntries(Q) /\ t.labels = e.labels /\ t.port = e.port
    BY <1>1, TrimmedIs, TrimmedPort
  <2>3. \A host, q : Granted("gnome", t, host, q) <=> B!Grants("gnome", e, host, q)
    BY TrimmedReads
  <2> HIDE DEF t, rule
  <2>4. MadeOf("gnome", Q, t, rule)
    BY <2>1, <2>2, GnomeRuleKinds, Zenon DEF MadeOf
  <2> QED
    BY <1>2, <2>2, <2>3, <2>4, Zenon DEF rule
<1>3. CASE d = "macos"
  <2> DEFINE x == B!expand_abbreviated_cidr(e)
  <2>1. rule = B!parse_in("macos", x)
    BY <1>3, Zenon DEF B!ReadAlone
  <2>2. rule = Parsed("macos", x)
    <3>1. B!parse_in("macos", x) = Parsed("macos", B!trim("macos", x))
      BY TrimmedReads
    <3> QED
      BY <2>1, <3>1, MacTrims
  <2>3. x \in OrdinaryEntries(Q) /\ x.labels = e.labels
    BY MacExpanded
  <2>4. x.port = e.port
    BY <1>1, ExpandedPort
  <2>5. \A host, q : Granted("macos", x, host, q) <=> B!Grants("macos", e, host, q)
    <3> TAKE host, q
    <3>1. Granted("macos", x, host, q) <=> Granted("macos", e, host, q)
      BY MacExpanded
    <3>2. B!Grants("macos", e, host, q) <=> Granted("macos", B!trim("macos", e), host, q)
      BY TrimmedReads
    <3> QED
      BY <3>1, <3>2, MacTrims
  <2> HIDE DEF x, rule
  <2>6. Given("macos", Q, x)
    <3>1. "macos" # "gnome" /\ x \in WholeEntries(Q) /\ Ordinary(x)
      BY <2>3 DEF OrdinaryEntries
    <3> QED
      BY <3>1, Zenon DEF Given
  <2>7. AllForm("macos", x, rule) \/ NetForm("macos", x, rule) \/ ReadForm("macos", x, rule)
    <3>1. "macos" \in B!EntryDialects
      BY DEF B!EntryDialects
    <3>2. \/ rule = B!Refused \/ rule = B!NoRule
          \/ AllForm("macos", x, rule) \/ NetForm("macos", x, rule) \/ ReadForm("macos", x, rule)
      BY <2>2, <2>6, <3>1, EntriesBecome, Zenon
    <3> QED
      BY <3>2 DEF rule
  <2>8. MadeOf("macos", Q, x, rule)
    BY <2>6, <2>7, Zenon DEF MadeOf
  <2> QED
    BY <1>3, <2>3, <2>4, <2>5, <2>8, Zenon DEF rule
<1>4. CASE d \notin {"gnome", "macos"}
  <2> DEFINE t == B!trim(d, e)
  <2>1. rule = B!parse_in(d, e)
    <3>1. d # "macos" /\ d # "gnome"
      BY <1>4
    <3> DEFINE mac == B!parse_in(d, B!expand_abbreviated_cidr(e))
               other == B!parse_in(d, e)
               read == B!push_gnome_entries(<<e>>)
               gnome == IF read.rejected # <<>> THEN B!Refused
                        ELSE IF read.patterns = <<>> THEN B!NoRule ELSE read.patterns[1]
    <3>2. rule = CASE d = "macos" -> mac [] d = "gnome" -> gnome [] OTHER -> other
      BY Zenon DEF B!ReadAlone
    <3> HIDE DEF mac, gnome, other, rule
    <3>3. rule = other
      BY <3>1, <3>2
    <3> QED
      BY <3>3 DEF other
  <2>2. rule = Parsed(d, t)
    BY <2>1, TrimmedReads
  <2>3. t \in WholeEntries(Q) /\ t.labels = e.labels /\ t.port = e.port
    BY <1>1, TrimmedIs, TrimmedPort
  <2>4. \A host, q : Granted(d, t, host, q) <=> B!Grants(d, e, host, q)
    BY TrimmedReads
  <2> HIDE DEF t, rule
  <2>5. Given(d, Q, t)
    <3>1. d # "gnome"
      BY <1>4
    <3>2. Ordinary(t)
      BY <1>1, <2>3, Zenon DEF Ordinary
    <3> QED
      BY <2>3, <3>1, <3>2, Zenon DEF Given
  <2>6. AllForm(d, t, rule) \/ NetForm(d, t, rule) \/ ReadForm(d, t, rule)
    <3>1. \/ rule = B!Refused \/ rule = B!NoRule
          \/ AllForm(d, t, rule) \/ NetForm(d, t, rule) \/ ReadForm(d, t, rule)
      BY <2>2, <2>5, EntriesBecome, Zenon
    <3> QED
      BY <3>1 DEF rule
  <2>7. MadeOf(d, Q, t, rule)
    BY <2>5, <2>6, Zenon DEF MadeOf
  <2> QED
    BY <2>3, <2>4, <2>7, Zenon DEF rule
<1> QED
  BY <1>2, <1>3, <1>4

\* An entry that becomes a rule, in whatever dialect, sends around the proxy the
\* destinations that its own store grants by it and no other: for entries of any
\* labels, with any port and any mark, but for the tokens <local> and <-loopback>,
\* which are no text of a destination.  An entry with a star is compared over the
\* destinations of the questions, whose names a star may stand in.
THEOREM EntriesSendWhatTheyGrant ==
  ASSUME NEW d \in B!EntryDialects, NEW Q, NEW e \in OrdinaryEntries(Q),
         B!ReadAlone(d, e) \notin {B!Refused, B!NoRule},
         NEW P, NEW I, NEW host \in MetHosts(d, P, I),
         B!HasStar(B!Ascii(e.labels)) => Seen(d, host) \in B!Destinations, NEW q
  PROVE  Sends(d, B!ReadAlone(d, e), host, q) <=> B!Grants(d, e, host, q)
<1> DEFINE rule == B!ReadAlone(d, e)
<1>1. PICK x : /\ x.labels = e.labels
               /\ Granted(d, x, host, q) <=> B!Grants(d, e, host, q)
               /\ MadeOf(d, Q, x, rule)
  BY AloneBecomes
<1> HIDE DEF rule
<1>2. CASE /\ Given(d, Q, x)
           /\ AllForm(d, x, rule) \/ NetForm(d, x, rule) \/ ReadForm(d, x, rule)
  <2>1. B!HasStar(B!Ascii(x.labels)) => Seen(d, host) \in B!Destinations
    BY <1>1
  <2>2. Sends(d, rule, host, q) <=> Granted(d, x, host, q)
    BY <1>2, <2>1, EntriesSend
  <2> QED
    BY <1>1, <2>2, Zenon DEF rule
<1>3. CASE d = "gnome" /\ x \in WholeEntries(Q) /\ B!Mask(x) /\ rule = B!glib_mask(x)
  <2>1. Sends("gnome", B!glib_mask(x), host, q) <=> Granted("gnome", x, host, q)
    BY <1>3, MaskedGrants
  <2> QED
    BY <1>1, <1>3, <2>1, Zenon DEF rule
<1> QED
  BY <1>1, <1>2, <1>3, Zenon DEF MadeOf
-----------------------------------------------------------------------------
(* The destinations the lists are asked about.                             *)

\* What the destinations are made of.
Letters == {"a", "b", "xn", "1"}
FiveAddresses == {"10.0.0.1", "8.0.0.1", "0.0.0.1", "1.0.0.1", "::1"}

\* Sequences up to a length.
LEMMA BoundedSeqs ==
  ASSUME NEW S, NEW n \in Nat, NEW s
  PROVE  s \in B!SeqOf(S, n) <=> s \in Seq(S) /\ Len(s) <= n
<1>1. s \in B!SeqOf(S, n) <=> \E m \in 0 .. n : s \in [1 .. m -> S]
  BY DEF B!SeqOf
<1>2. ASSUME NEW m \in 0 .. n, s \in [1 .. m -> S] PROVE s \in Seq(S) /\ Len(s) <= n
  BY <1>2
<1>3. ASSUME s \in Seq(S), Len(s) <= n PROVE \E m \in 0 .. n : s \in [1 .. m -> S]
  <2>1. Len(s) \in 0 .. n /\ s \in [1 .. Len(s) -> S]
    BY <1>3
  <2> QED
    BY <2>1
<1> QED
  BY <1>1, <1>2, <1>3

\* The labels of the destinations, one by one.
LEMMA LabelsOfDestinations ==
  ASSUME NEW l
  PROVE  l \in B!DestinationLabels
             <=> l \in Seq(Letters) /\ Len(l) <= 3 /\ l # <<>> /\ l[Len(l)] # "1"
<1>1. l \in B!SeqOf(Letters, 3) <=> l \in Seq(Letters) /\ Len(l) <= 3
  BY BoundedSeqs
<1> QED
  BY <1>1 DEF B!DestinationLabels, B!Last, Letters

\* The destinations are hosts.
LEMMA DestinationsMet ==
  ASSUME NEW d, NEW host \in B!Destinations
  PROVE  host \in MetHosts(d, Letters, FiveAddresses)
<1>1. CASE \E l \in B!DestinationLabels, dot \in BOOLEAN : host = B!Name(l, dot)
  <2>1. PICK l \in B!DestinationLabels, dot \in BOOLEAN : host = B!Name(l, dot)
    BY <1>1
  <2>2. l \in Seq(Letters) /\ l # <<>> /\ l[Len(l)] # "1"
    BY LabelsOfDestinations
  <2>3. l[Len(l)] \in Letters
    BY <2>2
  <2>4. l \in MetNames(Letters)
    BY <2>2, <2>3 DEF MetNames, B!Last, Letters, B!Numbers
  <2> QED
    BY <2>1, <2>4 DEF MetHosts
<1>2. CASE \E ip \in FiveAddresses : host = B!Address(ip)
  <2>1. PICK ip \in FiveAddresses : host = B!Address(ip)
    BY <1>2
  <2>2. ip # "none" /\ B!Mapped(ip) = ip
    BY DEF FiveAddresses, B!Mapped
  <2> QED
    BY <2>1, <2>2 DEF MetHosts
<1> QED
  BY <1>1, <1>2 DEF B!Destinations, FiveAddresses

\* What is seen of one is another.
LEMMA DestinationsSeen ==
  ASSUME NEW d, NEW host \in B!Destinations
  PROVE  Seen(d, host) \in B!Destinations
<1>1. CASE \E l \in B!DestinationLabels, dot \in BOOLEAN : host = B!Name(l, dot)
  <2>1. PICK l \in B!DestinationLabels, dot \in BOOLEAN : host = B!Name(l, dot)
    BY <1>1
  <2> DEFINE off == host.dot /\ d \notin {"suffix", "macos"}
  <2>2. off \in BOOLEAN
    OBVIOUS
  <2>3. host = [labels |-> l, dot |-> dot, ip |-> "none"]
    BY <2>1 DEF B!Name
  <2>4. host.labels = l /\ host.ip = "none"
    BY <2>3
  <2>5. Seen(d, host) = [labels |-> host.labels, dot |-> off, ip |-> host.ip]
    BY Zenon DEF Seen
  <2> HIDE DEF off
  <2>6. Seen(d, host) = B!Name(l, off)
    BY <2>4, <2>5 DEF B!Name
  <2> QED
    BY <2>2, <2>6 DEF B!Destinations
<1>2. CASE \E ip \in FiveAddresses : host = B!Address(ip)
  <2>1. PICK ip \in FiveAddresses : host = B!Address(ip)
    BY <1>2
  <2> DEFINE off == host.dot /\ d \notin {"suffix", "macos"}
             no == FALSE
  <2>2. host = [labels |-> <<>>, dot |-> FALSE, ip |-> ip]
    BY <2>1 DEF B!Address
  <2>3. host.labels = <<>> /\ host.ip = ip /\ ~host.dot
    BY <2>2
  <2>4. off = no
    BY <2>3
  <2>5. Seen(d, host) = [labels |-> host.labels, dot |-> off, ip |-> host.ip]
    BY Zenon DEF Seen
  <2>6. Seen(d, host) = [labels |-> <<>>, dot |-> no, ip |-> ip]
    <3> HIDE DEF off, no
    <3> QED
      BY <2>3, <2>4, <2>5
  <2>7. Seen(d, host) = B!Address(ip)
    BY <2>6, Zenon DEF B!Address
  <2> QED
    BY <2>7 DEF B!Destinations, FiveAddresses
<1> QED
  BY <1>1, <1>2 DEF B!Destinations, FiveAddresses

\* A rule that is no glob sends some destination around, of those that hold the
\* addresses and the names that lie below the entry's own.
LEMMA RulesReach ==
  ASSUME NEW d \in B!EntryDialects, NEW P, NEW I, NEW H \in SUBSET MetHosts(d, P, I),
         \A ip \in FiveAddresses : B!Address(ip) \in H,
         NEW Q, NEW x, x.labels \in Seq(Q),
         B!parse_host(Compared(d, x)) = "name" /\ ~B!HasStar(Compared(d, x)) =>
             /\ B!Name(Compared(d, x), FALSE) \in H
             /\ B!Name(<<"a">> \o Compared(d, x), FALSE) \in H,
         NEW rule, MadeOf(d, Q, x, rule), rule.kind # "wildcard",
         NEW q, B!port_matches(x.port, q)
  PROVE  \E host \in H : Sends(d, rule, host, q)
<1>1. CASE rule.kind = "all"
  <2>1. \A host : Sends(d, rule, host, q)
    BY <1>1 DEF Sends, B!PatternMatches
  <2>2. B!Address("10.0.0.1") \in H
    BY DEF FiveAddresses
  <2> QED
    BY <2>1, <2>2
<1>2. ASSUME NEW first \in {"10", "8"}, rule = B!NetRule(first)
      PROVE  \E host \in H : Sends(d, rule, host, q)
  <2> DEFINE ip == IF first = "10" THEN "10.0.0.1" ELSE "8.0.0.1"
             host == B!Address(ip)
  <2>1. host \in H /\ host.ip = ip
    BY DEF FiveAddresses, B!Address
  <2>2. /\ ip \in {"10.0.0.1", "8.0.0.1", "0.0.0.1", "1.0.0.1"}
        /\ B!AddressLabels(ip)[1] \in {first}
    BY <1>2 DEF B!AddressLabels, B!Quad
  <2> HIDE DEF ip, host
  <2>3. Sends(d, B!NetRule(first), host, q)
    BY <2>1, <2>2, SentByNet
  <2> QED
    BY <1>2, <2>1, <2>3
<1>3. ASSUME AddressForm(d, x, rule)
      PROVE  \E host \in H : Sends(d, rule, host, q)
  <2> DEFINE ip == B!FoldedAddress(x.labels)
             host == B!Address(ip)
  <2>1. x.labels \in AddressTexts /\ rule = B!ExactRule(host, x.port)
    BY <1>3, Zenon DEF AddressForm
  <2>2. ip \in FiveAddresses /\ ip # "none" /\ B!Mapped(ip) = ip
    BY <2>1, AddressTextsFold, AddressesOfTexts DEF FiveAddresses
  <2> HIDE DEF ip
  <2>3. host \in H /\ host.ip = ip
    BY <2>2 DEF B!Address
  <2>4. Sends(d, B!ExactRule(B!Address(ip), x.port), host, q)
    <3> HIDE DEF host
    <3> QED
      BY <2>2, <2>3, AddressesMeet
  <2> QED
    BY <2>1, <2>3, <2>4
<1>4. ASSUME NameForm(d, x, rule)
      PROVE  \E host \in H : Sends(d, rule, host, q)
  <2> DEFINE l == Compared(d, x)
             host == B!Name(l, FALSE)
  <2>1. /\ B!parse_host(l) = "name" /\ ~B!HasStar(l)
        /\ rule = B!ExactRule(host, x.port)
    BY <1>4, Zenon DEF NameForm, IsNamed
  <2>2. host \in H /\ host.ip = "none" /\ host.labels = l /\ ~host.dot
    BY <2>1 DEF B!Name
  <2> HIDE DEF l
  <2>3. Sends(d, B!ExactRule(B!Name(l, FALSE), x.port), host, q)
    <3>1. Shown(d, host)
      BY <2>2 DEF Shown
    <3> HIDE DEF host
    <3> QED
      BY <2>2, <3>1, NamesMeet
  <2> QED
    BY <2>1, <2>2, <2>3
<1>5. ASSUME DomainForm(d, x, rule)
      PROVE  \E host \in H : Sends(d, rule, host, q)
  <2> DEFINE l == Compared(d, x)
             host == B!Name(<<"a">> \o l, FALSE)
             self == d = "gnome" \/ x.lead = ""
  <2>1. /\ B!parse_host(l) = "name" /\ ~B!HasStar(l)
        /\ rule = B!NameRule(l, self, x.port)
    BY <1>5, Zenon DEF DomainForm, IsNamed
  <2>2. host \in H /\ host.ip = "none" /\ host.labels = <<"a">> \o l /\ ~host.dot
    BY <2>1 DEF B!Name
  <2>3. l \in Seq(Q \cup {"xn"})
    BY ComparedIs
  <2> HIDE DEF l, self, host
  <2>4. B!IsSuffix(l, host.labels) /\ Len(host.labels) > Len(l)
    <3> DEFINE t == <<"a">> \o l
    <3>1. /\ t \in Seq(Q \cup {"xn", "a"}) /\ Len(t) = Len(l) + 1 /\ Len(l) \in Nat
          /\ \A k \in 1 .. Len(l) : t[k + 1] = l[k]
      BY <2>3
    <3> HIDE DEF t
    <3>2. Len(t) - Len(l) = 1 /\ Len(l) <= Len(t)
      BY <3>1
    <3>3. \A k \in 1 .. Len(l) : t[Len(t) - Len(l) + k] = l[k]
      BY <3>1, <3>2
    <3>4. B!IsSuffix(l, t)
      BY <2>3, <3>1, <3>2, <3>3, SuffixIs
    <3>5. Len(t) > Len(l)
      BY <3>1
    <3> QED
      BY <2>2, <3>4, <3>5 DEF t
  <2>5. Sends(d, B!NameRule(l, self, x.port), host, q)
    <3>1. Shown(d, host)
      BY <2>2 DEF Shown
    <3> QED
      BY <2>2, <2>4, <3>1, DomainsMeet
  <2> QED
    BY <2>1, <2>2, <2>5
<1>6. CASE d = "gnome" /\ B!Mask(x) /\ rule = B!glib_mask(x)
  <2>1. x.net = "plain" \/ (x.net = "none" /\ B!IsAddressText(x.labels))
    BY <1>6, MasksAre
  <2>2. CASE x.net = "plain"
    <3>1. rule = B!NetRule("10")
      BY <1>6, <2>2, Zenon DEF B!glib_mask
    <3> QED
      BY <1>2, <3>1
  <2>3. CASE x.net = "none" /\ B!IsAddressText(x.labels)
    <3> DEFINE ip == B!FoldedAddress(x.labels)
               host == B!Address(ip)
               net == {ip}
    <3>1. x.labels \in AddressTexts
      BY <2>3, Zenon DEF B!IsAddressText, AddressTexts
    <3>2. ip \in FiveAddresses /\ ip # "none" /\ B!Mapped(ip) = ip
      BY <3>1, AddressTextsFold, AddressesOfTexts DEF FiveAddresses
    <3>3. rule = [kind |-> "cidr", net |-> net]
      <4>1. x.net # "plain"
        BY <2>3
      <4> QED
        BY <1>6, <4>1, Zenon DEF B!glib_mask
    <3> HIDE DEF ip
    <3>4. host \in H /\ host.ip = ip
      BY <3>2 DEF B!Address
    <3>5. net # {} /\ \A i \in net : i # "none" /\ B!Mapped(i) = i
      BY <3>2
    <3>6. host.ip \in net
      BY <3>4
    <3> HIDE DEF host, net
    <3>7. Sends(d, [kind |-> "cidr", net |-> net], host, q)
      BY <3>4, <3>5, <3>6, NetsMeet
    <3> QED
      BY <3>3, <3>4, <3>7
  <2> QED
    BY <2>1, <2>2, <2>3
<1>7. CASE AllForm(d, x, rule)
  <2>1. rule.kind = "all"
    BY <1>7 DEF AllForm
  <2> QED
    BY <1>1, <2>1
<1>8. CASE NetForm(d, x, rule)
  <2>1. PICK first \in {"10", "8"} : rule = B!NetRule(first)
    BY <1>8, Zenon DEF NetForm
  <2> QED
    BY <1>2, <2>1
<1>9. CASE ReadForm(d, x, rule)
  <2>1. TextForm(d, x, rule)
    BY <1>9, Zenon DEF ReadForm
  <2>2. ~StarForm(d, x, rule)
    <3> SUFFICES ASSUME StarForm(d, x, rule) PROVE FALSE
      OBVIOUS
    <3>1. rule = B!GlobRule(StarText(x), x.port)
      BY Zenon DEF StarForm
    <3> QED
      BY <3>1 DEF B!GlobRule
  <2> QED
    BY <1>3, <1>4, <1>5, <2>1, <2>2, Zenon DEF TextForm
<1> QED
  BY <1>6, <1>7, <1>8, <1>9, Zenon DEF MadeOf
-----------------------------------------------------------------------------
(* The entries and lists the questions are about.                          *)

\* The labels the entries of the questions are made of.
AskedLabels == {"a", "b", "u8", "*", "a*", "1", "10", "010", "0", "::1", "u8*"}

\* The labels of the entries with a name or an address.
AskedNames ==
    B!SeqOf({"a", "b", "u8", "*", "a*", "1"}, 2)
        \cup {B!Quad, B!Octal, <<"::1">>, <<"10", "*">>, <<"u8*">>, <<"*", "0", "1">>}

\* What is written is an entry, and so is nothing.
LEMMA BlankIsAnEntry ==
  ASSUME NEW P, NEW l \in Seq(P)
  PROVE  /\ B!Written(l) \in EntryForms(P) /\ B!Blank \in EntryForms(P)
         /\ B!Written(l).net = "none" /\ B!Written(l).labels = l /\ B!Written(l).port = B!NoPort
         /\ B!Blank.net = "none" /\ B!Blank.labels = <<>> /\ B!Blank.port = B!NoPort
<1> DEFINE no == FALSE
           none == "none"
           empty == ""
<1>1. no \in BOOLEAN /\ empty \in {"", "before", "after"} /\ empty \in {"", ".", "*."}
      /\ none \in Nets /\ empty \in Marks /\ B!NoPort \in Nat /\ <<>> \in Seq(P)
  BY DEF Nets, Marks, B!NoPort
<1>2. B!Blank = [edge |-> empty, lead |-> empty, labels |-> <<>>, dot |-> no, port |-> B!NoPort,
                 net |-> none, mark |-> empty]
  BY Zenon DEF B!Blank
<1>3. B!Written(l) = [B!Blank EXCEPT !.labels = l]
  BY Zenon DEF B!Written
<1> HIDE DEF no, none, empty
<1>4. B!Written(l) = [edge |-> empty, lead |-> empty, labels |-> l, dot |-> no, port |-> B!NoPort,
                      net |-> none, mark |-> empty]
  BY <1>2, <1>3
<1>5. /\ B!Blank.net = none /\ B!Blank.labels = <<>> /\ B!Blank.port = B!NoPort
      /\ B!Written(l).net = none /\ B!Written(l).labels = l /\ B!Written(l).port = B!NoPort
  BY <1>2, <1>4
<1>6. \A ls \in Seq(P) :
          [edge |-> empty, lead |-> empty, labels |-> ls, dot |-> no, port |-> B!NoPort,
           net |-> none, mark |-> empty] \in EntryForms(P)
  BY <1>1 DEF EntryForms
<1>7. B!Blank \in EntryForms(P) /\ B!Written(l) \in EntryForms(P)
  BY <1>1, <1>2, <1>4, <1>6, Zenon
<1> QED
  BY <1>5, <1>7, Zenon DEF none

\* An entry with a part put in its place.
Varied(P, x, e, port) ==
    x \in EntryForms(P) /\ x.net = e.net /\ x.labels = e.labels /\ x.port = port

\* A space at an edge.
LEMMA EdgesVary ==
  ASSUME NEW P, NEW e \in EntryForms(P), NEW v \in {"", "before", "after"}
  PROVE  Varied(P, [e EXCEPT !.edge = v], e, e.port)
BY DEF Varied, EntryForms

\* Something in front.
LEMMA LeadsVary ==
  ASSUME NEW P, NEW e \in EntryForms(P), NEW v \in {"", ".", "*."}
  PROVE  Varied(P, [e EXCEPT !.lead = v], e, e.port)
BY DEF Varied, EntryForms

\* A dot at the end.
LEMMA DotsVary ==
  ASSUME NEW P, NEW e \in EntryForms(P), NEW v \in BOOLEAN
  PROVE  Varied(P, [e EXCEPT !.dot = v], e, e.port)
BY DEF Varied, EntryForms

\* A port.
LEMMA PortsVary ==
  ASSUME NEW P, NEW e \in EntryForms(P), NEW v \in Nat
  PROVE  Varied(P, [e EXCEPT !.port = v], e, v)
BY DEF Varied, EntryForms

\* A mark.
LEMMA MarksVary ==
  ASSUME NEW P, NEW e \in EntryForms(P), NEW v \in Marks
  PROVE  Varied(P, [e EXCEPT !.mark = v], e, e.port)
BY DEF Varied, EntryForms

\* The parts of a block.
BlockOf(x, net, edge) ==
    x.net = net /\ x.edge = edge /\ x.labels = <<>> /\ x.port = B!NoPort

\* Those are the parts of a block.
LEMMA BlockParts ==
  ASSUME NEW net, NEW edge
  PROVE  BlockOf(Block(net, edge), net, edge)
<1>1. LET e == Block(net, edge) IN
      /\ e.net = net /\ e.edge = edge /\ e.lead = "" /\ e.labels = <<>>
      /\ e.mark = "" /\ e.port = B!NoPort
  BY BlocksAre, Zenon
<1> QED
  BY <1>1, Zenon DEF BlockOf

\* A block is an entry.
LEMMA BlocksAreEntries ==
  ASSUME NEW P, NEW net \in Nets, NEW edge \in {"", "before", "after"}
  PROVE  Block(net, edge) \in WholeEntries(P)
<1>1. <<>> \in Seq(P)
  BY EmptySeq
<1>2. B!Blank \in EntryForms(P)
  BY <1>1, BlankIsAnEntry
<1>3. Block(net, edge) \in EntryForms(P)
  BY <1>2 DEF Block, EntryForms
<1>4. Block(net, edge).net = net /\ Block(net, edge).edge = edge
  <2>1. BlockOf(Block(net, edge), net, edge)
    BY BlockParts, Zenon
  <2> QED
    BY <2>1, Zenon DEF BlockOf
<1> QED
  BY <1>3, <1>4 DEF WholeEntries

\* A block without a space.
LEMMA OneBlock ==
  ASSUME NEW net
  PROVE  [B!Blank EXCEPT !.net = net] = Block(net, "")
<1> DEFINE no == FALSE
           none == "none"
           empty == ""
           made == [edge |-> empty, lead |-> empty, labels |-> <<>>, dot |-> no, port |-> B!NoPort,
                    net |-> net, mark |-> empty]
<1>1. B!Blank = [edge |-> empty, lead |-> empty, labels |-> <<>>, dot |-> no, port |-> B!NoPort,
                 net |-> none, mark |-> empty]
  BY Zenon DEF B!Blank
<1>2. Block(net, "") = [B!Blank EXCEPT !.net = net, !.edge = empty]
  BY Zenon DEF Block
<1> HIDE DEF no, none, empty
<1> DEFINE one == [B!Blank EXCEPT !.net = net]
<1>3. one = made
  BY <1>1
<1>4. [B!Blank EXCEPT !.net = net, !.edge = empty] = [one EXCEPT !.edge = empty]
  OBVIOUS
<1>5. [one EXCEPT !.edge = empty] = one
  <2> HIDE DEF one
  <2> QED
    BY <1>3
<1> QED
  BY <1>2, <1>4, <1>5, Zenon

\* An entry over labels that are no words is ordinary.
LEMMA WithoutWords ==
  ASSUME NEW P, "<local>" \notin P, "<-loopback>" \notin P, NEW e, e.labels \in Seq(P)
  PROVE  Ordinary(e)
<1>1. ASSUME NEW w, e.labels = <<w>> PROVE w \in P
  <2>1. Len(e.labels) = 1 /\ e.labels[1] = w
    BY <1>1
  <2> QED
    BY <2>1
<1> QED
  BY <1>1 DEF Ordinary

\* A form that is not a block.
LEMMA TextsAreEntries ==
  ASSUME NEW P, NEW e \in EntryForms(P), e.net = "none"
  PROVE  e \in WholeEntries(P)
BY DEF WholeEntries

\* The names the entries are made of.
LEMMA NamesAreAsked ==
  /\ \A l \in AskedNames : l \in Seq(AskedLabels)
  /\ {<<>>, <<"a">>, <<"b", "a">>, <<"*">>, B!Quad, <<"::1">>, <<"10", "*">>} \subseteq AskedNames
<1> DEFINE Few == {"a", "b", "u8", "*", "a*", "1"}
           Odd == {B!Quad, B!Octal, <<"::1">>, <<"10", "*">>, <<"u8*">>, <<"*", "0", "1">>}
<1>1. ASSUME NEW l \in B!SeqOf(Few, 2) PROVE l \in Seq(AskedLabels)
  <2>1. Few \subseteq AskedLabels /\ 2 \in Nat
    BY DEF AskedLabels
  <2> HIDE DEF Few
  <2>2. l \in Seq(Few)
    BY <2>1, BoundedSeqs
  <2> QED
    BY <2>1, <2>2
<1>2. ASSUME NEW l \in Odd PROVE l \in Seq(AskedLabels)
  <2>1. /\ <<"10", "0", "0", "1">> \in Seq(AskedLabels) /\ <<"010", "0", "0", "1">> \in Seq(AskedLabels)
        /\ <<"::1">> \in Seq(AskedLabels) /\ <<"10", "*">> \in Seq(AskedLabels)
        /\ <<"u8*">> \in Seq(AskedLabels) /\ <<"*", "0", "1">> \in Seq(AskedLabels)
    BY DEF AskedLabels
  <2> QED
    BY <2>1, Zenon DEF B!Quad, B!Octal
<1>3. {<<>>, <<"a">>, <<"b", "a">>, <<"*">>} \subseteq B!SeqOf(Few, 2)
  <2>1. /\ <<>> \in Seq(Few) /\ <<"a">> \in Seq(Few) /\ <<"b", "a">> \in Seq(Few) /\ <<"*">> \in Seq(Few)
        /\ 2 \in Nat
    OBVIOUS
  <2>2. Len(<<>>) <= 2 /\ Len(<<"a">>) <= 2 /\ Len(<<"b", "a">>) <= 2 /\ Len(<<"*">>) <= 2
    OBVIOUS
  <2> HIDE DEF Few
  <2>3. <<>> \in B!SeqOf(Few, 2)
    BY ONLY <2>1, <2>2, BoundedSeqs
  <2>4. <<"a">> \in B!SeqOf(Few, 2)
    BY ONLY <2>1, <2>2, BoundedSeqs
  <2>5. <<"b", "a">> \in B!SeqOf(Few, 2)
    BY ONLY <2>1, <2>2, BoundedSeqs
  <2>6. <<"*">> \in B!SeqOf(Few, 2)
    BY ONLY <2>1, <2>2, BoundedSeqs
  <2> QED
    BY <2>3, <2>4, <2>5, <2>6
<1>4. {B!Quad, <<"::1">>, <<"10", "*">>} \subseteq Odd
  OBVIOUS
<1>5. AskedNames = B!SeqOf(Few, 2) \cup Odd
  BY DEF AskedNames
<1> HIDE DEF Few, Odd
<1>6. \A l \in AskedNames : l \in Seq(AskedLabels)
  BY <1>1, <1>2, <1>5
<1>7. {<<>>, <<"a">>, <<"b", "a">>, <<"*">>, B!Quad, <<"::1">>, <<"10", "*">>} \subseteq AskedNames
  BY <1>3, <1>4, <1>5
<1> QED
  BY <1>6, <1>7, Zenon

\* The entries of the questions are entries, each with a name that is asked about.
LEMMA NamedEntriesAsked ==
  ASSUME NEW e \in B!NameEntries
  PROVE  e \in WholeEntries(AskedLabels) /\ e.port \in {B!NoPort, 80} /\ e.labels \in AskedNames
<1>1. e \in [edge : {""}, lead : {"", ".", "*."}, labels : B!Names \cup {<<>>}, dot : BOOLEAN,
             port : {B!NoPort, 80}, net : {"none"}, mark : {""}]
  BY DEF B!NameEntries
<1>2. B!Names \cup {<<>>} \subseteq AskedNames
  <2>1. <<>> \in AskedNames
    BY NamesAreAsked
  <2> QED
    BY <2>1 DEF B!Names, AskedNames
<1>3. e.labels \in AskedNames /\ e.net = "none" /\ e.port \in {B!NoPort, 80}
  BY <1>1, <1>2
<1>4. e.labels \in Seq(AskedLabels)
  BY <1>3, NamesAreAsked
<1>5. e.port \in Nat
  BY <1>3 DEF B!NoPort
<1>6. e \in [edge : {""}, lead : {"", ".", "*."}, labels : Seq(AskedLabels), dot : BOOLEAN,
             port : Nat, net : {"none"}, mark : {""}]
  BY <1>1, <1>4, <1>5
<1>7. e \in EntryForms(AskedLabels)
  BY <1>6 DEF EntryForms, Nets, Marks
<1> QED
  BY <1>3, <1>7, TextsAreEntries

\* So are those with a mark,
LEMMA MarkedNamesAsked ==
  ASSUME NEW l \in AskedNames, NEW p \in {B!NoPort, 80}, NEW m \in Marks, NEW e,
         e = [B!Written(l) EXCEPT !.mark = m, !.port = p]
  PROVE  e \in WholeEntries(AskedLabels) /\ e.port \in {B!NoPort, 80} /\ e.labels \in AskedNames
<1>1. l \in Seq(AskedLabels) /\ p \in Nat
  BY NamesAreAsked DEF B!NoPort
<1> DEFINE w == B!Written(l)
           x == [w EXCEPT !.mark = m]
<1>2. w \in EntryForms(AskedLabels) /\ w.net = "none" /\ w.labels = l
  BY <1>1, BlankIsAnEntry
<1>3. e = [x EXCEPT !.port = p]
  <2>1. e = [w EXCEPT !.mark = m, !.port = p]
    OBVIOUS
  <2> HIDE DEF w
  <2> QED
    BY <2>1
<1> HIDE DEF w
<1>4. x \in EntryForms(AskedLabels) /\ x.net = "none" /\ x.labels = l
  <2>1. Varied(AskedLabels, [w EXCEPT !.mark = m], w, w.port)
    BY <1>2, MarksVary, Zenon
  <2> QED
    BY <1>2, <2>1, Zenon DEF Varied
<1> HIDE DEF x
<1>5. e \in EntryForms(AskedLabels) /\ e.net = "none" /\ e.labels = l /\ e.port = p
  <2>1. Varied(AskedLabels, [x EXCEPT !.port = p], x, p)
    BY <1>1, <1>4, PortsVary, Zenon
  <2> QED
    BY <1>3, <1>4, <2>1, Zenon DEF Varied
<1> QED
  BY <1>5, TextsAreEntries

\* those with a space,
LEMMA EdgedNamesAsked ==
  ASSUME NEW l \in AskedNames, NEW edge \in {"", "before", "after"}, NEW e,
         e = [B!Written(l) EXCEPT !.edge = edge]
  PROVE  e \in WholeEntries(AskedLabels) /\ e.port \in {B!NoPort, 80} /\ e.labels \in AskedNames
<1>1. l \in Seq(AskedLabels)
  BY NamesAreAsked
<1> DEFINE w == B!Written(l)
<1>2. w \in EntryForms(AskedLabels) /\ w.net = "none" /\ w.labels = l /\ w.port = B!NoPort
  BY <1>1, BlankIsAnEntry
<1>3. e = [w EXCEPT !.edge = edge]
  OBVIOUS
<1> HIDE DEF w
<1>4. e \in EntryForms(AskedLabels) /\ e.net = "none" /\ e.labels = l /\ e.port = B!NoPort
  <2>1. Varied(AskedLabels, [w EXCEPT !.edge = edge], w, w.port)
    BY <1>2, EdgesVary, Zenon
  <2> QED
    BY <1>2, <1>3, <2>1, Zenon DEF Varied
<1> QED
  BY <1>4, TextsAreEntries

\* and the blocks.
LEMMA BlocksAsked ==
  ASSUME NEW n \in Nets, NEW edge \in {"", "before", "after"}, NEW e,
         e = [B!Blank EXCEPT !.net = n, !.edge = edge]
  PROVE  e \in WholeEntries(AskedLabels) /\ e.port \in {B!NoPort, 80} /\ e.labels \in AskedNames
<1>1. e = Block(n, edge)
  BY Zenon DEF Block
<1>2. e \in WholeEntries(AskedLabels)
  <2>1. Block(n, edge) \in WholeEntries(AskedLabels)
    BY ONLY n \in Nets, edge \in {"", "before", "after"}, BlocksAreEntries, Zenon
  <2> QED
    BY <1>1, <2>1, Zenon
<1>3. e.labels = <<>> /\ e.port = B!NoPort
  <2>1. BlockOf(Block(n, edge), n, edge)
    BY BlockParts, Zenon
  <2> QED
    BY <1>1, <2>1, Zenon DEF BlockOf
<1> QED
  BY <1>2, <1>3, NamesAreAsked

\* Every entry of the questions is ordinary.
LEMMA AskedEntries ==
  ASSUME NEW e \in B!NameEntries \cup B!MarkedEntries
  PROVE  e \in OrdinaryEntries(AskedLabels) /\ e.port \in {B!NoPort, 80} /\ e.labels \in AskedNames
<1>1. SUFFICES e \in WholeEntries(AskedLabels) /\ e.port \in {B!NoPort, 80} /\ e.labels \in AskedNames
  <2>1. "<local>" \notin AskedLabels /\ "<-loopback>" \notin AskedLabels
    BY DEF AskedLabels
  <2>2. e.labels \in AskedNames => e.labels \in Seq(AskedLabels)
    BY NamesAreAsked
  <2>3. e.labels \in AskedNames => Ordinary(e)
    BY <2>1, <2>2, WithoutWords
  <2> QED
    BY <1>1, <2>3 DEF OrdinaryEntries
<1>2. CASE e \in B!NameEntries
  BY <1>2, NamedEntriesAsked
<1> DEFINE Mark(l, m, p) == [B!Written(l) EXCEPT !.mark = m, !.port = p]
           Edge(l, edge) == [B!Written(l) EXCEPT !.edge = edge]
           Net(n, edge) == [B!Blank EXCEPT !.net = n, !.edge = edge]
           Plains == {<<"a">>, <<"b", "a">>, B!Quad, <<"::1">>}
           Ports == {B!NoPort, 80}
           Signs == {"@", " ", "://", "%", "..", "[", ":"}
           Globs == {<<"a">>, B!Quad, <<"*">>, <<"10", "*">>}
           Edges == {"before", "after"}
           Forms == {"plain", "bits", "octal", "short", "bad"}
           Sides == {"", "before", "after"}
           Marked == {Mark(l, m, p) : l \in Plains, p \in Ports, m \in Signs}
           Edged == {Edge(l, edge) : l \in Globs, edge \in Edges}
           Blocks == {Net(n, edge) : n \in Forms, edge \in Sides}
<1>3. B!MarkedEntries = Marked \cup Edged \cup Blocks
  BY DEF B!MarkedEntries
<1>4. Signs \subseteq Marks /\ Forms \subseteq Nets /\ Edges \subseteq {"", "before", "after"}
  BY DEF Marks, Nets
<1>5. Plains \subseteq AskedNames /\ Globs \subseteq AskedNames
  BY NamesAreAsked
<1> HIDE DEF Mark, Edge, Net
<1>6. ASSUME NEW l \in AskedNames, NEW p \in {B!NoPort, 80}, NEW m \in Marks, e = Mark(l, m, p)
      PROVE  e \in WholeEntries(AskedLabels) /\ e.port \in {B!NoPort, 80} /\ e.labels \in AskedNames
  BY <1>6, MarkedNamesAsked, Zenon DEF Mark
<1>7. ASSUME NEW l \in AskedNames, NEW edge \in {"", "before", "after"}, e = Edge(l, edge)
      PROVE  e \in WholeEntries(AskedLabels) /\ e.port \in {B!NoPort, 80} /\ e.labels \in AskedNames
  BY <1>7, EdgedNamesAsked, Zenon DEF Edge
<1>8. ASSUME NEW n \in Nets, NEW edge \in {"", "before", "after"}, e = Net(n, edge)
      PROVE  e \in WholeEntries(AskedLabels) /\ e.port \in {B!NoPort, 80} /\ e.labels \in AskedNames
  BY <1>8, BlocksAsked, Zenon DEF Net
<1> HIDE DEF Plains, Ports, Signs, Globs, Edges, Forms, Sides
<1>9. CASE e \in Marked
  <2>1. PICK l \in Plains, p \in Ports, m \in Signs : e = Mark(l, m, p)
    BY <1>9
  <2> QED
    <3>1. l \in AskedNames /\ p \in {B!NoPort, 80} /\ m \in Marks
      BY <1>4, <1>5, Zenon DEF Ports
    <3> QED
      BY <1>6, <2>1, <3>1, Zenon
<1>10. CASE e \in Edged
  <2>1. PICK l \in Globs, edge \in Edges : e = Edge(l, edge)
    BY <1>10
  <2> QED
    BY <1>4, <1>5, <1>7, <2>1, Zenon
<1>11. CASE e \in Blocks
  <2>1. PICK n \in Forms, edge \in Sides : e = Net(n, edge)
    BY <1>11
  <2> QED
    BY <1>4, <1>8, <2>1, Zenon DEF Sides
<1> HIDE DEF Marked, Edged, Blocks
<1> QED
  BY <1>2, <1>3, <1>9, <1>10, <1>11, Zenon
-----------------------------------------------------------------------------
(* The entries of the lists, none of them with a star.                     *)

\* Labels without a star, and a word.
WordLabels == {"a", "b", "u8", "1", "10", "010", "0", "<local>"}

\* Labels none of which is a star hold none.
LEMMA StarlessLabels ==
  ASSUME NEW P, P \cap {"*", "a*", "u8*"} = {}, NEW l \in Seq(P)
  PROVE  ~B!HasStar(B!Ascii(l))
<1>1. ~B!HasStar(l)
  BY DEF B!HasStar, B!Starred
<1> QED
  BY <1>1, StarsKept

\* An entry that is not a block, and the same with a part put in its place.
Text(P, x) == x \in EntryForms(P) /\ x.net = "none"

\* It stays an entry that is not a block.
LEMMA TextsVary ==
  ASSUME NEW P, NEW e, Text(P, e)
  PROVE  /\ Text(P, [e EXCEPT !.lead = "."]) /\ Text(P, [e EXCEPT !.lead = "*."])
         /\ Text(P, [e EXCEPT !.dot = TRUE]) /\ Text(P, [e EXCEPT !.port = 80])
         /\ Text(P, [e EXCEPT !.mark = ":"]) /\ Text(P, [e EXCEPT !.edge = "after"])
         /\ Text(P, [e EXCEPT !.mark = "[", !.port = 80])
<1>1. e \in EntryForms(P) /\ e.net = "none"
  BY Zenon DEF Text
<1>2. /\ "." \in {"", ".", "*."} /\ "*." \in {"", ".", "*."} /\ TRUE \in BOOLEAN /\ 80 \in Nat
      /\ ":" \in Marks /\ "[" \in Marks /\ "after" \in {"", "before", "after"}
  BY DEF Marks
<1>3. Varied(P, [e EXCEPT !.lead = "."], e, e.port) /\ Varied(P, [e EXCEPT !.lead = "*."], e, e.port)
  BY <1>1, <1>2, LeadsVary, Zenon
<1>4. Varied(P, [e EXCEPT !.dot = TRUE], e, e.port)
  BY <1>1, <1>2, DotsVary, Zenon
<1>5. Varied(P, [e EXCEPT !.port = 80], e, 80)
  BY <1>1, <1>2, PortsVary, Zenon
<1>6. Varied(P, [e EXCEPT !.mark = ":"], e, e.port) /\ Varied(P, [e EXCEPT !.mark = "["], e, e.port)
  BY <1>1, <1>2, MarksVary, Zenon
<1>7. Varied(P, [e EXCEPT !.edge = "after"], e, e.port)
  BY <1>1, <1>2, EdgesVary, Zenon
<1> DEFINE x == [e EXCEPT !.mark = "["]
<1>8. [e EXCEPT !.mark = "[", !.port = 80] = [x EXCEPT !.port = 80]
  OBVIOUS
<1>9. x \in EntryForms(P) /\ x.net = "none"
  BY <1>1, <1>6, Zenon DEF Varied
<1>10. Varied(P, [x EXCEPT !.port = 80], x, 80)
  <2> HIDE DEF x
  <2> QED
    BY <1>2, <1>9, PortsVary, Zenon
<1>11. Text(P, [e EXCEPT !.mark = "[", !.port = 80])
  BY <1>8, <1>9, <1>10, Zenon DEF Text, Varied
<1> HIDE DEF x
<1> QED
  BY <1>1, <1>3, <1>4, <1>5, <1>6, <1>7, <1>11, Zenon DEF Text, Varied

\* What is written, and nothing.
LEMMA TextsWritten ==
  ASSUME NEW P, NEW l \in Seq(P)
  PROVE  Text(P, B!Written(l)) /\ Text(P, B!Blank)
BY BlankIsAnEntry, Zenon DEF Text

\* The entries of GNOME's lists are entries, and none has a star.
LEMMA GnomeEntriesAsked ==
  ASSUME NEW e \in B!ListEntries
  PROVE  e \in WholeEntries(WordLabels) /\ ~B!HasStar(B!Ascii(e.labels))
<1> DEFINE Q == WordLabels
<1>1. /\ <<"a">> \in Seq(Q) /\ <<"u8">> \in Seq(Q) /\ <<"<local>">> \in Seq(Q) /\ <<"b", "a">> \in Seq(Q)
      /\ <<"10", "0", "0", "1">> \in Seq(Q) /\ <<"010", "0", "0", "1">> \in Seq(Q)
  BY DEF WordLabels
<1>2. B!Quad \in Seq(Q) /\ B!Octal \in Seq(Q)
  BY <1>1, Zenon DEF B!Quad, B!Octal
<1>3. Q \cap {"*", "a*", "u8*"} = {}
  BY DEF WordLabels
<1> HIDE DEF Q
<1>4. /\ Text(Q, B!Blank) /\ Text(Q, B!Written(<<"a">>)) /\ Text(Q, B!Written(<<"u8">>))
      /\ Text(Q, B!Written(<<"<local>">>)) /\ Text(Q, B!Written(<<"b", "a">>))
      /\ Text(Q, B!Written(B!Quad)) /\ Text(Q, B!Written(B!Octal))
  BY <1>1, <1>2, TextsWritten, Zenon
<1>5. Text(Q, [B!Blank EXCEPT !.lead = "."]) /\ Text(Q, [B!Blank EXCEPT !.port = 80])
  BY <1>4, TextsVary, Zenon
<1>6. Text(Q, [B!Written(<<"b", "a">>) EXCEPT !.lead = "*."])
  BY <1>4, TextsVary, Zenon
<1>7. Text(Q, [B!Written(<<"a">>) EXCEPT !.dot = TRUE]) /\ Text(Q, [B!Written(<<"a">>) EXCEPT !.mark = ":"])
  BY <1>4, TextsVary, Zenon
<1>8. Text(Q, [B!Written(B!Quad) EXCEPT !.mark = "[", !.port = 80])
  BY <1>4, TextsVary, Zenon
<1>9. Text(Q, [B!Written(<<"a">>) EXCEPT !.edge = "after"])
  BY <1>4, TextsVary, Zenon
<1>10. Text(Q, e) \/ e = [B!Blank EXCEPT !.net = "plain"] \/ e = [B!Blank EXCEPT !.net = "bits"]
  BY <1>4, <1>5, <1>6, <1>7, <1>8, <1>9, Zenon DEF B!ListEntries
<1>11. Text(Q, e) => e \in WholeEntries(Q)
  BY TextsAreEntries, Zenon DEF Text
<1>12. "plain" \in Nets /\ "bits" \in Nets /\ "" \in {"", "before", "after"}
  BY DEF Nets
<1>13. e \in WholeEntries(Q)
  <2>1. Block("plain", "") \in WholeEntries(Q) /\ Block("bits", "") \in WholeEntries(Q)
    BY <1>12, BlocksAreEntries, Zenon
  <2>2. [B!Blank EXCEPT !.net = "plain"] = Block("plain", "") /\ [B!Blank EXCEPT !.net = "bits"] = Block("bits", "")
    BY OneBlock, Zenon
  <2> QED
    BY <1>10, <1>11, <2>1, <2>2, Zenon
<1>14. e.labels \in Seq(Q)
  BY <1>13, WholeEntriesAre
<1>15. ~B!HasStar(B!Ascii(e.labels))
  BY <1>3, <1>14, StarlessLabels
<1> QED
  BY <1>13, <1>15, Zenon DEF Q

\* So are those of the lists of macOS, and none is a word of another dialect.
LEMMA MacEntriesAsked ==
  ASSUME NEW e \in {B!Written(<<"a">>), [B!Blank EXCEPT !.net = "short"], B!Blank,
                    [B!Written(<<"a">>) EXCEPT !.port = 80], [B!Written(<<"a">>) EXCEPT !.edge = "after"]}
  PROVE  e \in OrdinaryEntries({"a"}) /\ ~B!HasStar(B!Ascii(e.labels))
<1> DEFINE Q == {"a"}
<1>1. <<"a">> \in Seq(Q) /\ "<local>" \notin Q /\ "<-loopback>" \notin Q /\ Q \cap {"*", "a*", "u8*"} = {}
  OBVIOUS
<1> HIDE DEF Q
<1>2. Text(Q, B!Blank) /\ Text(Q, B!Written(<<"a">>))
  BY <1>1, TextsWritten, Zenon
<1>3. Text(Q, [B!Written(<<"a">>) EXCEPT !.port = 80]) /\ Text(Q, [B!Written(<<"a">>) EXCEPT !.edge = "after"])
  BY <1>2, TextsVary, Zenon
<1>4. Text(Q, e) \/ e = [B!Blank EXCEPT !.net = "short"]
  BY <1>2, <1>3, Zenon
<1>5. Text(Q, e) => e \in WholeEntries(Q)
  BY TextsAreEntries, Zenon DEF Text
<1>6. [B!Blank EXCEPT !.net = "short"] \in WholeEntries(Q)
  <2>1. "short" \in Nets /\ "" \in {"", "before", "after"}
    BY DEF Nets
  <2>2. Block("short", "") \in WholeEntries(Q)
    BY <2>1, BlocksAreEntries, Zenon
  <2>3. [B!Blank EXCEPT !.net = "short"] = Block("short", "")
    BY OneBlock, Zenon
  <2> QED
    BY <2>2, <2>3, Zenon
<1>7. e \in WholeEntries(Q)
  BY <1>4, <1>5, <1>6, Zenon
<1>8. e.labels \in Seq(Q)
  BY <1>7, WholeEntriesAre
<1>9. Ordinary(e)
  BY <1>1, <1>8, WithoutWords
<1>10. ~B!HasStar(B!Ascii(e.labels))
  BY <1>1, <1>8, StarlessLabels
<1>11. e \in OrdinaryEntries(Q)
  BY <1>7, <1>9, Zenon DEF OrdinaryEntries
<1> QED
  BY <1>10, <1>11, Zenon DEF Q
-----------------------------------------------------------------------------
(* The destinations the entries reach, and those the lists are asked about. *)

\* An entry without a star that is read as a name has a destination of its name,
\* and one below it.
LEMMA AskedNamesReach ==
  ASSUME NEW l \in AskedNames, B!parse_host(B!Ascii(l)) = "name", ~B!HasStar(B!Ascii(l))
  PROVE  /\ B!Name(B!Ascii(l), FALSE) \in B!Destinations
         /\ B!Name(<<"a">> \o B!Ascii(l), FALSE) \in B!Destinations
<1> DEFINE Few == {"a", "b", "u8", "*", "a*", "1"}
           ascii == B!Ascii(l)
<1>1. l \in Seq(AskedLabels)
  BY NamesAreAsked
<1>2. ~B!HasStar(l)
  BY <1>1, StarsKept
<1>3. ascii # <<>> /\ ascii \notin AddressTexts /\ B!Last(ascii) \notin B!Numbers
  BY ParsedHosts
<1>4. l \notin AddressTexts
  BY <1>1, <1>3, AsciiOfAddresses
<1>5. l \notin {<<"10", "*">>, <<"u8*">>, <<"*", "0", "1">>}
  <2>1. B!HasStar(<<"10", "*">>) /\ B!HasStar(<<"u8*">>) /\ B!HasStar(<<"*", "0", "1">>)
    BY DEF B!HasStar, B!Starred
  <2> QED
    BY <1>2, <2>1
<1>6. l \in B!SeqOf(Few, 2)
  BY <1>4, <1>5, Zenon DEF AskedNames, AddressTexts
<1>7. l \in Seq(Few) /\ Len(l) <= 2
  <2>1. 2 \in Nat
    OBVIOUS
  <2> HIDE DEF Few
  <2> QED
    BY <1>6, <2>1, BoundedSeqs
<1>8. \A i \in 1 .. Len(l) : l[i] \in {"a", "b", "u8", "1"}
  BY <1>2, <1>7 DEF B!HasStar, B!Starred
<1>9. /\ Len(ascii) = Len(l) /\ ascii \in Seq(AskedLabels \cup {"xn"})
      /\ \A i \in 1 .. Len(l) : ascii[i] = IF l[i] = "u8" THEN "xn" ELSE l[i]
  BY <1>1, AsciiIs
<1> HIDE DEF ascii, Few
<1>10. \A i \in 1 .. Len(ascii) : ascii[i] \in Letters
  BY <1>8, <1>9 DEF Letters
<1>11. ascii \in Seq(Letters) /\ Len(ascii) <= 2
  <2>1. Len(ascii) \in Nat /\ ascii = [i \in 1 .. Len(ascii) |-> ascii[i]]
    BY <1>9
  <2>2. ascii \in [1 .. Len(ascii) -> Letters]
    BY <1>10, <2>1
  <2>3. ascii \in Seq(Letters)
    BY <2>1, <2>2
  <2> QED
    BY <1>7, <1>9, <2>3
<1>12. ascii[Len(ascii)] # "1"
  BY <1>3 DEF B!Last, B!Numbers
<1> DEFINE long == <<"a">> \o ascii
<1>13. /\ long \in Seq(Letters) /\ Len(long) <= 3 /\ long # <<>>
       /\ long[Len(long)] = ascii[Len(ascii)]
  <2>1. <<"a">> \in Seq(Letters) /\ Len(<<"a">>) = 1
    BY DEF Letters
  <2>2. Len(ascii) \in 1 .. 2
    <3> HIDE DEF long
    <3> QED
      <4>1. \A seq \in Seq(Letters) : seq # <<>> => Len(seq) \in Nat \ {0}
        BY EmptySeq
      <4>2. Len(ascii) \in Nat \ {0}
        BY <1>3, <1>11, <4>1, Zenon
      <4>3. Len(ascii) <= 2
        BY <1>11
      <4>4. \A n \in Nat \ {0} : n <= 2 => n \in 1 .. 2
        OBVIOUS
      <4> QED
        BY <4>2, <4>3, <4>4, Zenon
  <2>3. long \in Seq(Letters) /\ Len(long) = 1 + Len(ascii) /\ long[1 + Len(ascii)] = ascii[Len(ascii)]
    BY <1>11, <2>1, <2>2
  <2> HIDE DEF long
  <2> QED
    BY <2>2, <2>3
<1>14. ascii \in B!DestinationLabels
  BY <1>3, <1>11, <1>12, LabelsOfDestinations
<1>15. long \in B!DestinationLabels
  <2> HIDE DEF long
  <2> QED
    BY <1>12, <1>13, LabelsOfDestinations
<1>16. \A ls \in B!DestinationLabels : B!Name(ls, FALSE) \in B!Destinations
  <2>1. \A ls \in B!DestinationLabels, dot \in BOOLEAN : B!Name(ls, dot) \in B!Destinations
    BY DEF B!Destinations
  <2>2. FALSE \in BOOLEAN
    OBVIOUS
  <2> QED
    BY <2>1, <2>2, Zenon
<1>17. B!Name(ascii, FALSE) \in B!Destinations /\ B!Name(long, FALSE) \in B!Destinations
  BY <1>14, <1>15, <1>16
<1> QED
  BY <1>17, Zenon DEF ascii

\* GLib compares a name as it is written, and so does parse_in if it is ASCII.
LEMMA ComparedAlike ==
  ASSUME NEW d, NEW Q, NEW x, NEW rule, MadeOf(d, Q, x, rule),
         B!parse_host(Compared(d, x)) = "name"
  PROVE  Compared(d, x) = B!Ascii(x.labels)
<1>1. CASE d # "gnome"
  BY <1>1, Zenon DEF Compared
<1>2. CASE d = "gnome"
  <2>1. Compared(d, x) = x.labels
    BY <1>2, Zenon DEF Compared
  <2>2. x.labels # <<>> /\ x.labels \notin AddressTexts
    BY <2>1, ParsedHosts
  <2>3. x \in WholeEntries(Q)
    BY Zenon DEF MadeOf, Given
  <2>4. CASE B!Mask(x)
    <3>1. x.net = "plain" \/ B!IsAddressText(x.labels)
      BY <2>4, MasksAre
    <3>2. ~B!IsAddressText(x.labels)
      BY <2>2 DEF B!IsAddressText, AddressTexts
    <3>3. "plain" # "none"
      OBVIOUS
    <3>4. x = Block(x.net, x.edge)
      BY <2>3, <3>1, <3>2, <3>3, WholeEntriesAre
    <3>5. BlockOf(Block(x.net, x.edge), x.net, x.edge)
      BY BlockParts, Zenon
    <3>6. x.labels = <<>>
      BY <3>4, <3>5, Zenon DEF BlockOf
    <3> QED
      BY <2>2, <3>6
  <2>5. CASE Given(d, Q, x)
    <3>1. Verbatim(x)
      BY <1>2, <2>5, Zenon DEF Given
    <3>2. x.labels \in Seq(Q)
      BY <2>3, WholeEntriesAre
    <3>3. \A i \in 1 .. Len(x.labels) : x.labels[i] # "u8"
      BY <3>1 DEF Verbatim, B!Contains
    <3>4. B!Ascii(x.labels) = x.labels
      BY <3>2, <3>3, AsciiKeeps
    <3> QED
      BY <2>1, <3>4
  <2> QED
    BY <2>4, <2>5, Zenon DEF MadeOf
<1> QED
  BY <1>1, <1>2

\* What an entry of the questions becomes sends some destination around.
LEMMA AloneReaches ==
  ASSUME NEW d \in B!EntryDialects, NEW e \in B!NameEntries \cup B!MarkedEntries,
         B!ReadAlone(d, e) \notin {B!Refused, B!NoRule}, B!ReadAlone(d, e).kind # "wildcard"
  PROVE  \E host \in B!Destinations : Sends(d, B!ReadAlone(d, e), host, 80)
<1> DEFINE rule == B!ReadAlone(d, e)
           Q == AskedLabels
<1>1. e \in OrdinaryEntries(Q) /\ e.port \in {B!NoPort, 80} /\ e.labels \in AskedNames
  BY AskedEntries
<1> HIDE DEF rule, Q
<1>2. PICK x : x.labels = e.labels /\ x.port = e.port /\ MadeOf(d, Q, x, rule)
  BY <1>1, AloneBecomes DEF rule
<1>3. x.labels \in Seq(Q)
  BY <1>1, <1>2, NamesAreAsked DEF Q
<1>4. B!port_matches(x.port, 80)
  BY <1>1, <1>2 DEF B!port_matches
<1>5. ASSUME B!parse_host(Compared(d, x)) = "name", ~B!HasStar(Compared(d, x))
      PROVE  /\ B!Name(Compared(d, x), FALSE) \in B!Destinations
             /\ B!Name(<<"a">> \o Compared(d, x), FALSE) \in B!Destinations
  <2>1. Compared(d, x) = B!Ascii(x.labels)
    BY <1>2, <1>5, ComparedAlike
  <2> QED
    BY <1>1, <1>2, <1>5, <2>1, AskedNamesReach
<1>6. B!Destinations \in SUBSET MetHosts(d, Letters, FiveAddresses)
  BY DestinationsMet
<1>7. \A ip \in FiveAddresses : B!Address(ip) \in B!Destinations
  BY DEF B!Destinations, FiveAddresses
<1>8. rule.kind # "wildcard"
  BY Zenon DEF rule
<1>9. \E host \in B!Destinations : Sends(d, rule, host, 80)
  BY <1>2, <1>3, <1>4, <1>5, <1>6, <1>7, <1>8, RulesReach
<1> QED
  BY <1>9, Zenon DEF rule

\* The hosts a list of macOS is asked about are hosts.
LEMMA MacHostsMet ==
  ASSUME NEW host \in B!Destinations \cup B!Hosts
  PROVE  \E P, I : host \in MetHosts("macos", P, I)
<1>1. CASE host \in B!Destinations
  BY <1>1, DestinationsMet
<1>2. CASE host \in B!Hosts
  <2> DEFINE P == {"localhost", "a", "b", "x"}
             I == {"127.0.0.1", "127.0.0.2", "::1", "10.0.0.1",
                   "::ffff:127.0.0.1", "::ffff:10.0.0.1", "fe80::1"}
             N1 == {<<"localhost">>, <<"a">>, <<"b", "a">>, <<"x", "localhost">>}
  <2>1. \A l \in N1 : l \in MetNames(P)
    <3>1. /\ <<"localhost">> \in Seq(P) /\ <<"a">> \in Seq(P) /\ <<"b", "a">> \in Seq(P)
          /\ <<"x", "localhost">> \in Seq(P)
      OBVIOUS
    <3>2. /\ B!Last(<<"localhost">>) = "localhost" /\ B!Last(<<"a">>) = "a" /\ B!Last(<<"b", "a">>) = "a"
          /\ B!Last(<<"x", "localhost">>) = "localhost"
      BY DEF B!Last
    <3>3. \A l \in N1 : l # <<>> /\ l \in Seq(P) /\ B!Last(l) \in {"localhost", "a"}
      <4> HIDE DEF P
      <4> QED
        BY <3>1, <3>2
    <3>4. \A l \in {"localhost", "a"} : l \notin B!Numbers \cup {"::1"}
      BY DEF B!Numbers
    <3> HIDE DEF P, N1
    <3> QED
      BY <3>3, <3>4, Zenon DEF MetNames
  <2>2. \/ \E l \in N1, dot \in BOOLEAN : host = B!Name(l, dot)
        \/ \E ip \in I : host = B!Address(ip)
    BY <1>2, Zenon DEF B!Hosts
  <2>3. \A ip \in I : ip # "none" /\ ("macos" = "suffix" => B!Mapped(ip) = ip)
    OBVIOUS
  <2> HIDE DEF P, I, N1
  <2>4. host \in MetHosts("macos", P, I)
    BY <2>1, <2>2, <2>3 DEF MetHosts
  <2> QED
    BY <2>4
<1> QED
  BY <1>1, <1>2
-----------------------------------------------------------------------------
(* What the entries and the lists of the questions come to.                *)

\* What an entry, a list of GNOME and a list of macOS promise of their answers.
EntryClosed(e, made) ==
    \A d \in B!EntryDialects :
        LET rule == made[d]
            asked == {q \in Asked : B!Grants(d, e, q[1], q[2])}
            sent == {q \in Asked : B!PatternMatches(B!Reader(d, <<>>, {}), rule, q[1], q[2])}
        IN
        rule.kind \notin {"refused", "none"} =>
            /\ sent = asked
            /\ rule.kind # "wildcard" => sent # {}

GnomeListClosed(list, made) ==
    LET read == B!GnomeReads(list)
        asked == {q \in Asked : \E e \in read : B!Grants("gnome", e, q[1], q[2])}
        sent == {q \in Asked : B!matches(B!Reader("gnome", made.patterns, {}), q[1], q[2])}
    IN
    /\ sent \subseteq asked
    /\ made.rejected = <<>> => sent = asked

MacListClosed(dict, made) ==
    LET asked == {q \in AskedOfMac : B!MacAsks(dict, q[1], q[2])}
        sent == {q \in AskedOfMac : B!matches(made, q[1], q[2])}
    IN
    /\ sent \subseteq asked
    /\ made.rejected.entries = 0 => sent = asked

\* What is asked, one question at a time.
LEMMA QuestionsAsked ==
  /\ \A q \in Asked : q[1] \in B!Destinations
  /\ \A host \in B!Destinations : <<host, 80>> \in Asked
  /\ \A q \in AskedOfMac : q[1] \in B!Destinations \cup B!Hosts
BY DEF Asked, AskedOfMac

\* A rule of the questions sends around what its entry grants, and something unless
\* it is a glob.
LEMMA EntriesComeClosed ==
  ASSUME NEW e \in B!NameEntries \cup B!MarkedEntries
  PROVE  EntryClosed(e, [d \in B!EntryDialects |-> B!ReadAlone(d, e)])
<1> SUFFICES ASSUME NEW d \in B!EntryDialects
             PROVE  LET rule == B!ReadAlone(d, e)
                        asked == {q \in Asked : B!Grants(d, e, q[1], q[2])}
                        sent == {q \in Asked :
                                    B!PatternMatches(B!Reader(d, <<>>, {}), rule, q[1], q[2])}
                    IN
                    rule.kind \notin {"refused", "none"} =>
                        /\ sent = asked
                        /\ rule.kind # "wildcard" => sent # {}
  BY DEF EntryClosed
<1> DEFINE rule == B!ReadAlone(d, e)
           grants(q) == B!Grants(d, e, q[1], q[2])
           sends(q) == B!PatternMatches(B!Reader(d, <<>>, {}), rule, q[1], q[2])
<1> SUFFICES ASSUME rule.kind \notin {"refused", "none"}
             PROVE  /\ {q \in Asked : sends(q)} = {q \in Asked : grants(q)}
                    /\ rule.kind # "wildcard" => {q \in Asked : sends(q)} # {}
  OBVIOUS
<1>1. rule \notin {B!Refused, B!NoRule}
  <2>1. B!Refused.kind = "refused" /\ B!NoRule.kind = "none"
    BY DEF B!Refused, B!NoRule
  <2> HIDE DEF rule
  <2> QED
    BY <2>1
<1>2. e \in OrdinaryEntries(AskedLabels)
  BY AskedEntries
<1>3. ASSUME NEW q \in Asked PROVE sends(q) <=> grants(q)
  <2>1. q[1] \in B!Destinations
    BY QuestionsAsked
  <2>2. q[1] \in MetHosts(d, Letters, FiveAddresses) /\ Seen(d, q[1]) \in B!Destinations
    BY <2>1, DestinationsMet, DestinationsSeen
  <2>3. Sends(d, rule, q[1], q[2]) <=> B!Grants(d, e, q[1], q[2])
    BY <1>1, <1>2, <2>2, EntriesSendWhatTheyGrant, Zenon
  <2> QED
    BY <2>3, Zenon DEF Sends
<1>4. ASSUME rule.kind # "wildcard" PROVE {q \in Asked : sends(q)} # {}
  <2>1. PICK host \in B!Destinations : Sends(d, rule, host, 80)
    BY <1>1, <1>4, AloneReaches, Zenon
  <2>2. <<host, 80>> \in Asked
    BY QuestionsAsked
  <2> DEFINE q == <<host, 80>>
  <2>3. q[1] = host /\ q[2] = 80
    OBVIOUS
  <2> HIDE DEF q
  <2>4. sends(q)
    BY <2>1, <2>3, Zenon DEF Sends
  <2>5. q \in Asked
    BY <2>2, Zenon DEF q
  <2> HIDE DEF sends
  <2> QED
    BY <2>4, <2>5
<1> HIDE DEF sends, grants, rule
<1> QED
  BY <1>3, <1>4

\* A list of GNOME of the questions sends around what GLib grants by it.
LEMMA GnomeListsComeClosed ==
  ASSUME NEW list \in SeqOf(B!ListEntries, 3)
  PROVE  GnomeListClosed(list, B!push_gnome_entries(list))
<1> DEFINE made == B!push_gnome_entries(list)
           asks(q) == \E e \in B!GnomeReads(list) : B!Grants("gnome", e, q[1], q[2])
           sends(q) == B!matches(B!Reader("gnome", made.patterns, {}), q[1], q[2])
<1>1. list \in Seq(B!ListEntries)
  <2>1. \A S : \A n \in Nat : \A s \in SeqOf(S, n) : s \in Seq(S)
    BY DEF SeqOf
  <2>2. 3 \in Nat
    OBVIOUS
  <2> QED
    BY <2>1, <2>2, Zenon
<1>2. /\ list \in Seq(WholeEntries(WordLabels))
      /\ \A i \in 1 .. Len(list) : ~B!HasStar(B!Ascii(list[i].labels))
  <2>1. \A x \in B!ListEntries : x \in WholeEntries(WordLabels) /\ ~B!HasStar(B!Ascii(x.labels))
    BY GnomeEntriesAsked
  <2> QED
    BY <1>1, <2>1
<1>3. ASSUME NEW q \in Asked
      PROVE  /\ sends(q) => asks(q)
             /\ made.rejected = <<>> => (sends(q) <=> asks(q))
  <2>1. q[1] \in MetHosts("gnome", Letters, FiveAddresses)
    BY QuestionsAsked, DestinationsMet
  <2> QED
    BY <1>2, <2>1, GnomeListsSendWhatTheyGrant, Zenon
<1>4. GnomeListClosed(list, made) <=>
          /\ {q \in Asked : sends(q)} \subseteq {q \in Asked : asks(q)}
          /\ made.rejected = <<>> => {q \in Asked : sends(q)} = {q \in Asked : asks(q)}
  BY Zenon DEF GnomeListClosed
<1> HIDE DEF sends, asks, made
<1>5. GnomeListClosed(list, made)
  BY <1>3, <1>4
<1> QED
  BY <1>5, Zenon DEF made

\* A list of macOS of the questions sends around what CFNetwork does by it.
LEMMA MacListsComeClosed ==
  ASSUME NEW dict \in B!MacLists
  PROVE  MacListClosed(dict, B!bypass_from_dict(dict))
<1> DEFINE made == B!bypass_from_dict(dict)
           asks(q) == B!MacAsks(dict, q[1], q[2])
           sends(q) == B!matches(made, q[1], q[2])
           Kinds == {B!Written(<<"a">>), [B!Blank EXCEPT !.net = "short"], B!Blank,
                     [B!Written(<<"a">>) EXCEPT !.port = 80],
                     [B!Written(<<"a">>) EXCEPT !.edge = "after"]}
           Few == {"a"}
<1>1. dict.list \in B!SeqOf(Kinds, 2) /\ dict.unreadable \in Nat
  <2>1. B!MacLists = [list : B!SeqOf(Kinds, 2), usable : BOOLEAN, unreadable : 0 .. 1,
                      simple : {"on", "off", "unusable"}]
    BY Zenon DEF B!MacLists
  <2> HIDE DEF Kinds
  <2> QED
    BY <2>1
<1>2. \A x \in Kinds : x \in OrdinaryEntries(Few) /\ ~B!HasStar(B!Ascii(x.labels))
  BY MacEntriesAsked, Zenon
<1> HIDE DEF Kinds, Few
<1>3. /\ dict.list \in Seq(OrdinaryEntries(Few))
      /\ \A i \in 1 .. Len(dict.list) : ~B!HasStar(B!Ascii(dict.list[i].labels))
  <2>1. dict.list \in Seq(Kinds)
    <3>1. 2 \in Nat
      OBVIOUS
    <3> QED
      BY <1>1, <3>1, BoundedSeqs
  <2> DEFINE list == dict.list
  <2>2. list \in Seq(OrdinaryEntries(Few)) /\ \A i \in 1 .. Len(list) : ~B!HasStar(B!Ascii(list[i].labels))
    <3>1. list \in Seq(Kinds)
      BY <2>1
    <3> HIDE DEF list
    <3> QED
      BY <1>2, <3>1
  <2> QED
    BY <2>2, Zenon DEF list
<1>4. ASSUME NEW q \in AskedOfMac
      PROVE  /\ sends(q) => asks(q)
             /\ made.rejected.entries = 0 => (sends(q) <=> asks(q))
  <2>1. q[1] \in B!Destinations \cup B!Hosts
    BY QuestionsAsked
  <2>2. PICK P, I : q[1] \in MetHosts("macos", P, I)
    BY <2>1, MacHostsMet, Zenon
  <2> QED
    BY <1>1, <1>3, <2>2, MacListsSendWhatTheyGrant, Zenon
<1>5. MacListClosed(dict, made) <=>
          /\ {q \in AskedOfMac : sends(q)} \subseteq {q \in AskedOfMac : asks(q)}
          /\ made.rejected.entries = 0 => {q \in AskedOfMac : sends(q)} = {q \in AskedOfMac : asks(q)}
  BY Zenon DEF MacListClosed
<1> HIDE DEF sends, asks, made
<1>6. MacListClosed(dict, made)
  BY <1>4, <1>5
<1> QED
  BY <1>6, Zenon DEF made
=============================================================================
