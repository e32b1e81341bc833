----------------------------- MODULE StoreProofs -----------------------------
(***************************************************************************)
(* What the stores promise of the decisions of Decisions: whatever is read *)
(* from them, the mode they report is the one their slots decide.  The     *)
(* theorem carries what its questions are through the one step that        *)
(* answers them; what the answer is, the lemmas before it say of the       *)
(* operators that compute it, one store after another.                     *)
(***************************************************************************)
EXTENDS Decisions, FunctionProofs
-----------------------------------------------------------------------------
(* The steps.                                                              *)

\* The question of a topic is answered.
Answers(about) ==
    /\ topic = about /\ stage = "asked" /\ stage' = "answered"
    /\ topic' = topic /\ given' = given

\* Each question is put to the one action of its topic.
LEMMA TheFirstTopics ==
  /\ AskGnome => Answers("gnome")
  /\ AskKde => Answers("kde")
  /\ AskPortal => Answers("portal")
  /\ AskEnv => Answers("env")
  /\ AskWindows => Answers("windows")
  /\ AskString => Answers("string")
  /\ AskApple => Answers("apple")
  /\ AskAndroid => Answers("android")
  /\ AskLinux => Answers("linux")
  <1>1. AskGnome => Answers("gnome")
    BY DEF AskGnome, Answer, Answers
  <1>2. AskKde => Answers("kde")
    BY DEF AskKde, Answer, Answers
  <1>3. AskPortal => Answers("portal")
    BY DEF AskPortal, Answer, Answers
  <1>4. AskEnv => Answers("env")
    BY DEF AskEnv, Answer, Answers
  <1>5. AskWindows => Answers("windows")
    BY DEF AskWindows, Answer, Answers
  <1>6. AskString => Answers("string")
    BY DEF AskString, Answer, Answers
  <1>7. AskApple => Answers("apple")
    BY DEF AskApple, Answer, Answers
  <1>8. AskAndroid => Answers("android")
    BY DEF AskAndroid, Answer, Answers
  <1>9. AskLinux => Answers("linux")
    BY DEF AskLinux, Answer, Answers
  <1> QED BY <1>1, <1>2, <1>3, <1>4, <1>5, <1>6, <1>7, <1>8, <1>9

\* Of the systems that follow, of the layers and of the lists.
LEMMA TheNextTopics ==
  /\ AskWin => Answers("win")
  /\ AskMac => Answers("mac")
  /\ AskLayers => Answers("layers")
  /\ AskRepeats => Answers("repeats")
  /\ AskDrop => Answers("drop")
  /\ AskEntry => Answers("entry")
  /\ AskGnomeList => Answers("gnome_list")
  /\ AskMacList => Answers("mac_list")
  <1>1. AskWin => Answers("win")
    BY DEF AskWin, Answer, Answers
  <1>2. AskMac => Answers("mac")
    BY DEF AskMac, Answer, Answers
  <1>3. AskLayers => Answers("layers")
    BY DEF AskLayers, Answer, Answers
  <1>4. AskRepeats => Answers("repeats")
    BY DEF AskRepeats, Answer, Answers
  <1>5. AskDrop => Answers("drop")
    BY DEF AskDrop, Answer, Answers
  <1>6. AskEntry => Answers("entry")
    BY DEF AskEntry, Answer, Answers
  <1>7. AskGnomeList => Answers("gnome_list")
    BY DEF AskGnomeList, Answer, Answers
  <1>8. AskMacList => Answers("mac_list")
    BY DEF AskMacList, Answer, Answers
  <1> QED BY <1>1, <1>2, <1>3, <1>4, <1>5, <1>6, <1>7, <1>8

\* Of the routes and of what a script asks.
LEMMA TheLastTopics ==
  /\ AskRoute => Answers("route")
  /\ AskUrl => Answers("url")
  /\ AskLookup => Answers("lookup")
  /\ AskDay => Answers("day")
  /\ AskDates => Answers("dates")
  /\ AskHours => Answers("hours")
  /\ AskChain => Answers("chain")
  /\ AskSelected => Answers("selected")
  <1>1. AskRoute => Answers("route")
    BY DEF AskRoute, Answer, Answers
  <1>2. AskUrl => Answers("url")
    BY DEF AskUrl, Answer, Answers
  <1>3. AskLookup => Answers("lookup")
    BY DEF AskLookup, Answer, Answers
  <1>4. AskDay => Answers("day")
    BY DEF AskDay, Answer, Answers
  <1>5. AskDates => Answers("dates")
    BY DEF AskDates, Answer, Answers
  <1>6. AskHours => Answers("hours")
    BY DEF AskHours, Answer, Answers
  <1>7. AskChain => Answers("chain")
    BY DEF AskChain, Answer, Answers
  <1>8. AskSelected => Answers("selected")
    BY DEF AskSelected, Answer, Answers
  <1> QED BY <1>1, <1>2, <1>3, <1>4, <1>5, <1>6, <1>7, <1>8

\* Nobody changes the question, and only the matcher walks.
LEMMA TheQuestionStays ==
  ASSUME [Next]_vars, stage = "walking" => topic = "glob"
  PROVE  /\ topic' = topic /\ given' = given
         /\ stage' = "walking" => topic' = "glob"
  <1>1. BeginMatch \/ Match => topic' = topic /\ given' = given /\ topic = "glob"
    BY DEF BeginMatch, Match
  <1>2. Rest \/ UNCHANGED vars => topic' = topic /\ given' = given /\ stage' = stage
    BY DEF Rest, vars
  <1> QED BY <1>1, <1>2, TheFirstTopics, TheNextTopics, TheLastTopics DEF Next, Answers

\* A question is answered by its own action, or was answered before.
LEMMA AnswersAreGiven ==
  ASSUME [Next]_vars, stage' = "answered", topic # "glob",
         stage = "walking" => topic = "glob"
  PROVE  \/ UNCHANGED vars
         \/ topic = "gnome" /\ AskGnome
         \/ topic = "kde" /\ AskKde
         \/ topic = "portal" /\ AskPortal
         \/ topic = "env" /\ AskEnv
         \/ topic = "windows" /\ AskWindows
         \/ topic = "string" /\ AskString
         \/ topic = "apple" /\ AskApple
         \/ topic = "android" /\ AskAndroid
         \/ topic = "linux" /\ AskLinux
         \/ topic = "win" /\ AskWin
         \/ topic = "mac" /\ AskMac
         \/ topic = "layers" /\ AskLayers
         \/ topic = "repeats" /\ AskRepeats
         \/ topic = "drop" /\ AskDrop
         \/ topic = "entry" /\ AskEntry
         \/ topic = "gnome_list" /\ AskGnomeList
         \/ topic = "mac_list" /\ AskMacList
         \/ topic = "route" /\ AskRoute
         \/ topic = "url" /\ AskUrl
         \/ topic = "lookup" /\ AskLookup
         \/ topic = "day" /\ AskDay
         \/ topic = "dates" /\ AskDates
         \/ topic = "hours" /\ AskHours
         \/ topic = "chain" /\ AskChain
         \/ topic = "selected" /\ AskSelected
  <1>1. ~BeginMatch /\ ~Match
    BY DEF BeginMatch, Match
  <1>2. Rest => UNCHANGED vars
    BY DEF Rest
  <1> QED BY <1>1, <1>2, TheFirstTopics, TheNextTopics, TheLastTopics DEF Next, Answers
-----------------------------------------------------------------------------
(* What a reader hands over, and what a request makes of it.               *)

M == INSTANCE Modes

\* An entry that is no answer.
NoAnswer == {"none", "lost"}

\* The first answer of a chain is its first entry that is one.
LEMMA FirstAnswerIs ==
  ASSUME NEW chain, Len(chain) \in Nat, NEW i \in 1 .. Len(chain),
         chain[i] \notin NoAnswer,
         \A j \in 1 .. Len(chain) : j < i => chain[j] \in NoAnswer
  PROVE  M!FirstAnswer(chain) = chain[i]
  <1> DEFINE I == {j \in 1 .. Len(chain) : chain[j] \notin NoAnswer}
  <1>1. I \in SUBSET (1 .. Len(chain)) /\ i \in I /\ \A j \in I : i <= j
    OBVIOUS
  <1>2. Min(I) = i
    <2> HIDE DEF I
    <2> QED BY <1>1, SelectedFirst
  <1>3. M!FirstAnswer(chain) =
            LET first == IF I # {} THEN Min(I) ELSE 0 IN
            IF first # 0 THEN chain[first]
            ELSE IF M!Contains(chain, "lost") THEN "lost" ELSE "none"
    BY DEF M!FirstAnswer, M!SelectInSeq, M!Min, Min, NoAnswer
  <1> HIDE DEF I
  <1>4. I # {} /\ i # 0
    BY <1>1
  <1> QED BY <1>2, <1>3, <1>4

\* A chain without an answer is lost if an entry of it is.
LEMMA FirstAnswerNone ==
  ASSUME NEW chain, Len(chain) \in Nat,
         \A j \in 1 .. Len(chain) : chain[j] \in NoAnswer
  PROVE  M!FirstAnswer(chain) =
             IF \E j \in 1 .. Len(chain) : chain[j] = "lost" THEN "lost" ELSE "none"
  BY DEF M!FirstAnswer, M!SelectInSeq, M!Contains, NoAnswer

\* What a candidate that decides is told as.
Told(c) == IF c = "off" THEN "direct" ELSE c
Decides(c) == c \notin {"bad", "unset"}

\* What a chain asks for is what its first candidate that decides is told as.
LEMMA AskedIs ==
  ASSUME NEW chain, Len(chain) \in Nat, NEW i \in 1 .. Len(chain),
         Decides(chain[i]), \A j \in 1 .. Len(chain) : j < i => ~Decides(chain[j])
  PROVE  M!Asked(chain) = Told(chain[i])
  <1> DEFINE first == CHOOSE k \in 1 .. Len(chain) :
                  Decides(chain[k]) /\ \A j \in 1 .. k - 1 : ~Decides(chain[j])
  <1>1. \A j \in 1 .. i - 1 : ~Decides(chain[j])
    OBVIOUS
  <1>2. first \in 1 .. Len(chain) /\ Decides(chain[first]) /\ \A j \in 1 .. first - 1 : ~Decides(chain[j])
    BY <1>1
  <1>3. M!Asked(chain) = Told(chain[first])
    BY DEF M!Asked, Told, Decides
  <1> HIDE DEF first
  <1>4. first = i
    BY <1>2
  <1> QED BY <1>3, <1>4

\* A chain of which none decides is unusable if a candidate of it is bad.
LEMMA AskedNone ==
  ASSUME NEW chain, Len(chain) \in Nat,
         \A j \in 1 .. Len(chain) : ~Decides(chain[j])
  PROVE  M!Asked(chain) = IF \E j \in 1 .. Len(chain) : chain[j] = "bad" THEN "unusable" ELSE "direct"
  BY DEF M!Asked, Decides

\* Two pieces make up a whole.
LEMMA PutTogether ==
  ASSUME NEW X, NEW s \in Seq(X), NEW t \in Seq(X), NEW u \in Seq(X),
         Len(u) = Len(s) + Len(t),
         \A i \in 1 .. Len(s) : u[i] = s[i],
         \A i \in 1 .. Len(t) : u[Len(s) + i] = t[i]
  PROVE  s \o t = u
  <1>1. /\ s \o t \in Seq(X) /\ Len(s \o t) = Len(s) + Len(t)
        /\ \A i \in 1 .. Len(s) + Len(t) :
               (s \o t)[i] = IF i <= Len(s) THEN s[i] ELSE t[i - Len(s)]
    BY ConcatProperties
  <1>2. ASSUME NEW i \in 1 .. Len(u) PROVE (s \o t)[i] = u[i]
    <2>1. CASE i <= Len(s)
      BY <1>1, <2>1
    <2>2. CASE i > Len(s)
      <3>1. i - Len(s) \in 1 .. Len(t) /\ i = Len(s) + (i - Len(s))
        BY <2>2
      <3> QED BY <1>1, <2>2, <3>1
    <2> QED BY <2>1, <2>2
  <1> QED BY <1>1, <1>2, SeqEqual

\* One and one.
LEMMA Together11 ==
  ASSUME NEW a, NEW b
  PROVE  <<a>> \o <<b>> = <<a, b>>
  <1> DEFINE X == {a, b}
             s == <<a>>
             t == <<b>>
             u == <<a, b>>
  <1>1. s \in Seq(X) /\ t \in Seq(X) /\ u \in Seq(X)
    OBVIOUS
  <1>2. /\ Len(s) = 1 /\ Len(t) = 1 /\ Len(u) = 2
        /\ s[1] = u[1]
        /\ t[1] = u[2]
    OBVIOUS
  <1> HIDE DEF X, s, t, u
  <1>3. \A i \in 1 .. Len(s) : u[i] = s[i]
    BY <1>2
  <1>4. Len(u) = Len(s) + Len(t) /\ \A i \in 1 .. Len(t) : u[Len(s) + i] = t[i]
    BY <1>2
  <1>5. s \o t = u
    BY <1>1, <1>3, <1>4, PutTogether, Zenon
  <1> QED BY <1>5 DEF s, t, u

\* One and two.
LEMMA Together12 ==
  ASSUME NEW a, NEW b, NEW c
  PROVE  <<a>> \o <<b, c>> = <<a, b, c>>
  <1> DEFINE X == {a, b, c}
             s == <<a>>
             t == <<b, c>>
             u == <<a, b, c>>
  <1>1. s \in Seq(X) /\ t \in Seq(X) /\ u \in Seq(X)
    OBVIOUS
  <1>2. /\ Len(s) = 1 /\ Len(t) = 2 /\ Len(u) = 3
        /\ s[1] = u[1]
        /\ t[1] = u[2] /\ t[2] = u[3]
    OBVIOUS
  <1> HIDE DEF X, s, t, u
  <1>3. \A i \in 1 .. Len(s) : u[i] = s[i]
    BY <1>2
  <1>4. Len(u) = Len(s) + Len(t) /\ \A i \in 1 .. Len(t) : u[Len(s) + i] = t[i]
    BY <1>2
  <1>5. s \o t = u
    BY <1>1, <1>3, <1>4, PutTogether, Zenon
  <1> QED BY <1>5 DEF s, t, u

\* One and three.
LEMMA Together13 ==
  ASSUME NEW a, NEW b, NEW c, NEW d
  PROVE  <<a>> \o <<b, c, d>> = <<a, b, c, d>>
  <1> DEFINE X == {a, b, c, d}
             s == <<a>>
             t == <<b, c, d>>
             u == <<a, b, c, d>>
  <1>1. s \in Seq(X) /\ t \in Seq(X) /\ u \in Seq(X)
    OBVIOUS
  <1>2. /\ Len(s) = 1 /\ Len(t) = 3 /\ Len(u) = 4
        /\ s[1] = u[1]
        /\ t[1] = u[2] /\ t[2] = u[3] /\ t[3] = u[4]
    OBVIOUS
  <1> HIDE DEF X, s, t, u
  <1>3. \A i \in 1 .. Len(s) : u[i] = s[i]
    BY <1>2
  <1>4. Len(u) = Len(s) + Len(t) /\ \A i \in 1 .. Len(t) : u[Len(s) + i] = t[i]
    BY <1>2
  <1>5. s \o t = u
    BY <1>1, <1>3, <1>4, PutTogether, Zenon
  <1> QED BY <1>5 DEF s, t, u

\* Three and two.
LEMMA Together32 ==
  ASSUME NEW a, NEW b, NEW c, NEW d, NEW e
  PROVE  <<a, b, c>> \o <<d, e>> = <<a, b, c, d, e>>
  <1> DEFINE X == {a, b, c, d, e}
             s == <<a, b, c>>
             t == <<d, e>>
             u == <<a, b, c, d, e>>
  <1>1. s \in Seq(X) /\ t \in Seq(X) /\ u \in Seq(X)
    OBVIOUS
  <1>2. /\ Len(s) = 3 /\ Len(t) = 2 /\ Len(u) = 5
        /\ s[1] = u[1] /\ s[2] = u[2] /\ s[3] = u[3]
        /\ t[1] = u[4] /\ t[2] = u[5]
    OBVIOUS
  <1> HIDE DEF X, s, t, u
  <1>3. \A i \in 1 .. Len(s) : u[i] = s[i]
    BY <1>2
  <1>4. Len(u) = Len(s) + Len(t) /\ \A i \in 1 .. Len(t) : u[Len(s) + i] = t[i]
    BY <1>2
  <1>5. s \o t = u
    BY <1>1, <1>3, <1>4, PutTogether, Zenon
  <1> QED BY <1>5 DEF s, t, u

\* Three and three.
LEMMA Together33 ==
  ASSUME NEW a, NEW b, NEW c, NEW d, NEW e, NEW f
  PROVE  <<a, b, c>> \o <<d, e, f>> = <<a, b, c, d, e, f>>
  <1> DEFINE X == {a, b, c, d, e, f}
             s == <<a, b, c>>
             t == <<d, e, f>>
             u == <<a, b, c, d, e, f>>
  <1>1. s \in Seq(X) /\ t \in Seq(X) /\ u \in Seq(X)
    OBVIOUS
  <1>2. /\ Len(s) = 3 /\ Len(t) = 3 /\ Len(u) = 6
        /\ s[1] = u[1] /\ s[2] = u[2] /\ s[3] = u[3]
        /\ t[1] = u[4] /\ t[2] = u[5] /\ t[3] = u[6]
    OBVIOUS
  <1> HIDE DEF X, s, t, u
  <1>3. \A i \in 1 .. Len(s) : u[i] = s[i]
    BY <1>2
  <1>4. Len(u) = Len(s) + Len(t) /\ \A i \in 1 .. Len(t) : u[Len(s) + i] = t[i]
    BY <1>2
  <1>5. s \o t = u
    BY <1>1, <1>3, <1>4, PutTogether, Zenon
  <1> QED BY <1>5 DEF s, t, u

\* What one candidate asks for.
LEMMA AskedOf1 ==
  ASSUME NEW a
  PROVE  M!Asked(<<a>>) =
             IF Decides(a) THEN Told(a)
             ELSE IF "bad" \in {a} THEN "unusable" ELSE "direct"
  <1> DEFINE s == <<a>>
  <1>1. Len(s) = 1 /\ s[1] = a
    OBVIOUS
  <1> HIDE DEF s
  <1>2. CASE Decides(a)
    <2>1. \A j \in 1 .. Len(s) : j < 1 => ~Decides(s[j])
      BY <1>1, <1>2
    <2>2. 1 \in 1 .. Len(s) /\ Len(s) \in Nat /\ Decides(s[1])
      BY <1>1, <1>2
    <2>3. M!Asked(s) = Told(s[1])
      BY <2>1, <2>2, AskedIs
    <2> QED BY <1>1, <1>2, <2>3 DEF s
  <1>3. CASE ~Decides(a)
    <2>1. \A j \in 1 .. Len(s) : ~Decides(s[j])
      BY <1>1, <1>3
    <2>2. M!Asked(s) = IF \E j \in 1 .. Len(s) : s[j] = "bad" THEN "unusable" ELSE "direct"
      BY <1>1, <2>1, AskedNone
    <2>3. (\E j \in 1 .. Len(s) : s[j] = "bad") <=> "bad" \in {a}
      BY <1>1
    <2> QED BY <1>3, <2>2, <2>3 DEF s
  <1> QED BY <1>2, <1>3

\* What two candidates ask for.
LEMMA AskedOf2 ==
  ASSUME NEW a, NEW b
  PROVE  M!Asked(<<a, b>>) =
             IF Decides(a) THEN Told(a)
             ELSE IF Decides(b) THEN Told(b)
             ELSE IF "bad" \in {a, b} THEN "unusable" ELSE "direct"
  <1> DEFINE s == <<a, b>>
  <1>1. Len(s) = 2 /\ s[1] = a /\ s[2] = b
    OBVIOUS
  <1> HIDE DEF s
  <1>2. CASE Decides(a)
    <2>1. \A j \in 1 .. Len(s) : j < 1 => ~Decides(s[j])
      BY <1>1, <1>2
    <2>2. 1 \in 1 .. Len(s) /\ Len(s) \in Nat /\ Decides(s[1])
      BY <1>1, <1>2
    <2>3. M!Asked(s) = Told(s[1])
      BY <2>1, <2>2, AskedIs
    <2> QED BY <1>1, <1>2, <2>3 DEF s
  <1>3. CASE ~Decides(a) /\ Decides(b)
    <2>1. \A j \in 1 .. Len(s) : j < 2 => ~Decides(s[j])
      BY <1>1, <1>3
    <2>2. 2 \in 1 .. Len(s) /\ Len(s) \in Nat /\ Decides(s[2])
      BY <1>1, <1>3
    <2>3. M!Asked(s) = Told(s[2])
      BY <2>1, <2>2, AskedIs
    <2> QED BY <1>1, <1>3, <2>3 DEF s
  <1>4. CASE ~Decides(a) /\ ~Decides(b)
    <2>1. \A j \in 1 .. Len(s) : ~Decides(s[j])
      BY <1>1, <1>4
    <2>2. M!Asked(s) = IF \E j \in 1 .. Len(s) : s[j] = "bad" THEN "unusable" ELSE "direct"
      BY <1>1, <2>1, AskedNone
    <2>3. (\E j \in 1 .. Len(s) : s[j] = "bad") <=> "bad" \in {a, b}
      BY <1>1
    <2> QED BY <1>4, <2>2, <2>3 DEF s
  <1> QED BY <1>2, <1>3, <1>4

\* What three candidates ask for.
LEMMA AskedOf3 ==
  ASSUME NEW a, NEW b, NEW c
  PROVE  M!Asked(<<a, b, c>>) =
             IF Decides(a) THEN Told(a)
             ELSE IF Decides(b) THEN Told(b)
             ELSE IF Decides(c) THEN Told(c)
             ELSE IF "bad" \in {a, b, c} THEN "unusable" ELSE "direct"
  <1> DEFINE s == <<a, b, c>>
  <1>1. Len(s) = 3 /\ s[1] = a /\ s[2] = b /\ s[3] = c
    OBVIOUS
  <1> HIDE DEF s
  <1>2. CASE Decides(a)
    <2>1. \A j \in 1 .. Len(s) : j < 1 => ~Decides(s[j])
      BY <1>1, <1>2
    <2>2. 1 \in 1 .. Len(s) /\ Len(s) \in Nat /\ Decides(s[1])
      BY <1>1, <1>2
    <2>3. M!Asked(s) = Told(s[1])
      BY <2>1, <2>2, AskedIs
    <2> QED BY <1>1, <1>2, <2>3 DEF s
  <1>3. CASE ~Decides(a) /\ Decides(b)
    <2>1. \A j \in 1 .. Len(s) : j < 2 => ~Decides(s[j])
      BY <1>1, <1>3
    <2>2. 2 \in 1 .. Len(s) /\ Len(s) \in Nat /\ Decides(s[2])
      BY <1>1, <1>3
    <2>3. M!Asked(s) = Told(s[2])
      BY <2>1, <2>2, AskedIs
    <2> QED BY <1>1, <1>3, <2>3 DEF s
  <1>4. CASE ~Decides(a) /\ ~Decides(b) /\ Decides(c)
    <2>1. \A j \in 1 .. Len(s) : j < 3 => ~Decides(s[j])
      BY <1>1, <1>4
    <2>2. 3 \in 1 .. Len(s) /\ Len(s) \in Nat /\ Decides(s[3])
      BY <1>1, <1>4
    <2>3. M!Asked(s) = Told(s[3])
      BY <2>1, <2>2, AskedIs
    <2> QED BY <1>1, <1>4, <2>3 DEF s
  <1>5. CASE ~Decides(a) /\ ~Decides(b) /\ ~Decides(c)
    <2>1. \A j \in 1 .. Len(s) : ~Decides(s[j])
      BY <1>1, <1>5
    <2>2. M!Asked(s) = IF \E j \in 1 .. Len(s) : s[j] = "bad" THEN "unusable" ELSE "direct"
      BY <1>1, <2>1, AskedNone
    <2>3. (\E j \in 1 .. Len(s) : s[j] = "bad") <=> "bad" \in {a, b, c}
      BY <1>1
    <2> QED BY <1>5, <2>2, <2>3 DEF s
  <1> QED BY <1>2, <1>3, <1>4, <1>5

\* What four candidates ask for.
LEMMA AskedOf4 ==
  ASSUME NEW a, NEW b, NEW c, NEW d
  PROVE  M!Asked(<<a, b, c, d>>) =
             IF Decides(a) THEN Told(a)
             ELSE IF Decides(b) THEN Told(b)
             ELSE IF Decides(c) THEN Told(c)
             ELSE IF Decides(d) THEN Told(d)
             ELSE IF "bad" \in {a, b, c, d} THEN "unusable" ELSE "direct"
  <1> DEFINE s == <<a, b, c, d>>
  <1>1. Len(s) = 4 /\ s[1] = a /\ s[2] = b /\ s[3] = c /\ s[4] = d
    OBVIOUS
  <1> HIDE DEF s
  <1>2. CASE Decides(a)
    <2>1. \A j \in 1 .. Len(s) : j < 1 => ~Decides(s[j])
      BY <1>1, <1>2
    <2>2. 1 \in 1 .. Len(s) /\ Len(s) \in Nat /\ Decides(s[1])
      BY <1>1, <1>2
    <2>3. M!Asked(s) = Told(s[1])
      BY <2>1, <2>2, AskedIs
    <2> QED BY <1>1, <1>2, <2>3 DEF s
  <1>3. CASE ~Decides(a) /\ Decides(b)
    <2>1. \A j \in 1 .. Len(s) : j < 2 => ~Decides(s[j])
      BY <1>1, <1>3
    <2>2. 2 \in 1 .. Len(s) /\ Len(s) \in Nat /\ Decides(s[2])
      BY <1>1, <1>3
    <2>3. M!Asked(s) = Told(s[2])
      BY <2>1, <2>2, AskedIs
    <2> QED BY <1>1, <1>3, <2>3 DEF s
  <1>4. CASE ~Decides(a) /\ ~Decides(b) /\ Decides(c)
    <2>1. \A j \in 1 .. Len(s) : j < 3 => ~Decides(s[j])
      BY <1>1, <1>4
    <2>2. 3 \in 1 .. Len(s) /\ Len(s) \in Nat /\ Decides(s[3])
      BY <1>1, <1>4
    <2>3. M!Asked(s) = Told(s[3])
      BY <2>1, <2>2, AskedIs
    <2> QED BY <1>1, <1>4, <2>3 DEF s
  <1>5. CASE ~Decides(a) /\ ~Decides(b) /\ ~Decides(c) /\ Decides(d)
    <2>1. \A j \in 1 .. Len(s) : j < 4 => ~Decides(s[j])
      BY <1>1, <1>5
    <2>2. 4 \in 1 .. Len(s) /\ Len(s) \in Nat /\ Decides(s[4])
      BY <1>1, <1>5
    <2>3. M!Asked(s) = Told(s[4])
      BY <2>1, <2>2, AskedIs
    <2> QED BY <1>1, <1>5, <2>3 DEF s
  <1>6. CASE ~Decides(a) /\ ~Decides(b) /\ ~Decides(c) /\ ~Decides(d)
    <2>1. \A j \in 1 .. Len(s) : ~Decides(s[j])
      BY <1>1, <1>6
    <2>2. M!Asked(s) = IF \E j \in 1 .. Len(s) : s[j] = "bad" THEN "unusable" ELSE "direct"
      BY <1>1, <2>1, AskedNone
    <2>3. (\E j \in 1 .. Len(s) : s[j] = "bad") <=> "bad" \in {a, b, c, d}
      BY <1>1
    <2> QED BY <1>6, <2>2, <2>3 DEF s
  <1> QED BY <1>2, <1>3, <1>4, <1>5, <1>6

\* What five candidates ask for.
LEMMA AskedOf5 ==
  ASSUME NEW a, NEW b, NEW c, NEW d, NEW e
  PROVE  M!Asked(<<a, b, c, d, e>>) =
             IF Decides(a) THEN Told(a)
             ELSE IF Decides(b) THEN Told(b)
             ELSE IF Decides(c) THEN Told(c)
             ELSE IF Decides(d) THEN Told(d)
             ELSE IF Decides(e) THEN Told(e)
             ELSE IF "bad" \in {a, b, c, d, e} THEN "unusable" ELSE "direct"
  <1> DEFINE s == <<a, b, c, d, e>>
  <1>1. Len(s) = 5 /\ s[1] = a /\ s[2] = b /\ s[3] = c /\ s[4] = d /\ s[5] = e
    OBVIOUS
  <1> HIDE DEF s
  <1>2. CASE Decides(a)
    <2>1. \A j \in 1 .. Len(s) : j < 1 => ~Decides(s[j])
      BY <1>1, <1>2
    <2>2. 1 \in 1 .. Len(s) /\ Len(s) \in Nat /\ Decides(s[1])
      BY <1>1, <1>2
    <2>3. M!Asked(s) = Told(s[1])
      BY <2>1, <2>2, AskedIs
    <2> QED BY <1>1, <1>2, <2>3 DEF s
  <1>3. CASE ~Decides(a) /\ Decides(b)
    <2>1. \A j \in 1 .. Len(s) : j < 2 => ~Decides(s[j])
      BY <1>1, <1>3
    <2>2. 2 \in 1 .. Len(s) /\ Len(s) \in Nat /\ Decides(s[2])
      BY <1>1, <1>3
    <2>3. M!Asked(s) = Told(s[2])
      BY <2>1, <2>2, AskedIs
    <2> QED BY <1>1, <1>3, <2>3 DEF s
  <1>4. CASE ~Decides(a) /\ ~Decides(b) /\ Decides(c)
    <2>1. \A j \in 1 .. Len(s) : j < 3 => ~Decides(s[j])
      BY <1>1, <1>4
    <2>2. 3 \in 1 .. Len(s) /\ Len(s) \in Nat /\ Decides(s[3])
      BY <1>1, <1>4
    <2>3. M!Asked(s) = Told(s[3])
      BY <2>1, <2>2, AskedIs
    <2> QED BY <1>1, <1>4, <2>3 DEF s
  <1>5. CASE ~Decides(a) /\ ~Decides(b) /\ ~Decides(c) /\ Decides(d)
    <2>1. \A j \in 1 .. Len(s) : j < 4 => ~Decides(s[j])
      BY <1>1, <1>5
    <2>2. 4 \in 1 .. Len(s) /\ Len(s) \in Nat /\ Decides(s[4])
      BY <1>1, <1>5
    <2>3. M!Asked(s) = Told(s[4])
      BY <2>1, <2>2, AskedIs
    <2> QED BY <1>1, <1>5, <2>3 DEF s
  <1>6. CASE ~Decides(a) /\ ~Decides(b) /\ ~Decides(c) /\ ~Decides(d) /\ Decides(e)
    <2>1. \A j \in 1 .. Len(s) : j < 5 => ~Decides(s[j])
      BY <1>1, <1>6
    <2>2. 5 \in 1 .. Len(s) /\ Len(s) \in Nat /\ Decides(s[5])
      BY <1>1, <1>6
    <2>3. M!Asked(s) = Told(s[5])
      BY <2>1, <2>2, AskedIs
    <2> QED BY <1>1, <1>6, <2>3 DEF s
  <1>7. CASE ~Decides(a) /\ ~Decides(b) /\ ~Decides(c) /\ ~Decides(d) /\ ~Decides(e)
    <2>1. \A j \in 1 .. Len(s) : ~Decides(s[j])
      BY <1>1, <1>7
    <2>2. M!Asked(s) = IF \E j \in 1 .. Len(s) : s[j] = "bad" THEN "unusable" ELSE "direct"
      BY <1>1, <2>1, AskedNone
    <2>3. (\E j \in 1 .. Len(s) : s[j] = "bad") <=> "bad" \in {a, b, c, d, e}
      BY <1>1
    <2> QED BY <1>7, <2>2, <2>3 DEF s
  <1> QED BY <1>2, <1>3, <1>4, <1>5, <1>6, <1>7

\* What six candidates ask for.
LEMMA AskedOf6 ==
  ASSUME NEW a, NEW b, NEW c, NEW d, NEW e, NEW f
  PROVE  M!Asked(<<a, b, c, d, e, f>>) =
             IF Decides(a) THEN Told(a)
             ELSE IF Decides(b) THEN Told(b)
             ELSE IF Decides(c) THEN Told(c)
             ELSE IF Decides(d) THEN Told(d)
             ELSE IF Decides(e) THEN Told(e)
             ELSE IF Decides(f) THEN Told(f)
             ELSE IF "bad" \in {a, b, c, d, e, f} THEN "unusable" ELSE "direct"
  <1> DEFINE s == <<a, b, c, d, e, f>>
  <1>1. Len(s) = 6 /\ s[1] = a /\ s[2] = b /\ s[3] = c /\ s[4] = d /\ s[5] = e /\ s[6] = f
    OBVIOUS
  <1> HIDE DEF s
  <1>2. CASE Decides(a)
    <2>1. \A j \in 1 .. Len(s) : j < 1 => ~Decides(s[j])
      BY <1>1, <1>2
    <2>2. 1 \in 1 .. Len(s) /\ Len(s) \in Nat /\ Decides(s[1])
      BY <1>1, <1>2
    <2>3. M!Asked(s) = Told(s[1])
      BY <2>1, <2>2, AskedIs
    <2> QED BY <1>1, <1>2, <2>3 DEF s
  <1>3. CASE ~Decides(a) /\ Decides(b)
    <2>1. \A j \in 1 .. Len(s) : j < 2 => ~Decides(s[j])
      BY <1>1, <1>3
    <2>2. 2 \in 1 .. Len(s) /\ Len(s) \in Nat /\ Decides(s[2])
      BY <1>1, <1>3
    <2>3. M!Asked(s) = Told(s[2])
      BY <2>1, <2>2, AskedIs
    <2> QED BY <1>1, <1>3, <2>3 DEF s
  <1>4. CASE ~Decides(a) /\ ~Decides(b) /\ Decides(c)
    <2>1. \A j \in 1 .. Len(s) : j < 3 => ~Decides(s[j])
      BY <1>1, <1>4
    <2>2. 3 \in 1 .. Len(s) /\ Len(s) \in Nat /\ Decides(s[3])
      BY <1>1, <1>4
    <2>3. M!Asked(s) = Told(s[3])
      BY <2>1, <2>2, AskedIs
    <2> QED BY <1>1, <1>4, <2>3 DEF s
  <1>5. CASE ~Decides(a) /\ ~Decides(b) /\ ~Decides(c) /\ Decides(d)
    <2>1. \A j \in 1 .. Len(s) : j < 4 => ~Decides(s[j])
      BY <1>1, <1>5
    <2>2. 4 \in 1 .. Len(s) /\ Len(s) \in Nat /\ Decides(s[4])
      BY <1>1, <1>5
    <2>3. M!Asked(s) = Told(s[4])
      BY <2>1, <2>2, AskedIs
    <2> QED BY <1>1, <1>5, <2>3 DEF s
  <1>6. CASE ~Decides(a) /\ ~Decides(b) /\ ~Decides(c) /\ ~Decides(d) /\ Decides(e)
    <2>1. \A j \in 1 .. Len(s) : j < 5 => ~Decides(s[j])
      BY <1>1, <1>6
    <2>2. 5 \in 1 .. Len(s) /\ Len(s) \in Nat /\ Decides(s[5])
      BY <1>1, <1>6
    <2>3. M!Asked(s) = Told(s[5])
      BY <2>1, <2>2, AskedIs
    <2> QED BY <1>1, <1>6, <2>3 DEF s
  <1>7. CASE ~Decides(a) /\ ~Decides(b) /\ ~Decides(c) /\ ~Decides(d) /\ ~Decides(e) /\ Decides(f)
    <2>1. \A j \in 1 .. Len(s) : j < 6 => ~Decides(s[j])
      BY <1>1, <1>7
    <2>2. 6 \in 1 .. Len(s) /\ Len(s) \in Nat /\ Decides(s[6])
      BY <1>1, <1>7
    <2>3. M!Asked(s) = Told(s[6])
      BY <2>1, <2>2, AskedIs
    <2> QED BY <1>1, <1>7, <2>3 DEF s
  <1>8. CASE ~Decides(a) /\ ~Decides(b) /\ ~Decides(c) /\ ~Decides(d) /\ ~Decides(e) /\ ~Decides(f)
    <2>1. \A j \in 1 .. Len(s) : ~Decides(s[j])
      BY <1>1, <1>8
    <2>2. M!Asked(s) = IF \E j \in 1 .. Len(s) : s[j] = "bad" THEN "unusable" ELSE "direct"
      BY <1>1, <2>1, AskedNone
    <2>3. (\E j \in 1 .. Len(s) : s[j] = "bad") <=> "bad" \in {a, b, c, d, e, f}
      BY <1>1
    <2> QED BY <1>8, <2>2, <2>3 DEF s
  <1> QED BY <1>2, <1>3, <1>4, <1>5, <1>6, <1>7, <1>8

\* What an entry of a mode comes to.
Out(e) == IF e \in {"off", "none"} THEN "direct" ELSE IF e = "lost" THEN "unusable" ELSE e
Unless(e) == IF e = "off" THEN "none" ELSE e

\* The first answer of two entries.
LEMMA FirstOf2 ==
  ASSUME NEW a, NEW b
  PROVE  M!FirstAnswer(<<a, b>>) =
             IF a \notin NoAnswer THEN a
             ELSE IF b \notin NoAnswer THEN b
             ELSE IF "lost" \in {a, b} THEN "lost" ELSE "none"
  <1> DEFINE s == <<a, b>>
  <1>1. Len(s) = 2 /\ s[1] = a /\ s[2] = b
    OBVIOUS
  <1> HIDE DEF s
  <1>2. CASE a \notin NoAnswer
    <2>1. \A j \in 1 .. Len(s) : j < 1 => s[j] \in NoAnswer
      BY <1>1, <1>2
    <2>2. 1 \in 1 .. Len(s) /\ Len(s) \in Nat /\ s[1] \notin NoAnswer
      BY <1>1, <1>2
    <2>3. M!FirstAnswer(s) = s[1]
      BY <2>1, <2>2, FirstAnswerIs
    <2> QED BY <1>1, <1>2, <2>3 DEF s
  <1>3. CASE a \in NoAnswer /\ b \notin NoAnswer
    <2>1. \A j \in 1 .. Len(s) : j < 2 => s[j] \in NoAnswer
      BY <1>1, <1>3
    <2>2. 2 \in 1 .. Len(s) /\ Len(s) \in Nat /\ s[2] \notin NoAnswer
      BY <1>1, <1>3
    <2>3. M!FirstAnswer(s) = s[2]
      BY <2>1, <2>2, FirstAnswerIs
    <2> QED BY <1>1, <1>3, <2>3 DEF s
  <1>4. CASE a \in NoAnswer /\ b \in NoAnswer
    <2>1. \A j \in 1 .. Len(s) : s[j] \in NoAnswer
      BY <1>1, <1>4
    <2>2. M!FirstAnswer(s) = IF \E j \in 1 .. Len(s) : s[j] = "lost" THEN "lost" ELSE "none"
      BY <1>1, <2>1, FirstAnswerNone
    <2>3. (\E j \in 1 .. Len(s) : s[j] = "lost") <=> "lost" \in {a, b}
      BY <1>1
    <2> QED BY <1>4, <2>2, <2>3 DEF s
  <1> QED BY <1>2, <1>3, <1>4

\* The first answer of four entries.
LEMMA FirstOf4 ==
  ASSUME NEW a, NEW b, NEW c, NEW d
  PROVE  M!FirstAnswer(<<a, b, c, d>>) =
             IF a \notin NoAnswer THEN a
             ELSE IF b \notin NoAnswer THEN b
             ELSE IF c \notin NoAnswer THEN c
             ELSE IF d \notin NoAnswer THEN d
             ELSE IF "lost" \in {a, b, c, d} THEN "lost" ELSE "none"
  <1> DEFINE s == <<a, b, c, d>>
  <1>1. Len(s) = 4 /\ s[1] = a /\ s[2] = b /\ s[3] = c /\ s[4] = d
    OBVIOUS
  <1> HIDE DEF s
  <1>2. CASE a \notin NoAnswer
    <2>1. \A j \in 1 .. Len(s) : j < 1 => s[j] \in NoAnswer
      BY <1>1, <1>2
    <2>2. 1 \in 1 .. Len(s) /\ Len(s) \in Nat /\ s[1] \notin NoAnswer
      BY <1>1, <1>2
    <2>3. M!FirstAnswer(s) = s[1]
      BY <2>1, <2>2, FirstAnswerIs
    <2> QED BY <1>1, <1>2, <2>3 DEF s
  <1>3. CASE a \in NoAnswer /\ b \notin NoAnswer
    <2>1. \A j \in 1 .. Len(s) : j < 2 => s[j] \in NoAnswer
      BY <1>1, <1>3
    <2>2. 2 \in 1 .. Len(s) /\ Len(s) \in Nat /\ s[2] \notin NoAnswer
      BY <1>1, <1>3
    <2>3. M!FirstAnswer(s) = s[2]
      BY <2>1, <2>2, FirstAnswerIs
    <2> QED BY <1>1, <1>3, <2>3 DEF s
  <1>4. CASE a \in NoAnswer /\ b \in NoAnswer /\ c \notin NoAnswer
    <2>1. \A j \in 1 .. Len(s) : j < 3 => s[j] \in NoAnswer
      BY <1>1, <1>4
    <2>2. 3 \in 1 .. Len(s) /\ Len(s) \in Nat /\ s[3] \notin NoAnswer
      BY <1>1, <1>4
    <2>3. M!FirstAnswer(s) = s[3]
      BY <2>1, <2>2, FirstAnswerIs
    <2> QED BY <1>1, <1>4, <2>3 DEF s
  <1>5. CASE a \in NoAnswer /\ b \in NoAnswer /\ c \in NoAnswer /\ d \notin NoAnswer
    <2>1. \A j \in 1 .. Len(s) : j < 4 => s[j] \in NoAnswer
      BY <1>1, <1>5
    <2>2. 4 \in 1 .. Len(s) /\ Len(s) \in Nat /\ s[4] \notin NoAnswer
      BY <1>1, <1>5
    <2>3. M!FirstAnswer(s) = s[4]
      BY <2>1, <2>2, FirstAnswerIs
    <2> QED BY <1>1, <1>5, <2>3 DEF s
  <1>6. CASE a \in NoAnswer /\ b \in NoAnswer /\ c \in NoAnswer /\ d \in NoAnswer
    <2>1. \A j \in 1 .. Len(s) : s[j] \in NoAnswer
      BY <1>1, <1>6
    <2>2. M!FirstAnswer(s) = IF \E j \in 1 .. Len(s) : s[j] = "lost" THEN "lost" ELSE "none"
      BY <1>1, <2>1, FirstAnswerNone
    <2>3. (\E j \in 1 .. Len(s) : s[j] = "lost") <=> "lost" \in {a, b, c, d}
      BY <1>1
    <2> QED BY <1>6, <2>2, <2>3 DEF s
  <1> QED BY <1>2, <1>3, <1>4, <1>5, <1>6

\* What one entry, then another, comes to.
Outcome2(a, b) ==
    IF a \notin NoAnswer THEN Out(a) ELSE IF b \notin NoAnswer THEN Out(b)
    ELSE IF "lost" \in {a, b} THEN "unusable" ELSE "direct"

Outcome4(a, b, c, d) ==
    IF a \notin NoAnswer THEN Out(a) ELSE IF b \notin NoAnswer THEN Out(b)
    ELSE IF c \notin NoAnswer THEN Out(c) ELSE IF d \notin NoAnswer THEN Out(d)
    ELSE IF "lost" \in {a, b, c, d} THEN "unusable" ELSE "direct"

\* Each request under entries, from the slots that decide it.
Slotted(e, r) ==
    IF r = "ws" THEN Outcome4(Unless(e["socks"]), Unless(e["https"]), Unless(e["http"]), e["all"])
    ELSE IF r \in M!Schemes THEN Outcome2(e[r], e["all"]) ELSE Outcome2(e["all"], e["all"])

\* A manual mode is resolved by its slots.
LEMMA ManualIsSlotted ==
  ASSUME NEW entries, NEW dropped, NEW r
  PROVE  M!resolve_mode(M!Manual(entries, dropped), r) = Slotted(M!Filed(entries, dropped), r)
  <1> DEFINE mode == M!Manual(entries, dropped)
             e == M!Filed(entries, dropped)
  <1>1. mode.kind = "manual" /\ mode.entries = e
    BY DEF M!Manual
  <1>2. M!resolve_mode(mode, r) = M!Routed(mode, r)
    BY <1>1 DEF M!resolve_mode
  <1> HIDE DEF mode, e
  <1>3. M!Routed(mode, r) = Out(IF r = "ws" THEN M!WebsocketEntry(e)
                 ELSE M!EntryFor(e, M!request_scheme(r)))
    BY <1>1 DEF M!Routed, Out
  <1>4. M!WebsocketEntry(e) = M!FirstAnswer(<<Unless(e["socks"]), Unless(e["https"]), Unless(e["http"]), e["all"]>>)
    BY DEF M!WebsocketEntry, Unless
  <1>5. Out(M!WebsocketEntry(e)) = Outcome4(Unless(e["socks"]), Unless(e["https"]), Unless(e["http"]), e["all"])
    BY <1>4, FirstOf4 DEF Outcome4, Out, NoAnswer
  <1>6. \A s : Out(M!EntryFor(e, s)) = Outcome2(e[s], e["all"])
    <2> TAKE s
    <2>1. M!EntryFor(e, s) = M!FirstAnswer(<<e[s], e["all"]>>)
      BY DEF M!EntryFor
    <2> QED BY <2>1, FirstOf2 DEF Outcome2, Out, NoAnswer
  <1>7. M!request_scheme(r) = IF r \in M!Schemes THEN r ELSE "all"
    BY DEF M!request_scheme
  <1>8. M!resolve_mode(mode, r) = Slotted(e, r)
    <2>1. "ws" \notin M!Schemes
      BY DEF M!Schemes
    <2>2. CASE r = "ws"
      BY <1>2, <1>3, <1>5, <2>2 DEF Slotted
    <2>3. CASE r # "ws" /\ r \in M!Schemes
      BY <1>2, <1>3, <1>6, <1>7, <2>3 DEF Slotted
    <2>4. CASE r # "ws" /\ r \notin M!Schemes
      BY <1>2, <1>3, <1>6, <1>7, <2>4 DEF Slotted
    <2> QED BY <2>2, <2>3, <2>4
  <1> QED BY <1>8 DEF mode, e

\* The other modes.
LEMMA OtherModes ==
  ASSUME NEW r
  PROVE  /\ M!resolve_mode(M!Direct, r) = "direct"
         /\ M!resolve_mode(M!Wpad, r) = "script"
         /\ M!resolve_mode(M!Pac, r) = "script"
         /\ M!resolve_mode(M!PacInline, r) = "script"
         /\ M!resolve_mode(M!Fails, r) = "fails"
  BY DEF M!resolve_mode, M!Direct, M!Wpad, M!Pac, M!PacInline, M!Fails

\* An entry of a manual mode is lost if it was dropped and nothing took its place.
LEMMA FiledIs ==
  ASSUME NEW entries, NEW dropped, NEW s \in M!Schemes
  PROVE  M!Filed(entries, dropped)[s] =
             IF entries[s] = "none" /\ s \in dropped THEN "lost" ELSE entries[s]
  BY DEF M!Filed

\* The readers share these.
LEMMA SharedL ==
  /\ \A m, r : L!resolve_mode(m, r) = M!resolve_mode(m, r)
  /\ \A c : L!Asked(c) = M!Asked(c) /\ L!Skipped(c) = M!Skipped(c)
  /\ \A e, d : L!Manual(e, d) = M!Manual(e, d)
  /\ L!Direct = M!Direct /\ L!Wpad = M!Wpad /\ L!Pac = M!Pac
  /\ L!Fails = M!Fails /\ L!PacInline = M!PacInline
  /\ L!Schemes = M!Schemes /\ L!NoEntries = M!NoEntries
  <1>1. \A c : L!FirstAnswer(c) = M!FirstAnswer(c)
    BY DEF L!FirstAnswer, M!FirstAnswer, L!SelectInSeq, M!SelectInSeq, L!Contains,
       M!Contains, L!Min, M!Min
  <1>2. \A m, r : L!Routed(m, r) = M!Routed(m, r)
    BY <1>1 DEF L!Routed, M!Routed, L!WebsocketEntry, M!WebsocketEntry, L!EntryFor,
       M!EntryFor, L!request_scheme, M!request_scheme, L!Schemes, M!Schemes
  <1>3. \A m, r : L!resolve_mode(m, r) = M!resolve_mode(m, r)
    BY <1>2 DEF L!resolve_mode, M!resolve_mode
  <1>4. \A c : L!Asked(c) = M!Asked(c)
    BY DEF L!Asked, M!Asked
  <1>5. \A c : L!Skipped(c) = M!Skipped(c)
    BY DEF L!Skipped, M!Skipped
  <1>6. \A e, d : L!Manual(e, d) = M!Manual(e, d)
    BY DEF L!Manual, M!Manual, L!Filed, M!Filed, L!Schemes, M!Schemes
  <1>7. /\ L!Direct = M!Direct /\ L!Wpad = M!Wpad /\ L!Pac = M!Pac
        /\ L!Fails = M!Fails /\ L!PacInline = M!PacInline
        /\ L!Schemes = M!Schemes /\ L!NoEntries = M!NoEntries
    BY DEF L!Direct, M!Direct, L!Wpad, M!Wpad, L!Pac, M!Pac, L!Fails, M!Fails,
       L!PacInline, M!PacInline, L!Schemes, M!Schemes, L!NoEntries, M!NoEntries
  <1> QED BY <1>3, <1>4, <1>5, <1>6, <1>7

\* So do the readers of Windows.
LEMMA SharedW ==
  /\ \A m, r : W!resolve_mode(m, r) = M!resolve_mode(m, r)
  /\ \A c : W!Asked(c) = M!Asked(c) /\ W!Skipped(c) = M!Skipped(c)
  /\ \A e, d : W!Manual(e, d) = M!Manual(e, d)
  /\ W!Direct = M!Direct /\ W!Wpad = M!Wpad /\ W!Pac = M!Pac
  /\ W!Fails = M!Fails /\ W!PacInline = M!PacInline
  /\ W!Schemes = M!Schemes /\ W!NoEntries = M!NoEntries
  <1>1. \A c : W!FirstAnswer(c) = M!FirstAnswer(c)
    BY DEF W!FirstAnswer, M!FirstAnswer, W!SelectInSeq, M!SelectInSeq, W!Contains,
       M!Contains, W!Min, M!Min
  <1>2. \A m, r : W!Routed(m, r) = M!Routed(m, r)
    BY <1>1 DEF W!Routed, M!Routed, W!WebsocketEntry, M!WebsocketEntry, W!EntryFor,
       M!EntryFor, W!request_scheme, M!request_scheme, W!Schemes, M!Schemes
  <1>3. \A m, r : W!resolve_mode(m, r) = M!resolve_mode(m, r)
    BY <1>2 DEF W!resolve_mode, M!resolve_mode
  <1>4. \A c : W!Asked(c) = M!Asked(c)
    BY DEF W!Asked, M!Asked
  <1>5. \A c : W!Skipped(c) = M!Skipped(c)
    BY DEF W!Skipped, M!Skipped
  <1>6. \A e, d : W!Manual(e, d) = M!Manual(e, d)
    BY DEF W!Manual, M!Manual, W!Filed, M!Filed, W!Schemes, M!Schemes
  <1>7. /\ W!Direct = M!Direct /\ W!Wpad = M!Wpad /\ W!Pac = M!Pac
        /\ W!Fails = M!Fails /\ W!PacInline = M!PacInline
        /\ W!Schemes = M!Schemes /\ W!NoEntries = M!NoEntries
    BY DEF W!Direct, M!Direct, W!Wpad, M!Wpad, W!Pac, M!Pac, W!Fails, M!Fails,
       W!PacInline, M!PacInline, W!Schemes, M!Schemes, W!NoEntries, M!NoEntries
  <1> QED BY <1>3, <1>4, <1>5, <1>6, <1>7

\* So do the readers of Apple.
LEMMA SharedA ==
  /\ \A m, r : A!resolve_mode(m, r) = M!resolve_mode(m, r)
  /\ \A c : A!Asked(c) = M!Asked(c) /\ A!Skipped(c) = M!Skipped(c)
  /\ \A e, d : A!Manual(e, d) = M!Manual(e, d)
  /\ A!Direct = M!Direct /\ A!Wpad = M!Wpad /\ A!Pac = M!Pac
  /\ A!Fails = M!Fails /\ A!PacInline = M!PacInline
  /\ A!Schemes = M!Schemes /\ A!NoEntries = M!NoEntries
  <1>1. \A c : A!FirstAnswer(c) = M!FirstAnswer(c)
    BY DEF A!FirstAnswer, M!FirstAnswer, A!SelectInSeq, M!SelectInSeq, A!Contains,
       M!Contains, A!Min, M!Min
  <1>2. \A m, r : A!Routed(m, r) = M!Routed(m, r)
    BY <1>1 DEF A!Routed, M!Routed, A!WebsocketEntry, M!WebsocketEntry, A!EntryFor,
       M!EntryFor, A!request_scheme, M!request_scheme, A!Schemes, M!Schemes
  <1>3. \A m, r : A!resolve_mode(m, r) = M!resolve_mode(m, r)
    BY <1>2 DEF A!resolve_mode, M!resolve_mode
  <1>4. \A c : A!Asked(c) = M!Asked(c)
    BY DEF A!Asked, M!Asked
  <1>5. \A c : A!Skipped(c) = M!Skipped(c)
    BY DEF A!Skipped, M!Skipped
  <1>6. \A e, d : A!Manual(e, d) = M!Manual(e, d)
    BY DEF A!Manual, M!Manual, A!Filed, M!Filed, A!Schemes, M!Schemes
  <1>7. /\ A!Direct = M!Direct /\ A!Wpad = M!Wpad /\ A!Pac = M!Pac
        /\ A!Fails = M!Fails /\ A!PacInline = M!PacInline
        /\ A!Schemes = M!Schemes /\ A!NoEntries = M!NoEntries
    BY DEF A!Direct, M!Direct, A!Wpad, M!Wpad, A!Pac, M!Pac, A!Fails, M!Fails,
       A!PacInline, M!PacInline, A!Schemes, M!Schemes, A!NoEntries, M!NoEntries
  <1> QED BY <1>3, <1>4, <1>5, <1>6, <1>7

\* So do the readers of Android.
LEMMA SharedN ==
  /\ \A m, r : N!resolve_mode(m, r) = M!resolve_mode(m, r)
  /\ \A c : N!Asked(c) = M!Asked(c) /\ N!Skipped(c) = M!Skipped(c)
  /\ \A e, d : N!Manual(e, d) = M!Manual(e, d)
  /\ N!Direct = M!Direct /\ N!Wpad = M!Wpad /\ N!Pac = M!Pac
  /\ N!Fails = M!Fails /\ N!PacInline = M!PacInline
  /\ N!Schemes = M!Schemes /\ N!NoEntries = M!NoEntries
  <1>1. \A c : N!FirstAnswer(c) = M!FirstAnswer(c)
    BY DEF N!FirstAnswer, M!FirstAnswer, N!SelectInSeq, M!SelectInSeq, N!Contains,
       M!Contains, N!Min, M!Min
  <1>2. \A m, r : N!Routed(m, r) = M!Routed(m, r)
    BY <1>1 DEF N!Routed, M!Routed, N!WebsocketEntry, M!WebsocketEntry, N!EntryFor,
       M!EntryFor, N!request_scheme, M!request_scheme, N!Schemes, M!Schemes
  <1>3. \A m, r : N!resolve_mode(m, r) = M!resolve_mode(m, r)
    BY <1>2 DEF N!resolve_mode, M!resolve_mode
  <1>4. \A c : N!Asked(c) = M!Asked(c)
    BY DEF N!Asked, M!Asked
  <1>5. \A c : N!Skipped(c) = M!Skipped(c)
    BY DEF N!Skipped, M!Skipped
  <1>6. \A e, d : N!Manual(e, d) = M!Manual(e, d)
    BY DEF N!Manual, M!Manual, N!Filed, M!Filed, N!Schemes, M!Schemes
  <1>7. /\ N!Direct = M!Direct /\ N!Wpad = M!Wpad /\ N!Pac = M!Pac
        /\ N!Fails = M!Fails /\ N!PacInline = M!PacInline
        /\ N!Schemes = M!Schemes /\ N!NoEntries = M!NoEntries
    BY DEF N!Direct, M!Direct, N!Wpad, M!Wpad, N!Pac, M!Pac, N!Fails, M!Fails,
       N!PacInline, M!PacInline, N!Schemes, M!Schemes, N!NoEntries, M!NoEntries
  <1> QED BY <1>3, <1>4, <1>5, <1>6, <1>7
-----------------------------------------------------------------------------
(* What each store says of a request.                                      *)

\* The network's proxy gets a request what its ProxyInfo asks for.
LEMMA AndroidIsObeyed ==
  ASSUME NEW info \in N!ProxyInfos, NEW r \in Requests
  PROVE  N!resolve_mode(N!mode_from_proxy_info(info), r) = N!AndroidAsks(info, r)
<1> DEFINE named == IF N!Reachable(info) THEN "host" ELSE "bad"
           entries == [s \in M!Schemes |-> IF s \in {"http", "https"} /\ N!Reachable(info)
                                           THEN "host" ELSE "none"]
           dropped == IF N!Reachable(info) THEN {} ELSE {"http", "https"}
           e == M!Filed(entries, dropped)
<1>1. M!Asked(<<named>>) = IF named = "host" THEN "host" ELSE "unusable"
  BY AskedOf1 DEF Decides, Told
<1>2. /\ e["http"] = IF N!Reachable(info) THEN "host" ELSE "lost"
      /\ e["https"] = IF N!Reachable(info) THEN "host" ELSE "lost"
      /\ e["ftp"] = "none" /\ e["socks"] = "none" /\ e["all"] = "none"
  BY FiledIs DEF M!Schemes
<1>3. Slotted(e, r) = IF r \notin {"http", "https", "ws"} THEN "direct" ELSE M!Asked(<<named>>)
  <2> HIDE DEF e, entries, dropped
  <2>1. r \in {"http", "https", "ftp", "socks", "ws", "other"}
    BY DEF Requests, L!Requests
  <2> QED
    BY <1>1, <1>2, <2>1 DEF Slotted, Outcome2, Outcome4, Unless, Out, NoAnswer, M!Schemes
<1>4. M!resolve_mode(M!Manual(entries, dropped), r) = Slotted(e, r)
  BY ManualIsSlotted
<1>5. N!mode_from_proxy_info(info) =
          IF ~info.known THEN M!Direct
          ELSE IF info.pac_url = "good" THEN M!Pac
          ELSE IF info.pac_url = "bad" THEN M!Fails
          ELSE IF info.host = "blank" THEN M!Direct
          ELSE M!Manual(entries, dropped)
  BY SharedN DEF N!mode_from_proxy_info
<1>6. /\ info.known \in BOOLEAN /\ info.pac_url \in {"blank", "good", "bad"}
      /\ info.host \in {"blank", "good", "bad"}
  BY DEF N!ProxyInfos
<1> HIDE DEF e, entries, dropped
<1>7. M!resolve_mode(N!mode_from_proxy_info(info), r) =
          CASE info.known /\ info.pac_url = "good" -> "script"
            [] info.known /\ info.pac_url = "bad" -> "fails"
            [] ~info.known \/ (info.pac_url = "blank" /\ info.host = "blank") -> "direct"
            [] info.known /\ info.pac_url = "blank" /\ info.host # "blank" ->
                  IF r \notin {"http", "https", "ws"} THEN "direct"
                  ELSE N!Asked(<<named>>)
  BY <1>3, <1>4, <1>5, <1>6, OtherModes, SharedN
<1> QED
  BY <1>7, SharedN DEF N!AndroidAsks

\* Entries that are all nothing or off send every request direct.
LEMMA NothingGoesDirect ==
  ASSUME NEW e, NEW r, \A s \in M!Schemes : e[s] \in {"none", "off"}
  PROVE  Slotted(e, r) = "direct"
  BY DEF Slotted, Outcome2, Outcome4, Unless, Out, NoAnswer, M!Schemes

\* The children of the schema, each with the slot it fills.
LEMMA GnomeManualIsObeyed ==
  ASSUME NEW keys \in L!GnomeSettings, NEW r \in Requests, keys.mode = "manual"
  PROVE  M!resolve_mode(L!GnomeManual(keys), r) = L!GnomeAsks(keys, r)
<1> DEFINE named(s) == L!GnomeNames(keys, s)
           spare == IF keys.same THEN <<named("http"), named("socks")>>
                    ELSE <<named("socks")>>
           entries == [s \in M!Schemes |->
                          IF s = "all" THEN L!GnomeCatchAll(keys) ELSE L!GnomeSlot(keys, s)]
           dropped == L!GnomeDropped(keys)
           e == M!Filed(entries, dropped)
<1>1. /\ keys.host \in [{"http", "https", "ftp", "socks"} -> {"blank", "proxy", "bad"}]
      /\ keys.same \in BOOLEAN
  BY DEF L!GnomeSettings, L!Slots, L!Values
<1>2. L!GnomeManual(keys) =
          IF dropped = {} /\ \A s \in M!Schemes : entries[s] \in {"none", "off"}
          THEN M!Direct ELSE M!Manual(entries, dropped)
  BY SharedL DEF L!GnomeManual
<1>3. M!resolve_mode(L!GnomeManual(keys), r) = Slotted(e, r)
  <2>1. CASE dropped = {} /\ \A s \in M!Schemes : entries[s] \in {"none", "off"}
    <3>1. \A s \in M!Schemes : e[s] = entries[s]
      BY <2>1, FiledIs
    <3>2. Slotted(e, r) = "direct"
      BY <2>1, <3>1, NothingGoesDirect
    <3> QED
      BY <1>2, <2>1, <3>2, OtherModes
  <2> QED
    BY <1>2, <2>1, ManualIsSlotted
<1>4. r \in {"http", "https", "ftp", "socks", "ws", "other"}
  BY DEF Requests, L!Requests
<1>5. L!GnomeAsks(keys, r) =
          CASE r = "https" ->
                  M!Asked(IF L!Inherits(keys) THEN <<named("http")>> \o spare
                          ELSE <<named("https")>> \o spare)
            [] r \in {"http", "ftp", "socks"} -> M!Asked(<<named(r)>> \o spare)
            [] r = "ws" -> M!Asked(<<named("socks"), named("https"), named("http")>>)
            [] r = "other" -> M!Asked(spare)
  <2>1. \A c : L!Asked(c) = M!Asked(c)
    BY SharedL
  <2>2. CASE r = "https"
    BY <2>1, <2>2 DEF L!GnomeAsks
  <2>3. CASE r \in {"http", "ftp", "socks"}
    BY <2>1, <2>3 DEF L!GnomeAsks
  <2>4. CASE r = "ws"
    BY <2>1, <2>4 DEF L!GnomeAsks
  <2>5. CASE r = "other"
    BY <2>1, <2>5 DEF L!GnomeAsks
  <2> QED
    BY <1>4, <2>2, <2>3, <2>4, <2>5
<1>6. \A s \in M!Schemes :
          e[s] = IF entries[s] = "none" /\ s \in dropped THEN "lost" ELSE entries[s]
  BY FiledIs
<1>7. \A s \in M!Schemes :
          (s \in dropped) <=>
             \/ s = "all" /\ (keys.host["socks"] = "bad" \/ (keys.same /\ keys.host["http"] = "bad"))
             \/ s = "http" /\ ~keys.same /\ keys.host["http"] = "bad"
             \/ s \in {"https", "ftp"} /\ keys.host[s] = "bad"
             \/ s = "https" /\ L!Inherits(keys) /\ keys.host["http"] = "bad"
  BY <1>1 DEF L!GnomeDropped, L!Attributed, L!Slots, M!Schemes
<1>8. CASE keys.same
  <2>1. ~L!Inherits(keys)
    BY <1>8 DEF L!Inherits
  <2>2. /\ e["all"] = CASE keys.host["http"] = "proxy" -> "http"
                        [] keys.host["http"] # "proxy" /\ keys.host["socks"] = "proxy" -> "socks"
                        [] keys.host["http"] # "proxy" /\ keys.host["socks"] # "proxy" ->
                             IF "bad" \in {keys.host["socks"], keys.host["http"]}
                             THEN "lost" ELSE "none"
        /\ e["http"] = "none"
        /\ \A s \in {"https", "ftp"} :
             e[s] = CASE keys.host[s] = "proxy" -> s
                      [] keys.host[s] = "bad" -> "lost"
                      [] keys.host[s] = "blank" -> "none"
        /\ e["socks"] = IF keys.host["socks"] = "proxy" THEN "socks" ELSE "none"
    BY <1>1, <1>6, <1>7, <1>8, <2>1
       DEF L!GnomeCatchAll, L!GnomeSlot, L!Endpoint, M!Schemes
  <2>3. spare = <<named("http"), named("socks")>>
    BY <1>8
  <2> HIDE DEF e, entries, dropped, named, spare
  <2>4. \A s \in {"http", "https", "ftp", "socks"} :
            named(s) = CASE keys.host[s] = "proxy" -> s
                         [] keys.host[s] = "bad" -> "bad"
                         [] keys.host[s] = "blank" -> "unset"
    BY DEF named, L!GnomeNames
  <2>5. \A s : <<named(s)>> \o spare = <<named(s), named("http"), named("socks")>>
    BY <2>3, Together12, Zenon
  <2>6. L!GnomeAsks(keys, r) =
          CASE r \in {"https", "http", "ftp", "socks"} ->
                  M!Asked(<<named(r), named("http"), named("socks")>>)
            [] r = "ws" -> M!Asked(<<named("socks"), named("https"), named("http")>>)
            [] r = "other" -> M!Asked(<<named("http"), named("socks")>>)
    BY <1>4, <1>5, <2>1, <2>3, <2>5
  <2> QED
    BY <1>1, <1>3, <1>4, <2>2, <2>4, <2>6, AskedOf2, AskedOf3
       DEF Slotted, Outcome2, Outcome4, Unless, Out, NoAnswer, M!Schemes, Decides, Told
<1>9. CASE ~keys.same
  <2> DEFINE own == IF L!Inherits(keys) THEN "http" ELSE "https"
  <2>1. L!Inherits(keys) <=> keys.host["https"] = "blank"
    BY <1>9 DEF L!Inherits
  <2>2. /\ e["all"] = CASE keys.host["socks"] = "proxy" -> "socks"
                        [] keys.host["socks"] = "bad" -> "lost"
                        [] keys.host["socks"] = "blank" -> "none"
        /\ e["https"] = CASE keys.host[own] = "proxy" -> own
                          [] keys.host[own] = "bad" -> "lost"
                          [] keys.host[own] = "blank" ->
                                IF keys.host["socks"] = "blank" THEN "off" ELSE "none"
        /\ \A s \in {"http", "ftp"} :
             e[s] = CASE keys.host[s] = "proxy" -> s
                      [] keys.host[s] = "bad" -> "lost"
                      [] keys.host[s] = "blank" ->
                            IF keys.host["socks"] = "blank" THEN "off" ELSE "none"
        /\ e["socks"] = CASE keys.host["socks"] = "proxy" -> "socks"
                          [] keys.host["socks"] = "bad" -> "none"
                          [] keys.host["socks"] = "blank" -> "off"
    BY <1>1, <1>6, <1>7, <1>9, <2>1
       DEF L!GnomeCatchAll, L!GnomeSlot, L!Endpoint, M!Schemes
  <2>3. spare = <<named("socks")>>
    BY <1>9
  <2> HIDE DEF e, entries, dropped, named, spare
  <2>4. \A s \in {"http", "https", "ftp", "socks"} :
            named(s) = CASE keys.host[s] = "proxy" -> s
                         [] keys.host[s] = "bad" -> "bad"
                         [] keys.host[s] = "blank" -> "unset"
    BY DEF named, L!GnomeNames
  <2>5. \A s : <<named(s)>> \o spare = <<named(s), named("socks")>>
    BY <2>3, Together11, Zenon
  <2>6. L!GnomeAsks(keys, r) =
          CASE r = "https" -> M!Asked(<<named(own), named("socks")>>)
            [] r \in {"http", "ftp", "socks"} -> M!Asked(<<named(r), named("socks")>>)
            [] r = "ws" -> M!Asked(<<named("socks"), named("https"), named("http")>>)
            [] r = "other" -> M!Asked(<<named("socks")>>)
    BY <1>4, <1>5, <2>3, <2>5
  <2> QED
    BY <1>1, <1>3, <1>4, <2>1, <2>2, <2>4, <2>6, AskedOf1, AskedOf2, AskedOf3
       DEF Slotted, Outcome2, Outcome4, Unless, Out, NoAnswer, M!Schemes, Decides, Told
<1> QED
  BY <1>8, <1>9

\* GSettings gets a request what its keys ask for.
LEMMA GnomeIsObeyed ==
  ASSUME NEW keys \in L!GnomeSettings, NEW r \in Requests
  PROVE  L!resolve_mode(L!mode_from_settings(keys), r) = L!GnomeAsks(keys, r)
<1>1. keys.mode \in {"none", "auto", "manual"} /\ keys.url \in {"blank", "proxy", "bad"}
  BY DEF L!GnomeSettings
<1>2. CASE keys.mode = "manual"
  BY <1>2, GnomeManualIsObeyed, SharedL DEF L!mode_from_settings
<1>3. CASE keys.mode # "manual"
  BY <1>1, <1>3, OtherModes, SharedL DEF L!mode_from_settings, L!GnomeAsks
<1> QED
  BY <1>2, <1>3

\* The variables, each with the slot it fills.
LEMMA EnvModeIsObeyed ==
  ASSUME NEW vs, NEW r \in Requests,
         NEW set \in [{"http", "https", "ftp", "all"} -> {"blank", "proxy", "bad", "unset"}],
         \A s \in {"http", "https", "ftp", "all"} :
             L!EnvNames(vs, s) = CASE set[s] = "proxy" -> s
                                   [] set[s] = "blank" -> "off"
                                   [] set[s] \in {"bad", "unset"} -> set[s],
         ~(vs.cgi /\ (vs.lower["http"] # "unset" \/ vs.upper["http"] # "unset"))
  PROVE  M!resolve_mode(L!EnvMode(set), r) = L!EnvAsks(vs, r)
<1> DEFINE named(s) == L!EnvNames(vs, s)
           slots == {"http", "https", "ftp", "all"}
           entries == [s \in M!Schemes |->
                          IF s \in DOMAIN set THEN L!EnvEntry(set[s], s) ELSE "none"]
           dropped == {s \in DOMAIN set : set[s] = "bad"}
           e == M!Filed(entries, dropped)
<1>1. DOMAIN set = slots
  OBVIOUS
<1>2. L!EnvMode(set) = IF dropped = {} /\ entries = M!NoEntries
                       THEN M!Direct ELSE M!Manual(entries, dropped)
  BY SharedL DEF L!EnvMode
<1>3. M!resolve_mode(L!EnvMode(set), r) = Slotted(e, r)
  <2>1. CASE dropped = {} /\ entries = M!NoEntries
    <3>1. \A s \in M!Schemes : e[s] = "none"
      BY <2>1, FiledIs DEF M!NoEntries
    <3>2. Slotted(e, r) = "direct"
      BY <3>1, NothingGoesDirect
    <3> QED
      BY <1>2, <2>1, <3>2, OtherModes
  <2> QED
    BY <1>2, <2>1, ManualIsSlotted
<1>4. r \in {"http", "https", "ftp", "socks", "ws", "other"}
  BY DEF Requests, L!Requests
<1>5. L!EnvAsks(vs, r) =
          CASE r \in slots -> M!Asked(<<named(r), named("all")>>)
            [] r \in {"socks", "other"} -> M!Asked(<<named("all")>>)
            [] r = "ws" -> M!Asked(<<M!Skipped(named("https")), M!Skipped(named("http")),
                                     named("all")>>)
  <2>1. \A c : L!Asked(c) = M!Asked(c) /\ L!Skipped(c) = M!Skipped(c)
    BY SharedL
  <2>2. CASE r \in slots
    BY <2>1, <2>2 DEF L!EnvAsks, L!EnvSlots
  <2>3. CASE r \in {"socks", "other"}
    BY <2>1, <2>3 DEF L!EnvAsks, L!EnvSlots
  <2>4. CASE r = "ws"
    BY <2>1, <2>4 DEF L!EnvAsks, L!EnvSlots
  <2> QED
    BY <1>4, <2>2, <2>3, <2>4
<1>6. /\ e["socks"] = "none"
      /\ \A s \in slots : e[s] = CASE set[s] = "proxy" -> s
                                   [] set[s] = "blank" -> "off"
                                   [] set[s] = "bad" -> "lost"
                                   [] set[s] = "unset" -> "none"
  <2>1. \A s \in M!Schemes :
          e[s] = IF entries[s] = "none" /\ s \in dropped THEN "lost" ELSE entries[s]
    BY FiledIs
  <2> HIDE DEF e
  <2> QED
    BY <1>1, <2>1 DEF L!EnvEntry, M!Schemes
<1>7. \A s \in slots : named(s) = CASE set[s] = "proxy" -> s
                                    [] set[s] = "blank" -> "off"
                                    [] set[s] \in {"bad", "unset"} -> set[s]
  OBVIOUS
<1> HIDE DEF e, entries, dropped, named
<1> QED
  BY <1>3, <1>4, <1>5, <1>6, <1>7, AskedOf1, AskedOf2, AskedOf3
     DEF Slotted, Outcome2, Outcome4, Unless, Out, NoAnswer, M!Schemes, Decides, Told, M!Skipped

\* The environment gets a request what its variables ask for.
LEMMA EnvIsObeyed ==
  ASSUME NEW vs \in Environments, NEW r \in Requests
  PROVE  L!resolve_mode(L!FromVars(vs), r) = L!EnvAsks(vs, r)
<1> DEFINE slots == {"http", "https", "ftp", "all"}
           said == {"blank", "proxy", "bad", "unset"}
           set == [s \in slots |-> L!LookedUp(vs, s)]
<1>1. vs.lower \in [slots -> said] /\ vs.upper \in UpperCase
  BY DEF Environments, L!EnvSlots, L!Values
<1>2. vs.upper \in [slots -> said]
  BY <1>1 DEF UpperCase, L!EnvSlots
<1>3. set \in [slots -> said]
  BY <1>1, <1>2 DEF L!LookedUp
<1>4. \A s \in slots :
          L!EnvNames(vs, s) = CASE set[s] = "proxy" -> s
                                [] set[s] = "blank" -> "off"
                                [] set[s] \in {"bad", "unset"} -> set[s]
  BY <1>1, <1>2 DEF L!EnvNames, L!LookedUp
<1>5. CASE vs.cgi /\ (vs.lower["http"] # "unset" \/ vs.upper["http"] # "unset")
  BY <1>5, OtherModes, SharedL DEF L!FromVars, L!EnvAsks
<1>6. CASE ~(vs.cgi /\ (vs.lower["http"] # "unset" \/ vs.upper["http"] # "unset"))
  <2>1. L!FromVars(vs) = L!EnvMode(set)
    BY <1>6 DEF L!FromVars, L!EnvSlots
  <2> HIDE DEF set
  <2>2. M!resolve_mode(L!EnvMode(set), r) = L!EnvAsks(vs, r)
    BY <1>3, <1>4, <1>6, EnvModeIsObeyed
  <2> QED
    BY <2>1, <2>2, SharedL
<1> QED
  BY <1>5, <1>6

\* The slots of kioslaverc, each a proxy of its own.
LEMMA KdeManualIsObeyed ==
  ASSUME NEW file \in L!KdeManualFiles, NEW r \in Requests
  PROVE  M!resolve_mode(L!KdeManual(file), r) = L!KdeAsksManually(file, r)
<1> DEFINE named(s) == L!KdeNamed(file, s)
           slots == {"http", "https", "ftp", "socks"}
           socks == IF file.slot["socks"] = "proxy" THEN "socks" ELSE "none"
           entry(s) == CASE file.slot[s] = "proxy" -> s
                         [] file.slot[s] = "blank" /\ file.slot["socks"] \in {"blank", "absent"}
                               -> "off"
                         [] OTHER -> "none"
           entries == [s \in M!Schemes |-> IF s = "all" THEN socks ELSE entry(s)]
           dropped == {IF s = "socks" THEN "all" ELSE s : s \in L!KdeDropped(file)}
           e == M!Filed(entries, dropped)
<1>1. file.slot \in [slots -> {"absent", "expand", "blank", "proxy", "bad"}]
  BY DEF L!KdeManualFiles, L!KdeValues, L!Values, L!Slots
<1>2. L!KdeManual(file) =
          IF dropped = {} /\ \A s \in M!Schemes : entries[s] \in {"none", "off"}
          THEN M!Direct ELSE M!Manual(entries, dropped)
  BY SharedL DEF L!KdeManual
<1>3. M!resolve_mode(L!KdeManual(file), r) = Slotted(e, r)
  <2>1. CASE dropped = {} /\ \A s \in M!Schemes : entries[s] \in {"none", "off"}
    <3>1. \A s \in M!Schemes : e[s] = entries[s]
      BY <2>1, FiledIs
    <3>2. Slotted(e, r) = "direct"
      BY <2>1, <3>1, NothingGoesDirect
    <3> QED
      BY <1>2, <2>1, <3>2, OtherModes
  <2> QED
    BY <1>2, <2>1, ManualIsSlotted
<1>4. r \in {"http", "https", "ftp", "socks", "ws", "other"}
  BY DEF Requests, L!Requests
<1>5. L!KdeAsksManually(file, r) =
          CASE r \in slots -> M!Asked(<<named(r), named("socks")>>)
            [] r = "ws" -> M!Asked(<<named("socks"), named("https"), named("http")>>)
            [] r = "other" -> M!Asked(<<named("socks")>>)
  <2>1. \A c : L!Asked(c) = M!Asked(c)
    BY SharedL
  <2>2. CASE r \in slots
    BY <2>1, <2>2 DEF L!KdeAsksManually, L!Slots
  <2>3. CASE r = "ws"
    BY <2>1, <2>3 DEF L!KdeAsksManually, L!Slots
  <2>4. CASE r = "other"
    BY <2>1, <2>4 DEF L!KdeAsksManually, L!Slots
  <2> QED
    BY <1>4, <2>2, <2>3, <2>4
<1>6. \A s \in M!Schemes :
          (s \in dropped) <=> \/ s = "all" /\ file.slot["socks"] \in {"bad", "expand"}
                              \/ s \in {"http", "https", "ftp"} /\ file.slot[s] \in {"bad", "expand"}
  BY <1>1 DEF L!KdeDropped, L!Slots, M!Schemes
<1>7. /\ e["all"] = CASE file.slot["socks"] = "proxy" -> "socks"
                      [] file.slot["socks"] \in {"bad", "expand"} -> "lost"
                      [] file.slot["socks"] \in {"blank", "absent"} -> "none"
      /\ e["socks"] = CASE file.slot["socks"] = "proxy" -> "socks"
                        [] file.slot["socks"] = "blank" -> "off"
                        [] file.slot["socks"] \in {"bad", "expand", "absent"} -> "none"
      /\ \A s \in {"http", "https", "ftp"} :
            e[s] = CASE file.slot[s] = "proxy" -> s
                     [] file.slot[s] \in {"bad", "expand"} -> "lost"
                     [] file.slot[s] = "blank" ->
                           IF file.slot["socks"] \in {"blank", "absent"} THEN "off" ELSE "none"
                     [] file.slot[s] = "absent" -> "none"
  <2>1. \A s \in M!Schemes :
          e[s] = IF entries[s] = "none" /\ s \in dropped THEN "lost" ELSE entries[s]
    BY FiledIs
  <2> HIDE DEF e, dropped
  <2> QED
    BY <1>1, <1>6, <2>1 DEF M!Schemes
<1>8. \A s \in slots : named(s) = CASE file.slot[s] = "proxy" -> s
                                    [] file.slot[s] \in {"bad", "expand"} -> "bad"
                                    [] file.slot[s] \in {"blank", "absent"} -> "unset"
  BY DEF L!KdeNamed
<1> HIDE DEF e, entries, dropped, named
<1> QED
  BY <1>1, <1>3, <1>4, <1>5, <1>7, <1>8, AskedOf1, AskedOf2, AskedOf3
     DEF Slotted, Outcome2, Outcome4, Unless, Out, NoAnswer, M!Schemes, Decides, Told

\* The slots of kioslaverc, each the name of a variable.
LEMMA KdeEnvIsObeyed ==
  ASSUME NEW file \in L!KdeEnvFiles, NEW r \in Requests,
         ~(file.cgi /\ (file.list = "forged"
                        \/ \E s \in L!Slots \ {"socks"} : file.slot[s] = "forged"))
  PROVE  M!resolve_mode(L!KdeEnv(file), r) = L!KdeAsksTheEnvironment(file, r)
<1> DEFINE named(s) == L!KdeNamedByEnv(file, s)
           slots == {"http", "https", "ftp", "socks"}
           readable == {"http", "https", "ftp"}
           value == [s \in readable |->
                       CASE file.slot[s] \in {"proxy", "forged"} -> "proxy"
                         [] file.slot[s] = "blank" -> "blank"
                         [] file.slot[s] \in {"bad", "expand"} -> "bad"
                         [] file.slot[s] \in {"absent", "unset"} -> "unset"]
           entries == [s \in M!Schemes |->
                          IF s \in readable THEN L!EnvEntry(value[s], s) ELSE "none"]
           dropped == {s \in readable : value[s] = "bad"}
                          \cup {s \in {"all"} : file.slot["socks"] # "absent"}
           e == M!Filed(entries, dropped)
<1>1. file.slot \in [slots -> {"absent", "expand", "blank", "proxy", "bad", "unset", "forged"}]
  BY DEF L!KdeEnvFiles, L!KdeNames, L!KdeValues, L!Values, L!Slots
<1>2. L!KdeEnv(file) = IF dropped = {} /\ entries = M!NoEntries
                       THEN M!Direct ELSE M!Manual(entries, dropped)
  <2>1. ~(file.cgi /\ ({s \in readable : file.slot[s] = "forged"} # {} \/ file.list = "forged"))
    BY DEF L!Slots
  <2> QED
    BY <2>1, SharedL DEF L!KdeEnv
<1>3. \A s \in readable : value[s] = CASE file.slot[s] \in {"proxy", "forged"} -> "proxy"
                                       [] file.slot[s] = "blank" -> "blank"
                                       [] file.slot[s] \in {"bad", "expand"} -> "bad"
                                       [] file.slot[s] \in {"absent", "unset"} -> "unset"
  OBVIOUS
<1> HIDE DEF value
<1>4. M!resolve_mode(L!KdeEnv(file), r) = Slotted(e, r)
  <2>1. CASE dropped = {} /\ entries = M!NoEntries
    <3>1. \A s \in M!Schemes : e[s] = "none"
      BY <2>1, FiledIs DEF M!NoEntries
    <3>2. Slotted(e, r) = "direct"
      BY <3>1, NothingGoesDirect
    <3> QED
      BY <1>2, <2>1, <3>2, OtherModes
  <2> QED
    BY <1>2, <2>1, ManualIsSlotted
<1>5. r \in {"http", "https", "ftp", "socks", "ws", "other"}
  BY DEF Requests, L!Requests
<1>6. L!KdeAsksTheEnvironment(file, r) =
          CASE r \in slots -> M!Asked(<<named(r), named("socks")>>)
            [] r = "ws" -> M!Asked(<<named("socks"), M!Skipped(named("https")),
                                     M!Skipped(named("http"))>>)
            [] r = "other" -> M!Asked(<<named("socks")>>)
  <2>1. \A c : L!Asked(c) = M!Asked(c) /\ L!Skipped(c) = M!Skipped(c)
    BY SharedL
  <2>2. CASE r \in slots
    BY <2>1, <2>2 DEF L!KdeAsksTheEnvironment, L!Slots
  <2>3. CASE r = "ws"
    BY <2>1, <2>3 DEF L!KdeAsksTheEnvironment, L!Slots
  <2>4. CASE r = "other"
    BY <2>1, <2>4 DEF L!KdeAsksTheEnvironment, L!Slots
  <2> QED
    BY <1>5, <2>2, <2>3, <2>4
<1>7. /\ e["all"] = IF file.slot["socks"] = "absent" THEN "none" ELSE "lost"
      /\ e["socks"] = "none"
      /\ \A s \in readable :
            e[s] = CASE file.slot[s] \in {"proxy", "forged"} -> s
                     [] file.slot[s] = "blank" -> "off"
                     [] file.slot[s] \in {"bad", "expand"} -> "lost"
                     [] file.slot[s] \in {"absent", "unset"} -> "none"
  <2>1. \A s \in M!Schemes :
          e[s] = IF entries[s] = "none" /\ s \in dropped THEN "lost" ELSE entries[s]
    BY FiledIs
  <2> HIDE DEF e
  <2> QED
    BY <1>1, <1>3, <2>1 DEF L!EnvEntry, M!Schemes
<1>8. /\ named("socks") = IF file.slot["socks"] = "absent" THEN "unset" ELSE "bad"
      /\ \A s \in readable :
            named(s) = CASE file.slot[s] \in {"proxy", "forged"} -> s
                         [] file.slot[s] = "blank" -> "off"
                         [] file.slot[s] \in {"bad", "expand"} -> "bad"
                         [] file.slot[s] \in {"absent", "unset"} -> "unset"
  BY <1>1 DEF L!KdeNamedByEnv
<1> HIDE DEF e, entries, dropped, named
<1> QED
  BY <1>1, <1>4, <1>5, <1>6, <1>7, <1>8, AskedOf1, AskedOf2, AskedOf3
     DEF Slotted, Outcome2, Outcome4, Unless, Out, NoAnswer, M!Schemes, Decides, Told, M!Skipped

\* KDE gets a request what its file asks for.
LEMMA KdeIsObeyed ==
  ASSUME NEW file \in L!KdeManualFiles \cup L!KdeEnvFiles \cup L!KdeOtherFiles,
         NEW r \in Requests
  PROVE  L!resolve_mode(L!config_from_kioslaverc(file), r) = L!KdeAsks(file, r)
<1>1. CASE file \in L!KdeManualFiles
  <2>1. file.type = "manual"
    BY <1>1 DEF L!KdeManualFiles
  <2>2. M!resolve_mode(L!KdeManual(file), r) = L!KdeAsksManually(file, r)
    BY <1>1, KdeManualIsObeyed
  <2> QED
    BY <2>1, <2>2, SharedL DEF L!config_from_kioslaverc, L!KdeAsks
<1>2. CASE file \in L!KdeEnvFiles
  <2> DEFINE forged == file.cgi /\ (file.list = "forged"
                           \/ \E s \in L!Slots \ {"socks"} : file.slot[s] = "forged")
  <2>1. file.type = "env"
    BY <1>2 DEF L!KdeEnvFiles
  <2>2. L!config_from_kioslaverc(file) = L!KdeEnv(file)
    BY <2>1 DEF L!config_from_kioslaverc
  <2>3. L!KdeAsks(file, r) = IF forged THEN "fails" ELSE L!KdeAsksTheEnvironment(file, r)
    BY <2>1 DEF L!KdeAsks
  <2>4. CASE forged
    <3>1. L!KdeEnv(file) = M!Fails
      BY <2>4, SharedL DEF L!KdeEnv, L!Slots
    <3> QED
      BY <2>2, <2>3, <2>4, <3>1, OtherModes, SharedL
  <2>5. CASE ~forged
    <3>1. M!resolve_mode(L!KdeEnv(file), r) = L!KdeAsksTheEnvironment(file, r)
      BY <1>2, <2>5, KdeEnvIsObeyed
    <3> QED
      BY <2>2, <2>3, <2>5, <3>1, SharedL
  <2> QED
    BY <2>4, <2>5
<1>3. CASE file \in L!KdeOtherFiles
  <2>1. /\ file.type \in {"absent", "unreadable", "none", "pac", "wpad"}
        /\ file.script \in {"absent", "expand", "blank", "proxy", "bad"}
    BY <1>3 DEF L!KdeOtherFiles, L!ProxyTypes, L!KdeValues, L!Values
  <2>2. M!resolve_mode(M!Manual(M!NoEntries, {"all"}), r) = "unusable"
    <3> DEFINE e == M!Filed(M!NoEntries, {"all"})
    <3>1. /\ \A s \in {"http", "https", "ftp", "socks"} : e[s] = "none"
          /\ e["all"] = "lost"
      BY FiledIs DEF M!NoEntries, M!Schemes
    <3>2. Slotted(e, r) = "unusable"
      <4> HIDE DEF e
      <4> QED
        BY <3>1 DEF Slotted, Outcome2, Outcome4, Unless, Out, NoAnswer, M!Schemes
    <3> QED
      BY <3>2, ManualIsSlotted
  <2>3. CASE file.type = "pac"
    BY <2>1, <2>2, <2>3, OtherModes, SharedL
       DEF L!config_from_kioslaverc, L!KdeAsks, L!KdePac
  <2>4. CASE file.type # "pac"
    BY <2>1, <2>4, OtherModes, SharedL DEF L!config_from_kioslaverc, L!KdeAsks
  <2> QED
    BY <2>3, <2>4
<1> QED
  BY <1>1, <1>2, <1>3

\* What is chosen of each answer of the portal.
LEMMA PortalChoices ==
  /\ L!FirstChoice(<<>>) = "direct"
  /\ L!FirstChoice(<<"direct", "proxy">>) = "direct"
  /\ L!FirstChoice(<<"blank", "proxy">>) = "proxy"
  /\ L!FirstChoice(<<"bad">>) = "bad"
  /\ L!FirstChoice(<<"failed">>) = "failed"
<1>1. ASSUME NEW answers, Len(answers) \in Nat, NEW i \in 1 .. Len(answers),
             answers[i] # "blank", \A j \in 1 .. Len(answers) : j < i => answers[j] = "blank"
      PROVE  L!FirstChoice(answers) = answers[i]
  <2> DEFINE I == {k \in 1 .. Len(answers) : answers[k] # "blank"}
  <2>1. I \in SUBSET (1 .. Len(answers)) /\ i \in I /\ \A j \in I : i <= j
    BY <1>1
  <2>2. Min(I) = i
    BY <1>1, <2>1, SelectedFirst
  <2>3. L!FirstChoice(answers) =
            LET said == IF I # {} THEN Min(I) ELSE 0 IN
            IF said = 0 THEN "direct" ELSE answers[said]
    BY DEF L!FirstChoice, L!SelectInSeq, L!Min, Min
  <2> HIDE DEF I
  <2> QED
    BY <1>1, <2>1, <2>2, <2>3
<1>2. L!FirstChoice(<<>>) = "direct"
  BY DEF L!FirstChoice, L!SelectInSeq
<1>3. /\ Len(<<"direct", "proxy">>) = 2 /\ <<"direct", "proxy">>[1] = "direct"
      /\ Len(<<"blank", "proxy">>) = 2
      /\ <<"blank", "proxy">>[1] = "blank" /\ <<"blank", "proxy">>[2] = "proxy"
      /\ Len(<<"bad">>) = 1 /\ <<"bad">>[1] = "bad"
      /\ Len(<<"failed">>) = 1 /\ <<"failed">>[1] = "failed"
  OBVIOUS
<1>4. L!FirstChoice(<<"direct", "proxy">>) = "direct"
  BY <1>1, <1>3
<1>5. L!FirstChoice(<<"blank", "proxy">>) = "proxy"
  BY <1>1, <1>3
<1>6. L!FirstChoice(<<"bad">>) = "bad"
  BY <1>1, <1>3
<1>7. L!FirstChoice(<<"failed">>) = "failed"
  BY <1>1, <1>3
<1> QED
  BY <1>2, <1>4, <1>5, <1>6, <1>7

\* The portal gets a request what it was told about the probe of its scheme.
LEMMA PortalIsObeyed ==
  ASSUME NEW answers \in L!PortalAnswers, NEW r \in Requests
  PROVE  L!resolve_mode(L!PortalMode(answers), r) = L!PortalAsks(answers, r)
<1> DEFINE named(s) == L!PortalTold(answers, s)
           choice == [s \in M!Schemes |-> L!FirstChoice(answers[s])]
           entries == [s \in M!Schemes |-> IF choice[s] = "proxy" THEN s ELSE "off"]
           e == M!Filed(entries, {})
           fails == \E s \in M!Schemes : answers[s] \in {<<"bad">>, <<"failed">>}
<1>1. \A s \in M!Schemes :
          answers[s] \in {<<>>, <<"direct", "proxy">>, <<"blank", "proxy">>, <<"bad">>, <<"failed">>}
  BY SharedL DEF L!PortalAnswers
<1>2. /\ <<"bad">> # <<"failed">>
      /\ <<"bad">> \notin {<<>>, <<"direct", "proxy">>, <<"blank", "proxy">>}
      /\ <<"failed">> \notin {<<>>, <<"direct", "proxy">>, <<"blank", "proxy">>}
      /\ <<"blank", "proxy">> \notin {<<>>, <<"direct", "proxy">>}
  OBVIOUS
<1>3. \A s \in M!Schemes :
          /\ choice[s] = "bad" \/ answers[s] = <<"failed">>
                <=> answers[s] \in {<<"bad">>, <<"failed">>}
          /\ choice[s] = "proxy" <=> answers[s] = <<"blank", "proxy">>
          /\ choice[s] = "direct" <=> answers[s] \in {<<>>, <<"direct", "proxy">>}
  BY <1>1, <1>2, PortalChoices
<1>4. L!PortalMode(answers) =
          IF fails THEN M!Fails
          ELSE IF \A s \in M!Schemes : choice[s] = "direct" THEN M!Direct
          ELSE M!Manual(entries, {})
  BY <1>3, SharedL DEF L!PortalMode
<1>5. r \in {"http", "https", "ftp", "socks", "ws", "other"}
  BY DEF Requests, L!Requests
<1>6. L!PortalAsks(answers, r) =
          IF fails THEN "fails"
          ELSE CASE r \in M!Schemes -> M!Asked(<<named(r)>>)
                 [] r = "other" -> M!Asked(<<named("all")>>)
                 [] r = "ws" -> M!Asked(<<M!Skipped(named("socks")), M!Skipped(named("https")),
                                          M!Skipped(named("http")), named("all")>>)
  <2>1. /\ \A c : L!Asked(c) = M!Asked(c) /\ L!Skipped(c) = M!Skipped(c)
        /\ L!Schemes = M!Schemes
    BY SharedL
  <2>2. CASE r \in M!Schemes
    BY <2>1, <2>2 DEF L!PortalAsks
  <2>3. CASE r = "ws"
    BY <2>1, <2>3 DEF L!PortalAsks, M!Schemes
  <2>4. CASE r = "other"
    BY <2>1, <2>4 DEF L!PortalAsks, M!Schemes
  <2> QED
    BY <1>5, <2>2, <2>3, <2>4 DEF M!Schemes
<1>7. CASE fails
  BY <1>4, <1>6, <1>7, OtherModes, SharedL
<1>8. CASE ~fails
  <2>1. \A s \in M!Schemes : named(s) = IF choice[s] = "proxy" THEN s ELSE "off"
    BY <1>1, <1>2, <1>3, <1>8 DEF L!PortalTold
  <2>2. \A s \in M!Schemes : e[s] = IF choice[s] = "proxy" THEN s ELSE "off"
    BY FiledIs
  <2>3. M!resolve_mode(L!PortalMode(answers), r) = Slotted(e, r)
    <3>1. CASE \A s \in M!Schemes : choice[s] = "direct"
      <4>1. \A s \in M!Schemes : e[s] = "off"
        BY <2>2, <3>1
      <4> HIDE DEF e, choice
      <4>2. Slotted(e, r) = "direct"
        BY <4>1, NothingGoesDirect
      <4> QED
        BY <1>4, <1>8, <3>1, <4>2, OtherModes
    <3> QED
      BY <1>4, <1>8, <3>1, ManualIsSlotted
  <2> HIDE DEF e, entries, choice, named, fails
  <2>4. Slotted(e, r) = L!PortalAsks(answers, r)
    BY <1>5, <1>6, <1>8, <2>1, <2>2, AskedOf1, AskedOf4
       DEF Slotted, Outcome2, Outcome4, Unless, Out, NoAnswer, M!Schemes, Decides, Told, M!Skipped
  <2> QED
    BY <2>3, <2>4, SharedL
<1> QED
  BY <1>7, <1>8

\* What a family leaves in its slot, and what it names.
LEMMA AppleFamilies ==
  ASSUME NEW keys \in A!Families, NEW s \in {"http", "https", "ftp", "socks"}
  PROVE  /\ A!FamilyEntry(keys, s) \in {s, "none", "off"}
         /\ A!FamilyDropped(keys) \in BOOLEAN
         /\ A!FamilyDropped(keys) => A!FamilyEntry(keys, s) = "none"
         /\ A!FamilyNames(keys, s) = IF A!FamilyEntry(keys, s) = s THEN s
                                     ELSE IF A!FamilyDropped(keys) THEN "bad" ELSE "unset"
<1>1. /\ keys.enable \in {"on", "off", "absent", "unreadable"}
      /\ keys.host \in {"blank", "good", "bad", "unreadable"}
      /\ keys.port \in {"good", "bad"}
  BY DEF A!Families, A!Flags, A!Texts
<1> QED
  BY <1>1 DEF A!FamilyEntry, A!FamilyDropped, A!FamilyNames

\* The families of a dictionary, each with the slot it fills.
LEMMA AppleManualIsObeyed ==
  ASSUME NEW dict, NEW r \in Requests,
         dict.family \in [{"http", "https", "ftp", "socks"} -> A!Families],
         dict.stray \in BOOLEAN
  PROVE  M!resolve_mode(A!ManualMode(dict), r) =
             LET named(s) == A!FamilyNames(dict.family[s], s)
                 switch == IF A!SwitchDropped(dict) THEN "bad" ELSE "unset" IN
             CASE r \in {"http", "https", "ftp", "socks"} ->
                     M!Asked(<<named(r), named("socks"), switch>>)
               [] r = "other" -> M!Asked(<<named("socks"), switch>>)
               [] r = "ws" -> M!Asked(<<named("socks"), named("https"), named("http"),
                                        named("socks"), switch>>)
<1> DEFINE slots == {"http", "https", "ftp", "socks"}
           named(s) == A!FamilyNames(dict.family[s], s)
           own == [s \in M!Schemes |->
                      IF s = "all" THEN "none" ELSE A!FamilyEntry(dict.family[s], s)]
           lost(s) == A!FamilyDropped(dict.family[s])
           dropped == A!Dropped(dict)
           filled == A!FilledBySocks(own)
           cleared == A!ClearedOfOff(filled, dropped)
           e == M!Filed(cleared, dropped)
           switch == IF A!SwitchDropped(dict) THEN "bad" ELSE "unset"
<1>1. /\ own["all"] = "none"
      /\ \A s \in slots : /\ own[s] \in {s, "none", "off"}
                          /\ lost(s) \in BOOLEAN
                          /\ lost(s) => own[s] = "none"
                          /\ named(s) = IF own[s] = s THEN s
                                        ELSE IF lost(s) THEN "bad" ELSE "unset"
  BY AppleFamilies DEF M!Schemes
<1>2. A!ManualMode(dict) =
          IF (\A s \in M!Schemes : own[s] \in {"none", "off"}) /\ dropped = {} /\ ~dict.stray
          THEN M!Direct ELSE M!Manual(cleared, dropped)
  BY SharedA DEF A!ManualMode
<1>3. \A s \in M!Schemes :
          s \in dropped <=> \/ s = "all" /\ (lost("socks") \/ A!SwitchDropped(dict))
                            \/ s \in {"http", "https", "ftp"} /\ lost(s)
  BY DEF A!Dropped, A!Slots, M!Schemes
<1>4. \A s \in M!Schemes :
          filled[s] = IF own["socks"] = "socks" /\ own[s] \in {"none", "off"}
                      THEN "socks" ELSE own[s]
  <2> HIDE DEF own
  <2> QED
    BY <1>1, SharedA DEF A!FilledBySocks, M!Schemes
<1>5. \A s \in M!Schemes :
          cleared[s] = IF "all" \in dropped /\ filled[s] = "off" THEN "none" ELSE filled[s]
  <2> HIDE DEF own, filled, dropped
  <2> QED
    BY SharedA DEF A!ClearedOfOff, M!Schemes
<1>6. \A s \in M!Schemes :
          e[s] = IF cleared[s] = "none" /\ s \in dropped THEN "lost" ELSE cleared[s]
  BY FiledIs
<1> HIDE DEF own, filled, dropped, cleared, e, named, lost
<1>7. M!resolve_mode(A!ManualMode(dict), r) = Slotted(e, r)
  <2>1. CASE (\A s \in M!Schemes : own[s] \in {"none", "off"}) /\ dropped = {} /\ ~dict.stray
    <3>1. \A s \in M!Schemes : e[s] \in {"none", "off"}
      BY <1>4, <1>5, <1>6, <2>1 DEF M!Schemes
    <3>2. Slotted(e, r) = "direct"
      BY <3>1, NothingGoesDirect
    <3> QED
      BY <1>2, <2>1, <3>2, OtherModes
  <2>2. CASE ~((\A s \in M!Schemes : own[s] \in {"none", "off"}) /\ dropped = {} /\ ~dict.stray)
    <3>1. A!ManualMode(dict) = M!Manual(cleared, dropped)
      BY <1>2, <2>2
    <3> QED
      BY <3>1, ManualIsSlotted DEF e
  <2> QED
    BY <2>1, <2>2
<1>8. r \in {"http", "https", "ftp", "socks", "ws", "other"}
  BY DEF Requests, L!Requests
<1>9. \A s \in {"http", "https", "ftp", "socks"} :
          e[s] = CASE own[s] = s -> s
                   [] own[s] # s /\ own["socks"] = "socks" -> "socks"
                   [] own[s] # s /\ own["socks"] # "socks" ->
                        IF lost(s) /\ s # "socks" THEN "lost"
                        ELSE IF own[s] = "off" /\ ~lost("socks") /\ ~A!SwitchDropped(dict)
                        THEN "off" ELSE "none"
  BY <1>1, <1>3, <1>4, <1>5, <1>6 DEF M!Schemes
<1>10. e["all"] = IF own["socks"] = "socks" THEN "socks"
                  ELSE IF lost("socks") \/ A!SwitchDropped(dict) THEN "lost" ELSE "none"
  BY <1>1, <1>3, <1>4, <1>5, <1>6 DEF M!Schemes
<1>11. IF A!SwitchDropped(dict) THEN switch = "bad" ELSE switch = "unset"
  OBVIOUS
<1> HIDE DEF switch
<1>12. CASE r \in slots
  <2>1. Slotted(e, r) = M!Asked(<<named(r), named("socks"), switch>>)
    BY <1>1, <1>8, <1>9, <1>10, <1>11, <1>12, AskedOf3
       DEF Slotted, Outcome2, Out, NoAnswer, M!Schemes, Decides, Told
  <2> QED
    BY <1>7, <1>12, <2>1 DEF named, switch
<1>13. CASE r = "other"
  <2>1. Slotted(e, r) = M!Asked(<<named("socks"), switch>>)
    BY <1>1, <1>8, <1>9, <1>10, <1>11, <1>13, AskedOf2
       DEF Slotted, Outcome2, Out, NoAnswer, M!Schemes, Decides, Told
  <2> QED
    BY <1>7, <1>13, <2>1 DEF named, switch
<1>14. CASE r = "ws"
  <2>1. Slotted(e, r) =
            M!Asked(<<named("socks"), named("https"), named("http"), named("socks"), switch>>)
    BY <1>1, <1>8, <1>9, <1>10, <1>11, <1>14, AskedOf5
       DEF Slotted, Outcome4, Unless, Out, NoAnswer, M!Schemes, Decides, Told
  <2> QED
    BY <1>7, <1>14, <2>1 DEF named, switch
<1> QED
  BY <1>8, <1>12, <1>13, <1>14

\* The families of every dictionary that is asked about.
LEMMA AppleDictionaries ==
  ASSUME NEW dict \in Dictionaries
  PROVE  /\ dict.family \in [{"http", "https", "ftp", "socks"} -> A!Families]
         /\ dict.stray \in BOOLEAN
         /\ dict.script \in {"blank", "good", "unreadable"}
         /\ dict.url \in {"blank", "good", "bad", "unreadable"}
<1>1. \A enable \in {"on", "off", "absent", "unreadable"} : Plain(enable) \in A!Families
  BY DEF Plain, A!Families, A!Flags, A!Texts
<1>2. \A f \in OneFamily \cup TwoFamilies :
          f \in [{"http", "https", "ftp", "socks"} -> A!Families]
  <2> HIDE DEF A!Families
  <2> QED
    BY <1>1 DEF OneFamily, TwoFamilies, A!Slots
<1>3. dict.family \in OneFamily \cup TwoFamilies
  BY DEF Dictionaries, A!Dictionaries
<1> QED
  BY <1>2, <1>3 DEF Dictionaries, A!Dictionaries, A!Texts

\* Apple's dictionary gets a request what its keys ask for.
LEMMA AppleIsObeyed ==
  ASSUME NEW dict \in Dictionaries, NEW r \in Requests
  PROVE  A!resolve_mode(A!mode_from_dict(dict), r) = A!AppleAsks(dict, r)
<1> DEFINE slots == {"http", "https", "ftp", "socks"}
           named(s) == A!FamilyNames(dict.family[s], s)
           switch == IF A!SwitchDropped(dict) THEN "bad" ELSE "unset"
           scripted == \/ dict.wpad = "on"
                       \/ dict.pac = "on" /\ "good" \in {dict.script, dict.url}
           spoilt == dict.pac = "on" /\ dict.url = "bad"
<1>1. r \in {"http", "https", "ftp", "socks", "ws", "other"}
  BY DEF Requests, L!Requests
<1>2. CASE scripted
  BY <1>2, AppleDictionaries, OtherModes, SharedA DEF A!mode_from_dict, A!AppleAsks
<1>3. CASE ~scripted /\ spoilt
  BY <1>3, AppleDictionaries, OtherModes, SharedA DEF A!mode_from_dict, A!AppleAsks
<1>4. CASE ~scripted /\ ~spoilt
  <2>1. A!mode_from_dict(dict) = A!ManualMode(dict)
    BY <1>4 DEF A!mode_from_dict
  <2>2. /\ \A c : A!Asked(c) = M!Asked(c)
        /\ \A m, q : A!resolve_mode(m, q) = M!resolve_mode(m, q)
    BY SharedA
  <2>3. A!AppleAsks(dict, r) =
            CASE r \in slots -> M!Asked(<<named(r)>> \o <<named("socks"), switch>>)
              [] r = "other" -> M!Asked(<<named("socks"), switch>>)
              [] r = "ws" -> M!Asked(<<named("socks"), named("https"), named("http")>>
                                         \o <<named("socks"), switch>>)
    BY <1>1, <1>4, <2>2 DEF A!AppleAsks, A!Slots
  <2>4. M!resolve_mode(A!ManualMode(dict), r) =
            CASE r \in slots -> M!Asked(<<named(r), named("socks"), switch>>)
              [] r = "other" -> M!Asked(<<named("socks"), switch>>)
              [] r = "ws" -> M!Asked(<<named("socks"), named("https"), named("http"),
                                       named("socks"), switch>>)
    BY AppleDictionaries, AppleManualIsObeyed
  <2> HIDE DEF named, switch
  <2>5. \A x : <<x>> \o <<named("socks"), switch>> = <<x, named("socks"), switch>>
    BY Together12
  <2>6. <<named("socks"), named("https"), named("http")>> \o <<named("socks"), switch>>
            = <<named("socks"), named("https"), named("http"), named("socks"), switch>>
    BY Together32
  <2> QED
    BY <1>1, <2>1, <2>2, <2>3, <2>4, <2>5, <2>6
<1> QED
  BY <1>2, <1>3, <1>4

\* What a token says.
Tokens == [key : {"http", "socks", "all", "unknown"}, value : {"p", "q", "blank", "bad"}]

\* A token with the key that is of no use.
Bad(tokens, s) == \E i \in W!With(tokens, s) : tokens[i].value = "bad"

\* What is written into the slot of a scheme is what the scheme's last token of
\* use says.
LEMMA WrittenIsNamed ==
  ASSUME NEW tokens \in Seq(Tokens), NEW s
  PROVE  /\ W!Written(tokens, s) \in {"p", "q", "off", "none"}
         /\ W!Written(tokens, s) = "none" <=> W!Useful(tokens, s) = {}
         /\ W!StringNames(tokens, s) =
                IF W!Written(tokens, s) # "none" THEN W!Written(tokens, s)
                ELSE IF Bad(tokens, s) THEN "bad" ELSE "unset"
<1> DEFINE I == W!Useful(tokens, s)
<1>1. /\ Len(tokens) \in Nat
      /\ \A i \in 1 .. Len(tokens) : tokens[i].value \in {"p", "q", "blank", "bad"}
  <2>1. Len(tokens) \in Nat /\ \A i \in 1 .. Len(tokens) : tokens[i] \in Tokens
    OBVIOUS
  <2>2. \A t \in Tokens : t.value \in {"p", "q", "blank", "bad"}
    BY DEF Tokens
  <2> QED
    BY <2>1, <2>2
<1>2. I = {k \in 1 .. Len(tokens) : tokens[k].key = s /\ tokens[k].value # "bad"}
  BY DEF W!Useful, W!With
<1>3. W!Written(tokens, s) =
          LET last == IF I # {} THEN Max(I) ELSE 0 IN
          IF last = 0 THEN "none"
          ELSE IF tokens[last].value = "blank" THEN "off" ELSE tokens[last].value
  BY <1>2 DEF W!Written, W!SelectLastInSeq, W!Max, Max
<1>4. CASE I = {}
  <2>1. W!Written(tokens, s) = "none"
    BY <1>3, <1>4
  <2>2. W!StringNames(tokens, s) = IF Bad(tokens, s) THEN "bad" ELSE "unset"
    BY <1>4 DEF W!StringNames, W!Useful, Bad
  <2> QED
    BY <1>4, <2>1, <2>2
<1>5. CASE I # {}
  <2>1. I \in SUBSET (1 .. Len(tokens))
    BY <1>2
  <2> HIDE DEF I
  <2>2. PICK i \in I : \A j \in I : j <= i
    BY <1>1, <1>5, <2>1, SomeIsLast
  <2>3. Max(I) = i
    BY <1>1, <2>1, <2>2, SelectedLast
  <2>4. i \in 1 .. Len(tokens) /\ i # 0 /\ tokens[i].value \in {"p", "q", "blank"}
    BY <1>1, <1>2, <2>1, <2>2
  <2>5. W!Written(tokens, s) = IF tokens[i].value = "blank" THEN "off" ELSE tokens[i].value
    BY <1>3, <1>5, <2>3, <2>4
  <2>6. \A k \in I : (\A j \in I : j <= k) => k = i
    BY <1>1, <2>1, <2>2
  <2>7. (CHOOSE k \in I : \A j \in I : j <= k) = i
    BY <2>2, <2>6
  <2>8. W!LastOf(tokens, s) = tokens[i].value
    BY <2>7 DEF W!LastOf, I
  <2>9. W!With(tokens, s) # {}
    BY <2>2 DEF W!Useful, I
  <2> QED
    BY <1>5, <2>4, <2>5, <2>8, <2>9 DEF W!StringNames, I
<1> QED
  BY <1>4, <1>5

\* The proxy string gets a request what its tokens ask for.
LEMMA WindowsIsObeyed ==
  ASSUME NEW tokens \in Seq(Tokens), NEW r \in Requests
  PROVE  M!resolve_mode(W!windows_manual(tokens), r) = W!WindowsAsks(tokens, r)
<1> DEFINE named(s) == W!StringNames(tokens, s)
           w == [s \in M!Schemes |-> W!Written(tokens, s)]
           bad(s) == Bad(tokens, s)
           dropped == W!Skips(tokens)
           filled == W!FilledBySocks(w)
           e == M!Filed(filled, dropped)
           second == IF W!Useful(tokens, "all") # {} THEN "unset" ELSE M!Skipped(named("socks"))
           third == IF Bad(tokens, "socks") THEN "bad" ELSE "unset"
<1>1. \A s \in M!Schemes :
          /\ w[s] \in {"p", "q", "off", "none"}
          /\ w[s] = "none" <=> W!Useful(tokens, s) = {}
          /\ named(s) = IF w[s] # "none" THEN w[s] ELSE IF bad(s) THEN "bad" ELSE "unset"
  BY WrittenIsNamed
<1>2. W!windows_manual(tokens) =
          IF filled = M!NoEntries /\ dropped = {} THEN M!Direct ELSE M!Manual(filled, dropped)
  BY SharedW DEF W!windows_manual
<1>3. \A s \in M!Schemes :
          s \in dropped <=> \/ s = "all" /\ (bad("all") \/ bad("socks"))
                            \/ s \in {"http", "https", "ftp"} /\ bad(s)
  <2>1. dropped = {IF tokens[i].key = "socks" THEN "all" ELSE tokens[i].key :
                      i \in {n \in 1 .. Len(tokens) :
                                tokens[n].value = "bad" \/ tokens[n].key = "unknown"}}
    BY DEF W!Skips
  <2>2. \A s : bad(s) <=> \E i \in 1 .. Len(tokens) : tokens[i].key = s /\ tokens[i].value = "bad"
    BY DEF Bad, W!With
  <2> HIDE DEF dropped, bad
  <2> QED
    BY <2>1, <2>2 DEF M!Schemes
<1>4. \A s \in M!Schemes :
          filled[s] = IF w["all"] = "none" /\ w["socks"] \notin {"none", "off"} /\ w[s] = "none"
                      THEN w["socks"] ELSE w[s]
  <2> HIDE DEF w
  <2> QED
    BY SharedW DEF W!FilledBySocks, M!Schemes
<1>5. \A s \in M!Schemes :
          e[s] = IF filled[s] = "none" /\ s \in dropped THEN "lost" ELSE filled[s]
  BY FiledIs
<1> HIDE DEF w, filled, dropped, e, named, bad
<1>6. M!resolve_mode(W!windows_manual(tokens), r) = Slotted(e, r)
  <2>1. CASE filled = M!NoEntries /\ dropped = {}
    <3>1. \A s \in M!Schemes : e[s] = "none"
      BY <1>5, <2>1 DEF M!NoEntries
    <3>2. Slotted(e, r) = "direct"
      BY <3>1, NothingGoesDirect
    <3> QED
      BY <1>2, <2>1, <3>2, OtherModes
  <2>2. CASE ~(filled = M!NoEntries /\ dropped = {})
    <3>1. W!windows_manual(tokens) = M!Manual(filled, dropped)
      BY <1>2, <2>2
    <3> QED
      BY <3>1, ManualIsSlotted DEF e
  <2> QED
    BY <2>1, <2>2
<1>7. r \in {"http", "https", "ftp", "socks", "ws", "other"}
  BY DEF Requests, L!Requests
<1>8. W!WindowsAsks(tokens, r) =
          CASE r \in M!Schemes \ {"all"} -> M!Asked(<<named(r)>> \o <<named("all"), second, third>>)
            [] r = "other" -> M!Asked(<<named("all"), second, third>>)
            [] r = "ws" -> M!Asked(<<M!Skipped(named("socks")), M!Skipped(named("https")),
                                     M!Skipped(named("http"))>>
                                       \o <<named("all"), second, third>>)
  <2>1. /\ \A c : W!Asked(c) = M!Asked(c) /\ W!Skipped(c) = M!Skipped(c)
        /\ W!Schemes = M!Schemes
    BY SharedW
  <2>2. CASE r \in M!Schemes \ {"all"}
    BY <2>1, <2>2 DEF W!WindowsAsks, named, Bad
  <2>3. CASE r = "ws"
    BY <2>1, <2>3 DEF W!WindowsAsks, M!Schemes, named, Bad
  <2>4. CASE r = "other"
    BY <2>1, <2>4 DEF W!WindowsAsks, M!Schemes, named, Bad
  <2> QED
    BY <1>7, <2>2, <2>3, <2>4 DEF M!Schemes
<1>9. /\ second = IF w["all"] # "none" THEN "unset" ELSE M!Skipped(named("socks"))
      /\ third = IF bad("socks") THEN "bad" ELSE "unset"
  BY <1>1 DEF bad, M!Schemes
<1> HIDE DEF second, third
<1>10. CASE r \in M!Schemes \ {"all"}
  <2>1. <<named(r)>> \o <<named("all"), second, third>> = <<named(r), named("all"), second, third>>
    BY Together13
  <2>2. Slotted(e, r) = M!Asked(<<named(r), named("all"), second, third>>)
    BY <1>1, <1>3, <1>4, <1>5, <1>7, <1>9, <1>10, AskedOf4
       DEF Slotted, Outcome2, Out, NoAnswer, M!Schemes, Decides, Told, M!Skipped
  <2> QED
    BY <1>6, <1>8, <1>10, <2>1, <2>2 DEF M!Schemes
<1>11. CASE r = "other"
  <2>1. Slotted(e, r) = M!Asked(<<named("all"), second, third>>)
    BY <1>1, <1>3, <1>4, <1>5, <1>7, <1>9, <1>11, AskedOf3
       DEF Slotted, Outcome2, Out, NoAnswer, M!Schemes, Decides, Told, M!Skipped
  <2> QED
    BY <1>6, <1>8, <1>11, <2>1 DEF M!Schemes
<1>12. CASE r = "ws"
  <2> DEFINE a == M!Skipped(named("socks"))
             b == M!Skipped(named("https"))
             c == M!Skipped(named("http"))
  <2>1. <<a, b, c>> \o <<named("all"), second, third>> = <<a, b, c, named("all"), second, third>>
    BY Together33
  <2>2. Slotted(e, r) = M!Asked(<<a, b, c, named("all"), second, third>>)
    BY <1>1, <1>3, <1>4, <1>5, <1>7, <1>9, <1>12, AskedOf6
       DEF Slotted, Outcome4, Unless, Out, NoAnswer, M!Schemes, Decides, Told, M!Skipped
  <2> QED
    BY <1>6, <1>8, <1>12, <2>1, <2>2 DEF M!Schemes
<1> QED
  BY <1>7, <1>10, <1>11, <1>12 DEF M!Schemes

\* The strings that are asked about are made of tokens.
LEMMA TokenStringsAreTokens ==
  /\ TokenStrings \subseteq Seq(Tokens)
  /\ \A values \in W!UserValues(UserStrings) : W!Server(values) \in Seq(Tokens)
<1>1. \A n \in Nat : SeqOf(Tokens, n) \subseteq Seq(Tokens)
  BY DEF SeqOf
<1>2. \A s, t, u \in Tokens : <<s, t, u>> \in Seq(Tokens)
  OBVIOUS
<1>3. TokenStrings \subseteq Seq(Tokens)
  <2> DEFINE few == [key : {"http", "socks", "all"}, value : {"p", "blank", "bad"}]
  <2>1. few \subseteq Tokens
    BY DEF Tokens
  <2>2. TokenStrings = SeqOf(Tokens, 2) \cup {<<s, t, u>> : s, t, u \in few}
    BY DEF TokenStrings, Tokens
  <2>3. SeqOf(Tokens, 2) \subseteq Seq(Tokens)
    BY <1>1
  <2> HIDE DEF few
  <2>4. ASSUME NEW string \in {<<s, t, u>> : s, t, u \in few}
        PROVE  string \in Seq(Tokens)
    <3>1. PICK s \in few, t \in few, u \in few : string = <<s, t, u>>
      BY <2>4
    <3>2. s \in Tokens /\ t \in Tokens /\ u \in Tokens
      BY <2>1
    <3>3. <<s, t, u>> \in Seq(Tokens)
      BY <1>2, <3>2
    <3> QED
      BY <3>1, <3>3
  <2> QED
    BY <2>2, <2>3, <2>4
<1>4. /\ [key |-> "http", value |-> "p"] \in Tokens
      /\ [key |-> "all", value |-> "bad"] \in Tokens
  BY DEF Tokens
<1>5. UserStrings \subseteq Seq(Tokens) /\ <<>> \in Seq(Tokens)
  BY <1>4 DEF UserStrings
<1>6. \A values \in W!UserValues(UserStrings) : W!Server(values) \in Seq(Tokens)
  BY <1>5 DEF W!UserValues, W!Server
<1> QED
  BY <1>3, <1>6

\* The user's settings get a request what they ask for, and the fallback beneath
\* a script is the mode they would have been without one.
LEMMA UserIsObeyed ==
  ASSUME NEW values \in W!UserValues(UserStrings), NEW r \in Requests
  PROVE  /\ W!resolve_mode(W!UserMode(values), r) = W!UserAsks(values, r)
         /\ W!UserMode(values).kind = "manual" => W!Beneath(values).mode = W!UserMode(values)
<1> DEFINE string == W!Server(values)
<1>1. values.detect \in BOOLEAN /\ values.url \in {"blank", "good", "bad"}
  BY DEF W!UserValues
<1>2. M!resolve_mode(W!windows_manual(string), r) = W!WindowsAsks(string, r)
  BY TokenStringsAreTokens, WindowsIsObeyed
<1>3. W!UserAsks(values, r) =
          CASE values.detect -> "script"
            [] ~values.detect /\ values.url = "good" -> "script"
            [] ~values.detect /\ values.url = "bad" -> "fails"
            [] ~values.detect /\ values.url = "blank" -> W!WindowsAsks(string, r)
  BY DEF W!UserAsks, W!Server
<1>4. /\ W!Wpad.kind # "manual" /\ W!Pac.kind # "manual" /\ W!Fails.kind # "manual"
  BY DEF W!Wpad, W!Pac, W!Fails
<1>5. W!Beneath(values).mode = W!windows_manual(string)
  BY DEF W!Beneath
<1> HIDE DEF string
<1> QED
  BY <1>1, <1>2, <1>3, <1>4, <1>5, OtherModes, SharedW DEF W!UserMode, string

\* The stores, and the inputs of each.
StoreTopics == {"gnome", "kde", "portal", "env", "string", "apple", "android", "windows"}

StoresAsked ==
    /\ topic = "gnome" => given \in L!GnomeSettings
    /\ topic = "kde" => given \in L!KdeManualFiles \cup L!KdeEnvFiles \cup L!KdeOtherFiles
    /\ topic = "portal" => given \in L!PortalAnswers
    /\ topic = "env" => given \in Environments
    /\ topic = "string" => given \in TokenStrings
    /\ topic = "apple" => given \in Dictionaries
    /\ topic = "android" => given \in N!ProxyInfos
    /\ topic = "windows" => given \in W!UserValues(UserStrings)
    /\ stage = "walking" => topic = "glob"

\* What is said of each request is what the store asks for.
Obeyed(about, inputs, said) ==
    CASE about = "gnome" -> \A r \in Requests : said[r] = L!GnomeAsks(inputs, r)
      [] about = "kde" -> \A r \in Requests : said[r] = L!KdeAsks(inputs, r)
      [] about = "portal" -> \A r \in Requests : said[r] = L!PortalAsks(inputs, r)
      [] about = "env" -> \A r \in Requests : said[r] = L!EnvAsks(inputs, r)
      [] about = "string" -> \A r \in Requests : said[r] = W!WindowsAsks(inputs, r)
      [] about = "apple" -> \A r \in Requests : said[r] = A!AppleAsks(inputs, r)
      [] about = "android" -> \A r \in Requests : said[r] = N!AndroidAsks(inputs, r)
      [] about = "windows" -> \A r \in Requests :
            /\ W!resolve_mode(said.resolved, r) = W!UserAsks(inputs, r)
            /\ said.resolved.kind = "manual" => said.beneath.mode = said.resolved

\* The property, store by store.
StoresObeyed == \A about \in StoreTopics : Answered(about) => Obeyed(about, given, answer)

\* Whatever a store holds, every request gets what that store asks for: the proxy
\* of its own family, else the store's catch-all, and a proxy that was named and
\* lost is an error, never a direct connection.
THEOREM StoresStayObeyed == Spec => []StoresAreObeyed
<1> DEFINE Inv == StoresAsked /\ StoresObeyed
<1>1. Init => Inv
  BY DEF Init, StoresAsked, StoresObeyed, Answered
<1>2. Inv /\ [Next]_vars => Inv'
  <2> SUFFICES ASSUME Inv, [Next]_vars
               PROVE  Inv'
    OBVIOUS
  <2>1. topic' = topic /\ given' = given
    BY TheQuestionStays DEF StoresAsked
  <2>2. StoresAsked'
    BY <2>1, TheQuestionStays DEF StoresAsked
  <2>3. CASE UNCHANGED vars
    BY <2>2, <2>3 DEF vars, StoresObeyed, Answered
  <2>4. CASE stage' # "answered" \/ topic \notin StoreTopics
    BY <2>1, <2>2, <2>4 DEF StoresObeyed, Answered
  <2>5. CASE ~UNCHANGED vars /\ stage' = "answered" /\ topic \in StoreTopics
    <3>1. \/ topic = "gnome" /\ AskGnome
          \/ topic = "kde" /\ AskKde
          \/ topic = "portal" /\ AskPortal
          \/ topic = "env" /\ AskEnv
          \/ topic = "string" /\ AskString
          \/ topic = "apple" /\ AskApple
          \/ topic = "android" /\ AskAndroid
          \/ topic = "windows" /\ AskWindows
      BY <2>5, AnswersAreGiven DEF StoresAsked, StoreTopics
    <3>2. Obeyed(topic, given, answer')
      <4>1. CASE topic = "gnome" /\ AskGnome
        <5>1. /\ given \in L!GnomeSettings
              /\ answer' = [r \in Requests |-> L!resolve_mode(L!mode_from_settings(given), r)]
          BY <4>1 DEF AskGnome, Answer, StoresAsked, Resolved
        <5>2. \A r \in Requests : answer'[r] = L!GnomeAsks(given, r)
          BY <5>1, GnomeIsObeyed
        <5> QED
          BY <4>1, <5>2 DEF Obeyed
      <4>2. CASE topic = "kde" /\ AskKde
        <5>1. /\ given \in L!KdeManualFiles \cup L!KdeEnvFiles \cup L!KdeOtherFiles
              /\ answer' = [r \in Requests |-> L!resolve_mode(L!config_from_kioslaverc(given), r)]
          BY <4>2 DEF AskKde, Answer, StoresAsked, Resolved
        <5>2. \A r \in Requests : answer'[r] = L!KdeAsks(given, r)
          BY <5>1, KdeIsObeyed
        <5> QED
          BY <4>2, <5>2 DEF Obeyed
      <4>3. CASE topic = "portal" /\ AskPortal
        <5>1. /\ given \in L!PortalAnswers
              /\ answer' = [r \in Requests |-> L!resolve_mode(L!PortalMode(given), r)]
          BY <4>3 DEF AskPortal, Answer, StoresAsked, Resolved
        <5>2. \A r \in Requests : answer'[r] = L!PortalAsks(given, r)
          BY <5>1, PortalIsObeyed
        <5> QED
          BY <4>3, <5>2 DEF Obeyed
      <4>4. CASE topic = "env" /\ AskEnv
        <5>1. /\ given \in Environments
              /\ answer' = [r \in Requests |-> L!resolve_mode(L!FromVars(given), r)]
          BY <4>4 DEF AskEnv, Answer, StoresAsked, Resolved
        <5>2. \A r \in Requests : answer'[r] = L!EnvAsks(given, r)
          BY <5>1, EnvIsObeyed
        <5> QED
          BY <4>4, <5>2 DEF Obeyed
      <4>5. CASE topic = "string" /\ AskString
        <5>1. /\ given \in TokenStrings
              /\ answer' = [r \in Requests |-> W!resolve_mode(W!windows_manual(given), r)]
          BY <4>5 DEF AskString, Answer, StoresAsked
        <5>2. \A r \in Requests : answer'[r] = W!WindowsAsks(given, r)
          BY <5>1, WindowsIsObeyed, TokenStringsAreTokens, SharedW
        <5> QED
          BY <4>5, <5>2 DEF Obeyed
      <4>6. CASE topic = "apple" /\ AskApple
        <5>1. /\ given \in Dictionaries
              /\ answer' = [r \in Requests |-> A!resolve_mode(A!mode_from_dict(given), r)]
          BY <4>6 DEF AskApple, Answer, StoresAsked
        <5>2. \A r \in Requests : answer'[r] = A!AppleAsks(given, r)
          BY <5>1, AppleIsObeyed
        <5> QED
          BY <4>6, <5>2 DEF Obeyed
      <4>7. CASE topic = "android" /\ AskAndroid
        <5>1. /\ given \in N!ProxyInfos
              /\ answer' = [r \in Requests |-> N!resolve_mode(N!mode_from_proxy_info(given), r)]
          BY <4>7 DEF AskAndroid, Answer, StoresAsked
        <5>2. \A r \in Requests : answer'[r] = N!AndroidAsks(given, r)
          BY <5>1, AndroidIsObeyed
        <5> QED
          BY <4>7, <5>2 DEF Obeyed
      <4>8. CASE topic = "windows" /\ AskWindows
        <5>1. /\ given \in W!UserValues(UserStrings)
              /\ answer' = [resolved |-> W!UserMode(given), beneath |-> W!Beneath(given)]
          BY <4>8 DEF AskWindows, Answer, StoresAsked
        <5>2. answer'.resolved = W!UserMode(given) /\ answer'.beneath = W!Beneath(given)
          BY <5>1
        <5>3. \A r \in Requests :
                  /\ W!resolve_mode(answer'.resolved, r) = W!UserAsks(given, r)
                  /\ answer'.resolved.kind = "manual" => answer'.beneath.mode = answer'.resolved
          BY <5>1, <5>2, UserIsObeyed
        <5> QED
          BY <4>8, <5>3 DEF Obeyed
      <4> QED
        BY <3>1, <4>1, <4>2, <4>3, <4>4, <4>5, <4>6, <4>7, <4>8
    <3>3. \A about \in StoreTopics : Answered(about)' => about = topic
      BY <2>1 DEF Answered
    <3> QED
      BY <2>1, <2>2, <3>2, <3>3 DEF StoresObeyed
  <2> QED
    BY <2>3, <2>4, <2>5
<1>3. Inv => StoresAreObeyed
  <2> SUFFICES ASSUME Inv
               PROVE  StoresAreObeyed
    OBVIOUS
  <2>1. \A about \in StoreTopics : Answered(about) => Obeyed(about, given, answer)
    BY DEF StoresObeyed
  <2>2. Answered("gnome") => \A r \in Requests : answer[r] = L!GnomeAsks(given, r)
    BY <2>1 DEF StoreTopics, Obeyed
  <2>3. Answered("kde") => \A r \in Requests : answer[r] = L!KdeAsks(given, r)
    BY <2>1 DEF StoreTopics, Obeyed
  <2>4. Answered("portal") => \A r \in Requests : answer[r] = L!PortalAsks(given, r)
    BY <2>1 DEF StoreTopics, Obeyed
  <2>5. Answered("env") => \A r \in Requests : answer[r] = L!EnvAsks(given, r)
    BY <2>1 DEF StoreTopics, Obeyed
  <2>6. Answered("string") => \A r \in Requests : answer[r] = W!WindowsAsks(given, r)
    BY <2>1 DEF StoreTopics, Obeyed
  <2>7. Answered("apple") => \A r \in Requests : answer[r] = A!AppleAsks(given, r)
    BY <2>1 DEF StoreTopics, Obeyed
  <2>8. Answered("android") => \A r \in Requests : answer[r] = N!AndroidAsks(given, r)
    BY <2>1 DEF StoreTopics, Obeyed
  <2>9. Answered("windows") => \A r \in Requests :
            /\ W!resolve_mode(answer.resolved, r) = W!UserAsks(given, r)
            /\ answer.resolved.kind = "manual" => answer.beneath.mode = answer.resolved
    BY <2>1 DEF StoreTopics, Obeyed
  <2> QED
    BY <2>2, <2>3, <2>4, <2>5, <2>6, <2>7, <2>8, <2>9 DEF StoresAreObeyed
<1> QED
  BY <1>1, <1>2, <1>3, PTL DEF Spec
=============================================================================
