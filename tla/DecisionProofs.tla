---------------------------- MODULE DecisionProofs ---------------------------
(***************************************************************************)
(* What the other decisions of Decisions promise, for every question and   *)
(* for whatever bounds the matcher and the chain have: what is measured    *)
(* stays measured, a route is earned, a script keeps to its share, a list  *)
(* fails closed and so does an entry, the layers of kioslaverc are read as *)
(* they are meant, and what a script is told of a pattern, a day, a range  *)
(* or a chain is true.                                                     *)
(***************************************************************************)
EXTENDS StoreProofs
-----------------------------------------------------------------------------
(* Which store is in effect.                                               *)

\* What a store contributes: a source with the name of that store.
StoreNames ==
    {"gsettings", "kioslaverc", "portal", "registry", "policy", "machine", "state", "setup"}
StoreSources == [name : StoreNames, mode : {"direct", "proxied"}]

\* What the three readers hand to with_env: an error, or a configuration whose
\* sources are stores and whose mode is that of the first, if there is one.
FromStores(config) ==
    \/ config = R!Failed
    \/ \E fallbacks : \E s \in Seq(StoreSources) : config = R!Config(s, fallbacks)

\* A store contributes its sources, or none.
LEMMA ContributedSources ==
  ASSUME NEW name \in StoreNames, NEW reading
  PROVE  R!Contributed(name, reading) \in Seq(StoreSources)
  <1>1. CASE R!IsConfigured(reading)
    <2>1. R!Source(name, reading) \in StoreSources
      BY <1>1 DEF R!IsConfigured, R!Source, StoreSources
    <2> QED BY <1>1, <2>1 DEF R!Contributed
  <1>2. CASE ~R!IsConfigured(reading)
    BY <1>2 DEF R!Contributed
  <1> QED BY <1>1, <1>2

\* Two stores contribute those of both, and the first that is configured leads.
LEMMA ContributedTogether ==
  ASSUME NEW name \in StoreNames, NEW reading, NEW name2 \in StoreNames, NEW reading2
  PROVE  LET both == R!Contributed(name, reading) \o R!Contributed(name2, reading2) IN
         /\ both \in Seq(StoreSources)
         /\ both = <<>> <=> ~R!IsConfigured(reading) /\ ~R!IsConfigured(reading2)
         /\ both # <<>> =>
                Head(both).mode = IF R!IsConfigured(reading) THEN reading ELSE reading2
  <1> DEFINE first == R!Contributed(name, reading)
             second == R!Contributed(name2, reading2)
             both == first \o second
  <1>1. /\ R!IsConfigured(reading) => first = <<R!Source(name, reading)>>
        /\ ~R!IsConfigured(reading) => first = <<>>
        /\ R!IsConfigured(reading2) => second = <<R!Source(name2, reading2)>>
        /\ ~R!IsConfigured(reading2) => second = <<>>
    BY DEF R!Contributed
  <1>2. first \in Seq(StoreSources) /\ second \in Seq(StoreSources)
    BY ContributedSources
  <1> HIDE DEF first, second
  <1>3. both \in Seq(StoreSources) /\ Len(both) = Len(first) + Len(second)
    BY <1>2
  <1>4. R!Source(name, reading).mode = reading /\ R!Source(name2, reading2).mode = reading2
    BY DEF R!Source
  <1>5. both = <<>> <=> ~R!IsConfigured(reading) /\ ~R!IsConfigured(reading2)
    BY <1>1, <1>2, <1>3
  <1>6. CASE R!IsConfigured(reading)
    <2>1. Len(first) = 1 /\ first[1] = R!Source(name, reading)
      BY <1>1, <1>6
    <2>2. both[1] = first[1]
      BY <1>2, <2>1, ConcatProperties
    <2>3. Head(both) = R!Source(name, reading)
      BY <1>3, <2>1, <2>2
    <2> QED BY <1>3, <1>4, <1>5, <1>6, <2>3 DEF first, second
  <1>7. CASE ~R!IsConfigured(reading)
    <2>1. both = second
      BY <1>1, <1>2, <1>7
    <2>2. both # <<>> => Head(both) = R!Source(name2, reading2)
      BY <1>1, <2>1
    <2> QED BY <1>3, <1>4, <1>5, <1>7, <2>2 DEF first, second
  <1> QED BY <1>6, <1>7

\* Folding in the environment keeps an error, and otherwise lets it decide where
\* it was to come first or no store had anything to say.
LEMMA EnvIsFolded ==
  ASSUME NEW config, FromStores(config),
         NEW env \in R!Environments, NEW order \in R!EnvPrecedence
  PROVE  /\ config.failed => R!with_env(config, env, order).failed
         /\ ~config.failed =>
                R!with_env(config, env, order).effective =
                    IF env = "set" /\ (order = "before" \/ config.sources = <<>>)
                    THEN "proxied" ELSE config.effective
  <1>1. config.failed => R!with_env(config, env, order).failed
    BY DEF R!with_env
  <1>2. ASSUME ~config.failed
        PROVE  R!with_env(config, env, order).effective =
                   IF env = "set" /\ (order = "before" \/ config.sources = <<>>)
                   THEN "proxied" ELSE config.effective
    <2>7. PICK fallbacks : \E s \in Seq(StoreSources) : config = R!Config(s, fallbacks)
      BY <1>2 DEF FromStores, R!Failed
    <2>1. PICK sources \in Seq(StoreSources) : config = R!Config(sources, fallbacks)
      BY <2>7
    <2>2. /\ config.failed = FALSE /\ config.sources = sources
          /\ config.effective = IF sources = <<>> THEN "direct" ELSE Head(sources).mode
      BY <2>1 DEF R!Config
    <2>3. CASE sources = <<>>
      BY <2>1, <2>2, <2>3 DEF R!with_env, R!Config, R!Source, R!Environments, R!EnvPrecedence
    <2>4. CASE sources # <<>>
      <3>1. 1 \in 1 .. Len(sources) /\ sources[1] \in StoreSources
        BY <2>1, <2>4
      <3>2. sources[1].name # "env"
        BY <3>1 DEF StoreSources, StoreNames
      <3>3. ~(\A i \in 1 .. Len(config.sources) : config.sources[i].name = "env")
        BY <2>2, <3>1, <3>2
      <3> QED BY <2>1, <2>2, <2>4, <3>3 DEF R!with_env, R!Config, R!Source, R!Environments, R!EnvPrecedence
    <2> QED BY <2>3, <2>4
  <1> QED BY <1>1, <1>2

\* macOS: the dictionary in effect decides, else the one on disk.
LEMMA AppleIsMeasured ==
  ASSUME NEW inputs \in R!AppleInputs
  PROVE  /\ FromStores(R!AppleConfig(inputs))
         /\ (R!AppleConfig(inputs).failed <=> R!AppleAsks(inputs) = "failed")
         /\ R!AppleAsks(inputs) # "failed" =>
                /\ R!AppleConfig(inputs).effective = R!AppleAsks(inputs)
                /\ R!AppleConfig(inputs).fallbacks = R!AppleLacks(inputs)
  <1> DEFINE sources == R!Contributed("state", inputs.state) \o R!Contributed("setup", inputs.setup)
  <1>1. inputs.state \in {"absent", "direct", "proxied"} /\ inputs.setup \in {"absent", "direct", "proxied", "failed"}
    BY DEF R!AppleInputs
  <1>2. /\ sources \in Seq(StoreSources)
        /\ sources = <<>> <=> inputs.state = "absent" /\ inputs.setup \in {"absent", "failed"}
        /\ sources # <<>> => Head(sources).mode = IF inputs.state # "absent" THEN inputs.state ELSE inputs.setup
    <2>1. "state" \in StoreNames /\ "setup" \in StoreNames
      BY DEF StoreNames
    <2>2. /\ R!IsConfigured(inputs.state) <=> inputs.state # "absent"
          /\ R!IsConfigured(inputs.setup) <=> inputs.setup \notin {"absent", "failed"}
      BY <1>1 DEF R!IsConfigured
    <2> QED BY <2>1, <2>2, ContributedTogether
  <1> HIDE DEF sources
  <1>3. R!AppleConfig(inputs) = IF inputs.setup = "failed" /\ inputs.state = "absent" THEN R!Failed ELSE
          R!Config(sources, R!AppleLacks(inputs))
    BY DEF R!AppleConfig, R!AppleLacks, sources
  <1>4. FromStores(R!AppleConfig(inputs))
    BY <1>2, <1>3 DEF FromStores
  <1>5. (R!AppleConfig(inputs).failed <=> R!AppleAsks(inputs) = "failed")
    BY <1>1, <1>3 DEF R!AppleAsks, R!Config, R!Failed
  <1>6. ASSUME R!AppleAsks(inputs) # "failed"
        PROVE /\ R!AppleConfig(inputs).effective = R!AppleAsks(inputs)
                /\ R!AppleConfig(inputs).fallbacks = R!AppleLacks(inputs)
    BY <1>1, <1>2, <1>3, <1>6 DEF R!AppleAsks, R!Config
  <1> QED BY <1>4, <1>5, <1>6

\* Windows: the user's settings decide, and are only lost to an error.
LEMMA WindowsIsMeasured ==
  ASSUME NEW inputs \in R!WindowsInputs
  PROVE  /\ FromStores(R!WindowsConfig(inputs))
         /\ (R!WindowsConfig(inputs).failed <=> R!WindowsAsks(inputs) = "failed")
         /\ R!WindowsAsks(inputs) # "failed" =>
                /\ R!WindowsConfig(inputs).effective = R!WindowsAsks(inputs)
                /\ R!WindowsConfig(inputs).fallbacks = R!WindowsLacks(inputs)
  <1> DEFINE user == R!ReadUserMode(inputs)
             above == R!Contributed("registry", user) \o R!Contributed("policy", inputs.policy)
             last == R!Contributed("machine", inputs.machine)
             sources == above \o last
             missed == {s \in {"registry"} : inputs.ie = "failed"}
                           \cup {s \in {"policy"} : inputs.policy = "failed"}
                           \cup {s \in {"machine"} : inputs.machine = "failed"}
  <1>1. /\ inputs.ie \in {"direct", "proxied", "bad", "notfound", "failed"}
        /\ inputs.hkcu \in {"nokey", "undecided", "direct", "proxied", "failed"}
    BY DEF R!WindowsInputs
  <1>2. /\ user \in {"direct", "proxied", "failed"}
        /\ user = R!WindowsAsks(inputs)
    BY <1>1 DEF R!ReadUserMode, R!WindowsAsks
  <1>3. /\ "registry" \in StoreNames /\ "policy" \in StoreNames /\ "machine" \in StoreNames
        /\ R!IsConfigured(user) <=> user # "failed"
    BY <1>2 DEF StoreNames, R!IsConfigured
  <1>4. /\ above \in Seq(StoreSources)
        /\ user # "failed" => above # <<>> /\ Head(above).mode = user
    BY <1>3, ContributedTogether
  <1>5. last \in Seq(StoreSources)
    BY <1>3, ContributedSources
  <1>6. missed = R!WindowsLacks(inputs)
    BY DEF R!WindowsLacks
  <1>7. R!WindowsConfig(inputs) =
            IF user = "failed" THEN R!Failed ELSE R!Config(sources, missed)
    BY DEF R!WindowsConfig
  <1> HIDE DEF user, above, last, missed
  <1>8. /\ sources \in Seq(StoreSources)
        /\ above # <<>> => sources # <<>> /\ Head(sources) = Head(above)
    BY <1>4, <1>5, ConcatProperties
  <1> HIDE DEF sources
  <1>9. FromStores(R!WindowsConfig(inputs))
    BY <1>7, <1>8 DEF FromStores
  <1>10. R!WindowsConfig(inputs).failed <=> R!WindowsAsks(inputs) = "failed"
    BY <1>2, <1>7 DEF R!Config, R!Failed
  <1>11. ASSUME R!WindowsAsks(inputs) # "failed"
         PROVE  /\ R!WindowsConfig(inputs).effective = R!WindowsAsks(inputs)
                /\ R!WindowsConfig(inputs).fallbacks = R!WindowsLacks(inputs)
    BY <1>2, <1>4, <1>6, <1>7, <1>8, <1>11 DEF R!Config
  <1> QED BY <1>9, <1>10, <1>11

\* Of the two stores of a desktop each is the other's other.
LEMMA TheOtherStore ==
  /\ R!Other("gsettings") = "kioslaverc"
  /\ R!Other("kioslaverc") = "gsettings"
  BY DEF R!Other, R!Stores

\* What the variables say of the desktop.
LEMMA TheDesktopIsNamed ==
  ASSUME NEW env \in R!Sessions
  PROVE  R!classify_with_fallback(env) = "kde" <=>
             \/ "kde" \in env.tokens
             \/ /\ env.tokens = {}
                /\ \/ env.session = "kde"
                   \/ env.session = "unknown" /\ ~env.gnome_id /\ env.kde_full
  BY DEF R!Sessions, R!classify_with_fallback, R!classify

\* The two stores of a desktop, of which the first leads.
LEMMA DesktopIsMeasured ==
  ASSUME NEW desktop, NEW read \in SUBSET R!Stores, NEW says \in [R!Stores -> R!Readings]
  PROVE  LET lead == R!Leading(desktop)
             rest == R!Other(lead)
             first == IF lead \in read THEN says[lead] ELSE "absent"
             second == IF rest \in read THEN says[rest] ELSE "absent"
             config == R!DesktopConfig(desktop, read, says)
         IN
         /\ FromStores(config)
         /\ config.failed <=> \/ first = "failed"
                              \/ second = "failed" /\ ~R!IsConfigured(first)
                              \/ first = "absent" /\ second = "absent"
         /\ ~config.failed =>
                /\ config.effective =
                       IF R!IsConfigured(first) THEN first
                       ELSE IF R!IsConfigured(second) THEN second ELSE "direct"
                /\ config.fallbacks =
                       {s \in {rest} : second = "failed"}
                           \cup {s \in {lead} : lead \notin read /\ second \notin {"absent", "failed"}}
  <1> DEFINE lead == R!Leading(desktop)
             rest == R!Other(lead)
             first == IF lead \in read THEN says[lead] ELSE "absent"
             second == IF rest \in read THEN says[rest] ELSE "absent"
             trailing == R!Softened(second, first)
             config == R!DesktopConfig(desktop, read, says)
             sources == R!Contributed(lead, first) \o R!Contributed(rest, trailing)
             missed == {s \in {rest} : second = "failed" /\ trailing = "absent"}
                           \cup {s \in {lead} : lead \notin read /\ trailing # "absent"}
  <1>1. lead \in R!Stores /\ rest \in R!Stores /\ lead # rest
    BY TheOtherStore DEF R!Leading, R!Stores
  <1>2. first \in R!Readings /\ second \in R!Readings
    BY <1>1 DEF R!Readings
  <1>3. lead \in StoreNames /\ rest \in StoreNames
    BY <1>1 DEF R!Stores, StoreNames
  <1>5. config = IF "failed" \in {first, trailing} \/ {first, trailing} = {"absent"}
                 THEN R!Failed ELSE R!Config(sources, missed)
    BY DEF R!DesktopConfig
  <1> HIDE DEF first, second, lead, rest, missed, config
  <1>6. trailing = IF second = "failed" /\ R!IsConfigured(first) THEN "absent" ELSE second
    BY DEF R!Softened
  <1> HIDE DEF trailing
  <1>4. /\ sources \in Seq(StoreSources)
        /\ sources = <<>> <=> ~R!IsConfigured(first) /\ ~R!IsConfigured(trailing)
        /\ sources # <<>> =>
               Head(sources).mode = IF R!IsConfigured(first) THEN first ELSE trailing
    BY <1>3, ContributedTogether
  <1> HIDE DEF sources
  <1>7. FromStores(config)
    BY <1>4, <1>5 DEF FromStores
  <1>8. R!IsConfigured(first) <=> first \in {"direct", "proxied"}
    BY DEF R!IsConfigured
  <1>9. "failed" \in {first, trailing} \/ {first, trailing} = {"absent"} <=>
                              \/ first = "failed"
                              \/ second = "failed" /\ ~R!IsConfigured(first)
                              \/ first = "absent" /\ second = "absent"
    BY <1>2, <1>6, <1>8 DEF R!Readings
  <1>10. config.failed <=> "failed" \in {first, trailing} \/ {first, trailing} = {"absent"}
    BY <1>5 DEF R!Config, R!Failed
  <1>11. ASSUME ~config.failed
         PROVE  /\ config.effective =
                       IF R!IsConfigured(first) THEN first
                       ELSE IF R!IsConfigured(second) THEN second ELSE "direct"
                /\ config.fallbacks = missed
    <2>1. config = R!Config(sources, missed)
      BY <1>5, <1>10, <1>11
    <2>2. config.fallbacks = missed /\ config.effective = IF sources = <<>> THEN "direct" ELSE Head(sources).mode
      BY <2>1 DEF R!Config
    <2> QED BY <2>2, <1>4, <1>6, <1>8, <1>9, <1>10, <1>11 DEF R!IsConfigured
  <1>12. ASSUME ~config.failed
         PROVE missed = {s \in {rest} : second = "failed"}
                           \cup {s \in {lead} : lead \notin read /\ second \notin {"absent", "failed"}}
    <2>1. second = "failed" => R!IsConfigured(first) /\ trailing = "absent"
      BY <1>6, <1>9, <1>10, <1>12
    <2>2. second # "failed" => trailing = second
      BY <1>6
    <2> QED BY <2>1, <2>2 DEF missed
  <1> QED BY <1>7, <1>9, <1>10, <1>11, <1>12 DEF first, second, lead, rest, config

\* Linux: the desktop's store, then the other one; a sandbox without a way to
\* either asks the portal.
LEMMA LinuxIsMeasured ==
  ASSUME NEW inputs \in R!LinuxInputs
  PROVE  /\ FromStores(R!LinuxConfig(inputs))
         /\ (R!LinuxConfig(inputs).failed <=> R!LinuxAsks(inputs) = "failed")
         /\ R!LinuxAsks(inputs) # "failed" =>
                /\ R!LinuxConfig(inputs).effective = R!LinuxAsks(inputs)
                /\ R!LinuxConfig(inputs).fallbacks = R!LinuxLacks(inputs)
  <1> DEFINE env == inputs.env
             desktop == R!classify_with_fallback(env)
             sandbox == R!detect(inputs.host)
             stores == R!route(sandbox, desktop)
             read == stores \cap inputs.compiled
             says == [s \in R!Stores |-> IF s = "gsettings" THEN R!GnomeReading(inputs.schema)
                                         ELSE inputs.kioslaverc]
             kde == \/ "kde" \in env.tokens
                    \/ /\ env.tokens = {}
                       /\ \/ env.session = "kde"
                          \/ env.session = "unknown" /\ ~env.gnome_id /\ env.kde_full
             boxed == inputs.host.flatpak # "absent" \/ inputs.host.snap = "confined"
             gsettings ==
                 IF "gsettings" \notin inputs.compiled \/ ~inputs.schema.installed THEN "absent"
                 ELSE IF inputs.schema.mode = "direct" /\ ~inputs.schema.written THEN "unset"
                 ELSE inputs.schema.mode
             kioslaverc ==
                 IF boxed \/ "kioslaverc" \notin inputs.compiled THEN "absent"
                 ELSE inputs.kioslaverc
             config == R!LinuxConfig(inputs)
             asks == R!LinuxAsks(inputs)
             lacks == R!LinuxLacks(inputs)
  <1>1. /\ env \in R!Sessions /\ inputs.host \in R!Hosts /\ inputs.compiled \in SUBSET R!Stores
        /\ inputs.schema \in R!Schemata /\ inputs.kioslaverc \in R!Readings
        /\ inputs.portal \in {"direct", "proxied", "failed"}
    BY DEF R!LinuxInputs
  <1>2. kde <=> desktop = "kde"
    BY <1>1, TheDesktopIsNamed
  <1>3. /\ sandbox = "none" <=> ~boxed
        /\ sandbox = "trusted" <=> inputs.host.flatpak = "dconf"
        /\ sandbox \in {"none", "trusted", "closed"}
    BY <1>1 DEF R!Hosts, R!detect
  <1>4. stores = IF ~boxed THEN R!Stores
                 ELSE IF inputs.host.flatpak = "dconf" /\ ~kde THEN {"gsettings"} ELSE {}
    BY <1>2, <1>3 DEF R!route
  <1>5. says \in [R!Stores -> R!Readings]
    BY <1>1 DEF R!GnomeReading, R!Schemata, R!Readings
  <1> DEFINE lead == R!Leading(desktop)
             rest == R!Other(lead)
             first == IF lead \in read THEN says[lead] ELSE "absent"
             second == IF rest \in read THEN says[rest] ELSE "absent"
  <1>6. CASE boxed /\ (kde \/ inputs.host.flatpak # "dconf")
    <2>1. stores = {}
      BY <1>4, <1>6
    <2>2. asks = IF "gsettings" \in inputs.compiled THEN inputs.portal ELSE "failed"
      BY <1>6 DEF R!LinuxAsks
    <2>3. lacks = {}
      BY <1>6 DEF R!LinuxLacks
    <2>4. config = IF inputs.portal = "failed" \/ "gsettings" \notin inputs.compiled THEN R!Failed
                   ELSE R!Config(<<R!Source("portal", inputs.portal)>>, {})
      BY <2>1 DEF R!LinuxConfig
    <2>5. inputs.portal # "failed" => <<R!Source("portal", inputs.portal)>> \in Seq(StoreSources)
      <3>1. inputs.portal # "failed" => R!Source("portal", inputs.portal) \in StoreSources
        BY <1>1 DEF R!Source, StoreSources, StoreNames
      <3> QED BY <3>1
    <2>6. FromStores(config)
      BY <2>4, <2>5 DEF FromStores
    <2>7. config.failed <=> asks = "failed"
      BY <1>1, <2>2, <2>4 DEF R!Config, R!Failed
    <2>8. asks # "failed" => config.effective = asks /\ config.fallbacks = lacks
      BY <1>1, <2>2, <2>3, <2>4 DEF R!Config, R!Source
    <2> QED BY <2>6, <2>7, <2>8
  <1>7. CASE ~(boxed /\ (kde \/ inputs.host.flatpak # "dconf"))
    <2>1. stores # {} /\ read \in SUBSET R!Stores
      BY <1>4, <1>7 DEF R!Stores
    <2>2. config = R!DesktopConfig(desktop, read, says)
      BY <2>1 DEF R!LinuxConfig
    <2>3. /\ lead = IF kde THEN "kioslaverc" ELSE "gsettings"
          /\ rest = IF kde THEN "gsettings" ELSE "kioslaverc"
      BY <1>2, TheOtherStore DEF R!Leading
    <2>4. /\ first = IF kde THEN kioslaverc ELSE gsettings
          /\ second = IF kde THEN gsettings ELSE kioslaverc
      BY <1>1, <1>4, <1>7, <2>3 DEF R!GnomeReading, R!Stores
    <2>5. first \in R!Readings /\ second \in R!Readings
      BY <1>5, <2>1 DEF R!Readings
    <2> DEFINE order == IF kde THEN <<kioslaverc, gsettings>> ELSE <<gsettings, kioslaverc>>
    <2>6. /\ first \in {"direct", "proxied", "failed"} => asks = first
          /\ first = "absent" /\ second = "absent" => asks = "failed"
          /\ first \in {"unset", "absent"} /\ second = "unset" => asks = "direct"
          /\ first = "unset" /\ second = "absent" => asks = "direct"
          /\ first \in {"unset", "absent"} /\ second \in {"direct", "proxied", "failed"}
                => asks = second
      <3>1. order = <<first, second>>
        BY <2>4
      <3>2. asks = CASE order[1] \in {"direct", "proxied"} -> order[1]
           [] order[1] = "failed" -> "failed"
           [] order = <<"absent", "absent">> -> "failed"
           [] order[1] \in {"unset", "absent"} /\ order[2] = "unset" -> "direct"
           [] order[1] = "unset" /\ order[2] = "absent" -> "direct"
           [] order[1] \in {"unset", "absent"} /\ order[2] \in {"direct", "proxied", "failed"}
                -> order[2]
        BY <1>7, Zenon DEF R!LinuxAsks
      <3> HIDE DEF asks, first, second, order
      <3>3. order[1] = first /\ order[2] = second /\ (order = <<"absent", "absent">> <=> first = "absent" /\ second = "absent")
        BY <3>1
      <3>4. asks = CASE first \in {"direct", "proxied"} -> first
           [] first = "failed" -> "failed"
           [] first = "absent" /\ second = "absent" -> "failed"
           [] first \in {"unset", "absent"} /\ second = "unset" -> "direct"
           [] first = "unset" /\ second = "absent" -> "direct"
           [] first \in {"unset", "absent"} /\ second \in {"direct", "proxied", "failed"}
                -> second
        BY <3>2, <3>3
      <3> QED BY <3>4
    <2> DEFINE missed == {s \in {rest} : second = "failed"}
                             \cup {s \in {lead} : lead \notin read
                                                      /\ second \notin {"absent", "failed"}}
    <2>7. asks # "failed" => lacks = missed
      <3>1. CASE boxed
        <4>1. lacks = {}
          BY <3>1 DEF R!LinuxLacks
        <4>2. second = "absent"
          BY <1>7, <2>4, <3>1
        <4> HIDE DEF second, lacks
        <4> QED BY <4>1, <4>2
      <3>2. CASE ~boxed /\ asks # "failed"
        <4>1. read = inputs.compiled
          BY <1>1, <1>4, <3>2
        <4>2. lacks = {s \in inputs.compiled :
                          \/ s = "kioslaverc" /\ inputs.kioslaverc = "failed"
                          \/ s = "gsettings" /\ inputs.schema.installed
                                             /\ inputs.schema.mode = "failed"}
                  \cup {s \in R!Stores \ inputs.compiled : (s = "kioslaverc") <=> (desktop = "kde")}
          BY <3>2 DEF R!LinuxLacks
        <4>3. /\ gsettings = "failed" <=> /\ "gsettings" \in inputs.compiled
                                          /\ inputs.schema.installed
                                          /\ inputs.schema.mode = "failed"
              /\ kioslaverc = "failed" <=> "kioslaverc" \in inputs.compiled
                                               /\ inputs.kioslaverc = "failed"
          BY <3>2
        <4>4. lacks = {s \in {"kioslaverc"} : kioslaverc = "failed"}
                          \cup {s \in {"gsettings"} : gsettings = "failed"}
                          \cup {s \in {lead} : lead \notin read}
          BY <1>1, <1>2, <2>3, <4>1, <4>2, <4>3 DEF R!Stores
        <4>5. first # "failed" /\ (lead \notin read => first = "absent" /\ second \notin {"absent", "failed"})
          BY <2>5, <2>6, <3>2
        <4> HIDE DEF first, second, lead, rest, read, kioslaverc, gsettings, lacks, kde
        <4> QED BY <2>3, <2>4, <4>4, <4>5
      <3> QED BY <3>1, <3>2
    <2> HIDE DEF first, second, lead, rest, read, says, stores, sandbox, desktop, config, asks, lacks
    <2>8. /\ FromStores(config)
          /\ config.failed <=> \/ first = "failed"
                               \/ second = "failed" /\ ~R!IsConfigured(first)
                               \/ first = "absent" /\ second = "absent"
          /\ ~config.failed =>
                /\ config.effective =
                       IF R!IsConfigured(first) THEN first
                       ELSE IF R!IsConfigured(second) THEN second ELSE "direct"
                /\ config.fallbacks = missed
      BY <1>5, <2>1, <2>2, DesktopIsMeasured DEF first, second, lead, rest
    <2>9. config.failed <=> asks = "failed"
      <3>1. asks = "failed" <=> \/ first = "failed"
                                \/ second = "failed" /\ first \notin {"direct", "proxied"}
                                \/ first = "absent" /\ second = "absent"
        BY <2>5, <2>6 DEF R!Readings
      <3> QED BY <3>1, <2>8 DEF R!IsConfigured
    <2>10. asks # "failed" => config.effective = asks
      BY <2>5, <2>6, <2>8, <2>9 DEF R!IsConfigured, R!Readings
    <2> QED BY <2>7, <2>8, <2>9, <2>10 DEF config, asks, lacks
  <1> QED BY <1>6, <1>7

\* What must be in effect and what is lacking, of whichever system is asked about.
SystemAsks(about, inputs) ==
    CASE about = "linux" -> R!LinuxAsks(inputs)
      [] about = "win" -> R!WindowsAsks(inputs)
      [] about = "mac" -> R!AppleAsks(inputs)

SystemLacks(about, inputs) ==
    CASE about = "linux" -> R!LinuxLacks(inputs)
      [] about = "win" -> R!WindowsLacks(inputs)
      [] about = "mac" -> R!AppleLacks(inputs)

\* An answer is right about the mode in effect, alone and with the environment.
Measured(asks, lacks, config, folded) ==
    IF asks = "failed"
    THEN \A e \in DOMAIN folded : folded[e].failed
    ELSE /\ ~config.failed /\ config.effective = asks /\ config.fallbacks = lacks
         /\ \A e \in DOMAIN folded :
                folded[e].effective =
                    IF e[1] = "set" /\ (e[2] = "before" \/ config.sources = <<>>)
                    THEN "proxied" ELSE asks

\* An environment added to a configuration keeps its measure.
LEMMA WithEnvIsMeasured ==
  ASSUME NEW config, FromStores(config), NEW asks, NEW lacks,
         config.failed <=> asks = "failed",
         asks # "failed" => config.effective = asks /\ config.fallbacks = lacks
  PROVE  Measured(asks, lacks, WithEnv(config).alone, WithEnv(config).folded)
  <1> DEFINE folded == WithEnv(config).folded
  <1>1. /\ WithEnv(config).alone = config
        /\ DOMAIN folded = R!Environments \X R!EnvPrecedence
        /\ \A e \in R!Environments \X R!EnvPrecedence :
               folded[e] = R!with_env(config, e[1], e[2])
    BY DEF WithEnv
  <1>2. ASSUME NEW e \in R!Environments \X R!EnvPrecedence
        PROVE  /\ config.failed => folded[e].failed
               /\ ~config.failed =>
                      folded[e].effective =
                          IF e[1] = "set" /\ (e[2] = "before" \/ config.sources = <<>>)
                          THEN "proxied" ELSE config.effective
    <2>1. e[1] \in R!Environments /\ e[2] \in R!EnvPrecedence
      OBVIOUS
    <2> QED BY <1>1, <2>1, EnvIsFolded
  <1> QED BY <1>1, <1>2 DEF Measured

\* The property, answer by answer.
SystemMeasured ==
    \A about \in {"linux", "win", "mac"} : Answered(about) =>
        Measured(SystemAsks(about, given), SystemLacks(about, given),
                 answer.alone, answer.folded)

\* The inputs of the three readers.
SystemAsked ==
    /\ topic = "linux" => given \in R!LinuxInputs
    /\ topic = "win" => given \in R!WindowsInputs
    /\ topic = "mac" => given \in R!AppleInputs
    /\ stage = "walking" => topic = "glob"

\* The configuration in effect is the one of the leading store that has any, on each
\* system, and an environment before or behind it changes what it has to.
THEOREM EffectiveStaysMeasured == Spec => []EffectiveIsMeasured
  <1> DEFINE Inv == SystemAsked /\ SystemMeasured
  <1>1. Init => Inv
    <2>1. LinuxInputs \subseteq R!LinuxInputs
      BY DEF LinuxInputs, R!LinuxInputs, Sessions, R!Sessions
    <2> QED BY <2>1 DEF Init, SystemAsked, SystemMeasured, Answered
  <1>2. Inv /\ [Next]_vars => Inv'
    <2> SUFFICES ASSUME Inv, [Next]_vars
                 PROVE  Inv'
      OBVIOUS
    <2>1. topic' = topic /\ given' = given
      BY TheQuestionStays DEF SystemAsked
    <2>2. SystemAsked'
      BY <2>1, TheQuestionStays DEF SystemAsked
    <2>3. CASE UNCHANGED vars
      BY <2>2, <2>3 DEF vars, SystemMeasured, Answered
    <2>4. CASE stage' # "answered" \/ topic \notin {"linux", "win", "mac"}
      BY <2>1, <2>2, <2>4 DEF SystemMeasured, Answered
    <2>5. CASE ~UNCHANGED vars /\ stage' = "answered" /\ topic \in {"linux", "win", "mac"}
      <3>1. \/ topic = "linux" /\ AskLinux
            \/ topic = "win" /\ AskWin
            \/ topic = "mac" /\ AskMac
        BY <2>5, AnswersAreGiven DEF SystemAsked
      <3>2. CASE topic = "linux" /\ AskLinux
        <4>1. answer' = WithEnv(R!LinuxConfig(given)) /\ given \in R!LinuxInputs
          BY <3>2 DEF AskLinux, Answer, SystemAsked
        <4>2. Measured(SystemAsks("linux", given), SystemLacks("linux", given), answer'.alone, answer'.folded)
          BY <4>1, LinuxIsMeasured, WithEnvIsMeasured DEF SystemAsks, SystemLacks
        <4> QED BY <2>1, <2>2, <3>2, <4>2, <2>5 DEF Answered, SystemMeasured
      <3>3. CASE topic = "win" /\ AskWin
        <4>1. answer' = WithEnv(R!WindowsConfig(given)) /\ given \in R!WindowsInputs
          BY <3>3 DEF AskWin, Answer, SystemAsked
        <4>2. Measured(SystemAsks("win", given), SystemLacks("win", given), answer'.alone, answer'.folded)
          BY <4>1, WindowsIsMeasured, WithEnvIsMeasured DEF SystemAsks, SystemLacks
        <4> QED BY <2>1, <2>2, <3>3, <4>2, <2>5 DEF Answered, SystemMeasured
      <3>4. CASE topic = "mac" /\ AskMac
        <4>1. answer' = WithEnv(R!AppleConfig(given)) /\ given \in R!AppleInputs
          BY <3>4 DEF AskMac, Answer, SystemAsked
        <4>2. Measured(SystemAsks("mac", given), SystemLacks("mac", given), answer'.alone, answer'.folded)
          BY <4>1, AppleIsMeasured, WithEnvIsMeasured DEF SystemAsks, SystemLacks
        <4> QED BY <2>1, <2>2, <3>4, <4>2, <2>5 DEF Answered, SystemMeasured
      <3> QED BY <3>1, <3>2, <3>3, <3>4
    <2> QED BY <2>3, <2>4, <2>5
  <1>3. Inv => EffectiveIsMeasured
    BY DEF EffectiveIsMeasured, SystemMeasured, Measured, SystemAsks, SystemLacks
  <1> QED BY <1>1, <1>2, <1>3, PTL DEF Spec
-----------------------------------------------------------------------------
(* Who answers for a request.                                              *)

\* What ran was wanted, and how it ended was not changed.
IsTrue(q, ran) == T!WhatIsTrue(q, ran) /\ T!EndIsTrue(q, ran)

\* Nothing that ran is true unless it goes direct.
LEMMA NothingIsTrue ==
  ASSUME NEW q, NEW end, end = "direct" => q.hostless \/ q.mode = "direct"
  PROVE  IsTrue(q, T!NothingRan(end))
  BY DEF T!Ran, T!NothingRan, IsTrue, T!WhatIsTrue, T!EndIsTrue

\* What ran ends as it does, if it is what was wanted.
LEMMA RanIsTrue ==
  ASSUME NEW q, NEW engine, NEW what, what = T!Wanted(q), what # "nothing", q.end # "miss"
  PROVE  IsTrue(q, T!Ran(engine, what, q.end))
  BY DEF T!Ran, T!NothingRan, IsTrue, T!WhatIsTrue, T!EndIsTrue

\* What a question may hold, field by field.
LEMMA TheQuestionIsTyped ==
  ASSUME NEW q \in T!Questions
  PROVE  /\ q.platform \in {"windows", "apple", "android", "linux"}
         /\ q.mode \in {"direct", "manual", "unusable", "pac", "inline", "wpad"}
         /\ q.pac \in {"none", "native", "quickjs", "auto"}
         /\ q.quickjs \in BOOLEAN /\ q.ours \in BOOLEAN /\ q.hostless \in BOOLEAN
         /\ q.script \in BOOLEAN /\ q.wpad \in BOOLEAN
         /\ q.opens \in BOOLEAN /\ q.live \in BOOLEAN
         /\ q.end \in {"direct", "proxy", "failed", "miss"}
         /\ q.beneath.end \in {"read", "failed"}
         /\ q.beneath.url \in BOOLEAN /\ q.beneath.manual \in BOOLEAN
         /\ q.end = "miss" => q.mode = "wpad" /\ q.platform = "windows" /\ ~q.script
         /\ q.opens \/ q.platform = "windows"
         /\ q.live \/ q.platform = "android"
         /\ q.beneath.end = "failed" => ~q.beneath.url /\ ~q.beneath.manual
  BY DEF T!Questions, T!Modes

\* How resolve ends: it runs nothing.
EndOfResolve(q) ==
    IF q.mode = "direct" \/ (q.mode \in {"manual", "unusable"} /\ q.hostless) THEN "direct"
    ELSE IF q.mode = "manual" THEN "proxy"
    ELSE IF q.mode = "unusable" THEN "failed" ELSE "not_supported"

\* It ends directly only where that was asked for, or where there is no host.
LEMMA ResolveEnds ==
  ASSUME NEW q \in T!Questions
  PROVE  /\ T!resolve(q) = T!NothingRan(EndOfResolve(q))
         /\ EndOfResolve(q) = "direct" => q.hostless \/ q.mode = "direct"
         /\ EndOfResolve(q) # "caller"
  BY TheQuestionIsTyped DEF T!resolve, T!Scripted, EndOfResolve

\* So what it says is true.
LEMMA ResolveIsTrue ==
  ASSUME NEW q \in T!Questions
  PROVE  IsTrue(q, T!resolve(q))
  <1>1. /\ T!resolve(q) = T!NothingRan(EndOfResolve(q))
        /\ EndOfResolve(q) = "direct" => q.hostless \/ q.mode = "direct"
    BY ResolveEnds
  <1> QED BY <1>1, NothingIsTrue

\* Auto-detection: a miss is answered by what lies beneath it in its own store.
LEMMA DiscoveryIsTrue ==
  ASSUME NEW q \in T!Questions, T!Wanted(q) = "discovery"
  PROVE  IsTrue(q, T!resolve_wpad_with_fallback(q))
  <1> DEFINE beneath == T!wpad_fallback(q)
             what == IF beneath.url THEN "discovery_then_url" ELSE "discovery"
             ran == T!resolve_wpad_with_fallback(q)
  <1>1. /\ beneath.url <=> q.ours /\ q.beneath.url
        /\ beneath.manual <=> q.ours /\ q.beneath.manual
    BY TheQuestionIsTyped DEF T!wpad_fallback
  <1>2. CASE beneath.end = "failed"
    BY <1>2, NothingIsTrue DEF T!resolve_wpad_with_fallback
  <1>3. CASE beneath.end # "failed"
    <2>1. ran = T!Ran("native", what, IF q.end # "miss" THEN q.end
                                      ELSE IF beneath.manual THEN "proxy" ELSE "direct")
      BY <1>3 DEF T!resolve_wpad_with_fallback
    <2>2. ran.what = what /\ ran.end = IF q.end # "miss" THEN q.end
                                      ELSE IF beneath.manual THEN "proxy" ELSE "direct"
      BY <2>1 DEF T!Ran, T!NothingRan
    <2>3. T!WhatIsTrue(q, ran)
      BY <1>1, <2>2 DEF T!WhatIsTrue
    <2>4. T!EndIsTrue(q, ran)
      BY <1>1, <2>2 DEF T!EndIsTrue
    <2> QED BY <2>3, <2>4 DEF IsTrue
  <1> QED BY <1>2, <1>3

\* The engine of a system runs what is wanted, nothing, or for what it does not
\* take hands the configuration back.
LEMMA SystemEnginesAreTrue ==
  ASSUME NEW q \in T!Questions, ~q.script, q.mode \in {"pac", "wpad"},
         q.platform # "linux", NEW wpad \in BOOLEAN
  PROVE  /\ IsTrue(q, T!NativeConfig(q, wpad))
         /\ T!NativeConfig(q, wpad).engine \in {"none", "native"}
         /\ T!NativeConfig(q, wpad).engine = "none" <=> T!NativeConfig(q, wpad).what = "nothing"
  <1> DEFINE ran == T!NativeConfig(q, wpad)
  <1>1. /\ q.mode = "pac" /\ ~q.hostless => T!Wanted(q) = "url" /\ q.end # "miss"
        /\ q.mode = "wpad" /\ ~q.hostless => T!Wanted(q) = "discovery"
    BY TheQuestionIsTyped DEF T!Wanted, T!Scripted
  <1>2. CASE q.platform = "windows"
    <2>1. ran = IF ~q.opens THEN T!NothingRan("failed")
                ELSE IF q.hostless THEN T!NothingRan("direct")
                ELSE IF q.mode = "pac" THEN T!Ran("native", "url", q.end)
                ELSE IF ~wpad THEN T!NothingRan("not_supported")
                ELSE T!resolve_wpad_with_fallback(q)
      BY <1>2, TheQuestionIsTyped DEF T!NativeConfig, T!WinHttpConfig, T!Scripted
    <2>2. LET found == T!resolve_wpad_with_fallback(q) IN
          found.engine \in {"none", "native"} /\ (found.engine = "none" <=> found.what = "nothing")
      BY DEF T!Ran, T!NothingRan, T!resolve_wpad_with_fallback
    <2>3. CASE ~q.opens \/ q.hostless
      BY <2>1, <2>3, NothingIsTrue, TheQuestionIsTyped DEF T!Ran, T!NothingRan
    <2>4. CASE q.opens /\ ~q.hostless /\ q.mode = "pac"
      BY <1>1, <2>1, <2>4, RanIsTrue DEF T!Ran, T!NothingRan
    <2>5. CASE q.opens /\ ~q.hostless /\ q.mode = "wpad"
      BY <1>1, <2>1, <2>2, <2>5, NothingIsTrue, DiscoveryIsTrue DEF T!Ran, T!NothingRan
    <2> QED BY <2>3, <2>4, <2>5
  <1>3. CASE q.platform = "apple"
    <2>1. ran = IF q.hostless THEN T!NothingRan("direct")
                ELSE IF q.mode = "pac" THEN T!Ran("native", "url", q.end)
                ELSE IF wpad /\ q.ours THEN T!Ran("native", "discovery", q.end)
                ELSE T!NothingRan("not_supported")
      BY <1>3, TheQuestionIsTyped DEF T!NativeConfig, T!CfNetworkConfig, T!Scripted
    <2>2. q.end # "miss"
      BY <1>3, TheQuestionIsTyped
    <2> QED BY <1>1, <2>1, <2>2, NothingIsTrue, RanIsTrue DEF T!Ran, T!NothingRan
  <1>4. CASE q.platform = "android"
    <2>1. ran = IF q.hostless THEN T!NothingRan("direct")
                ELSE IF q.mode = "pac" /\ q.ours /\ q.live THEN T!Ran("native", "url", q.end)
                ELSE IF q.mode = "pac" /\ q.ours THEN T!NothingRan("failed")
                ELSE T!NothingRan("not_supported")
      BY <1>4, TheQuestionIsTyped DEF T!NativeConfig, T!AndroidConfig, T!resolve, T!Scripted
    <2> QED BY <1>1, <2>1, NothingIsTrue, RanIsTrue DEF T!Ran, T!NothingRan
  <1> QED BY <1>2, <1>3, <1>4, TheQuestionIsTyped

\* The evaluator of bodies, whichever engine it is.
LEMMA BodiesAreTrue ==
  ASSUME NEW q \in T!Questions, NEW engine, engine # "none"
  PROVE  LET ran == T!resolve_with_pac_using(q, q.script, engine) IN
         /\ IsTrue(q, ran)
         /\ ran.engine \in {"none", engine}
         /\ ran.what = "nothing" <=> ran.engine = "none"
         /\ ~q.hostless /\ q.mode \in T!Scripted /\ (q.script \/ q.mode = "inline") =>
                ran.what # "nothing" /\ ran.end = q.end
         /\ ran.end # "caller"
  <1> DEFINE ran == T!resolve_with_pac_using(q, q.script, engine)
             evaluated == ~q.hostless /\ q.mode \in T!Scripted
                              /\ (q.script \/ q.mode = "inline")
  <1>1. ASSUME evaluated
        PROVE  /\ ran = T!Ran(engine, T!Wanted(q), q.end)
               /\ T!Wanted(q) # "nothing" /\ q.end # "miss"
    BY <1>1, TheQuestionIsTyped DEF T!resolve_with_pac_using, T!Wanted, T!Scripted
  <1>2. CASE q.mode \notin T!Scripted
    <2>1. ran = T!resolve(q)
      BY <1>2 DEF T!resolve_with_pac_using
    <2>2. ran.what = "nothing" /\ ran.engine = "none" /\ ran.end # "caller"
      BY <1>2, <2>1, TheQuestionIsTyped DEF T!Ran, T!NothingRan, T!resolve, T!Scripted
    <2> QED BY <1>2, <2>1, <2>2, ResolveIsTrue
  <1>3. CASE q.mode \in T!Scripted /\ ~evaluated
    <2>1. ran = T!NothingRan(IF q.hostless THEN "direct"
                             ELSE IF q.mode = "pac" THEN "fetch_required" ELSE "not_supported")
      BY <1>3, TheQuestionIsTyped DEF T!resolve_with_pac_using, T!Scripted
    <2> QED BY <1>3, <2>1, NothingIsTrue DEF T!Ran, T!NothingRan
  <1>4. CASE evaluated
    <2>1. q.end # "caller"
      BY TheQuestionIsTyped
    <2> QED BY <1>1, <1>4, <2>1, RanIsTrue DEF T!Ran, T!NothingRan
  <1> QED BY <1>2, <1>3, <1>4

\* What a resolver says is true, whichever engine it is given to.
LEMMA ResolverIsTrue ==
  ASSUME NEW q \in T!Questions, NEW native \in BOOLEAN, native => q.platform # "linux"
  PROVE  IsTrue(q, T!resolve_config(q, native, q.wpad))
  <1>1. CASE native /\ ~q.script /\ q.mode \in {"pac", "wpad"}
    <2>1. T!resolve_config(q, native, q.wpad) = T!NativeConfig(q, q.wpad)
      BY <1>1 DEF T!resolve_config
    <2> QED BY <1>1, <2>1, SystemEnginesAreTrue, TheQuestionIsTyped
  <1>2. CASE ~(native /\ ~q.script /\ q.mode \in {"pac", "wpad"})
    <2>1. T!resolve_config(q, native, q.wpad) = T!resolve_with_pac_using(q, q.script, "evaluator")
      BY <1>2 DEF T!resolve_config
    <2> QED BY <2>1, BodiesAreTrue
  <1> QED BY <1>1, <1>2

\* The property of one answer of the bindings' route.
RouteIsEarned(q, ran) ==
    /\ IsTrue(q, ran)
    /\ ran.engine = "native" => q.pac \in {"native", "auto"}
    /\ ran.engine = "quickjs" => q.pac \in {"quickjs", "auto"} /\ q.quickjs
    /\ ran.end = "caller" => T!Wanted(q) # "nothing" /\ ~T!Able(q) /\ ~q.script
    /\ T!Able(q) /\ ran.what = "nothing" =>
           /\ ran.end = "failed"
           /\ T!Refuses(q) \/ ~q.opens \/ ~q.live \/ q.beneath.end = "failed"

\* A body is the engine's that was asked for and can, or nobody's.
LEMMA RouteOfBodies ==
  ASSUME NEW q \in T!Questions, q.mode \in T!Scripted, ~q.hostless,
         q.script \/ q.mode = "inline"
  PROVE  RouteIsEarned(q, T!RouteBody(q))
  <1> DEFINE engine == T!body_engine(q)
             ran == T!RouteBody(q)
  <1>1. /\ T!Wanted(q) \in {"handed", "own"}
        /\ T!Able(q) <=> engine # "none"
        /\ engine \in {"none", "native", "quickjs"}
        /\ engine = "native" => q.pac \in {"native", "auto"}
        /\ engine = "quickjs" => q.pac \in {"quickjs", "auto"} /\ q.quickjs
    <2>1. T!Wanted(q) \in {"handed", "own"}
      BY DEF T!Wanted, T!Scripted
    <2>2. engine = IF q.platform = "apple" /\ q.pac \in {"native", "auto"} THEN "native"
                   ELSE IF q.quickjs /\ q.pac \in {"quickjs", "auto"} THEN "quickjs" ELSE "none"
      BY DEF T!body_engine, T!NATIVE_RUNS_BODY
    <2>3. T!Able(q) <=> \/ q.pac \in {"native", "auto"} /\ q.platform = "apple"
                        \/ q.pac \in {"quickjs", "auto"} /\ q.quickjs
      BY <2>1 DEF T!Able
    <2> HIDE DEF engine
    <2> QED BY <2>1, <2>2, <2>3
  <1>2. CASE engine # "none"
    <2>1. ran = T!resolve_with_pac_using(q, q.script, engine)
      BY <1>2 DEF T!RouteBody
    <2> HIDE DEF engine, ran
    <2>2. /\ IsTrue(q, ran) /\ ran.engine \in {"none", engine}
          /\ ran.what # "nothing" /\ ran.end # "caller"
      BY <1>2, <2>1, BodiesAreTrue
    <2> QED BY <1>1, <2>2 DEF RouteIsEarned, ran
  <1>3. CASE engine = "none"
    <2>1. ran = IF q.script \/ q.pac = "quickjs" THEN T!NothingRan("failed")
                ELSE T!NothingRan("caller")
      BY <1>3 DEF T!RouteBody
    <2> HIDE DEF engine, ran
    <2>2. IsTrue(q, ran) /\ ran.engine = "none" /\ (ran.end = "caller" => ~q.script)
      BY <2>1, NothingIsTrue DEF T!Ran, T!NothingRan
    <2> QED BY <1>1, <1>3, <2>2 DEF RouteIsEarned, ran
  <1> QED BY <1>2, <1>3

\* A script of the system's is the system's engine to run, or the caller's.
LEMMA RouteOfTheSystem ==
  ASSUME NEW q \in T!Questions, q.mode \in {"pac", "wpad"}, ~q.hostless, ~q.script
  PROVE  RouteIsEarned(q, T!RouteFound(q))
  <1> DEFINE runs == IF q.mode = "wpad" THEN q.wpad /\ q.platform \in {"windows", "apple"}
                     ELSE q.platform # "linux"
             asked == runs /\ q.pac \in {"native", "auto"}
             found == T!NativeConfig(q, q.wpad)
             ran == T!RouteFound(q)
  <1>1. ran = IF ~asked \/ found.end \in T!HandsOver THEN T!NothingRan("caller") ELSE found
    BY DEF T!RouteFound, T!NATIVE_RUNS_WPAD, T!NATIVE_RUNS_URL
  <1>2. /\ q.mode = "pac" => T!Wanted(q) = "url"
        /\ q.mode = "wpad" => T!Wanted(q) = "discovery"
    BY DEF T!Wanted, T!Scripted
  <1>3. T!Able(q) <=> /\ asked
                      /\ q.mode = "pac" /\ q.platform = "android" => q.ours
                      /\ q.mode = "wpad" /\ q.platform = "apple" => q.ours
    BY <1>2, TheQuestionIsTyped DEF T!Able
  <1>4. CASE ~asked
    <2>1. ran = T!NothingRan("caller")
      BY <1>1, <1>4
    <2> HIDE DEF ran, asked
    <2> QED BY <1>2, <1>3, <1>4, <2>1, NothingIsTrue DEF T!Ran, T!NothingRan, RouteIsEarned, ran
  <1>5. CASE asked
    <2>1. /\ IsTrue(q, found) /\ found.engine \in {"none", "native"}
          /\ found.engine = "none" <=> found.what = "nothing"
      BY <1>5, SystemEnginesAreTrue, TheQuestionIsTyped
    <2>2. CASE T!Able(q)
      <3>1. /\ found.end \notin T!HandsOver /\ found.end # "caller"
            /\ found.what = "nothing" => /\ found.end = "failed"
                                         /\ ~q.opens \/ ~q.live \/ q.beneath.end = "failed"
        <4>1. CASE q.platform = "windows" /\ q.mode = "pac"
          <5>1. found = IF q.opens THEN T!Ran("native", "url", q.end) ELSE T!NothingRan("failed")
            BY <4>1 DEF T!NativeConfig, T!WinHttpConfig, T!Scripted
          <5> QED BY <5>1, TheQuestionIsTyped DEF T!Ran, T!NothingRan, T!HandsOver
        <4>2. CASE q.platform = "windows" /\ q.mode = "wpad"
          <5>1. found = IF q.opens THEN T!resolve_wpad_with_fallback(q) ELSE T!NothingRan("failed")
            BY <1>5, <4>2 DEF T!NativeConfig, T!WinHttpConfig, T!Scripted
          <5>2. CASE ~q.opens
            BY <5>1, <5>2 DEF T!Ran, T!NothingRan, T!HandsOver
          <5>3. CASE q.opens
            <6> DEFINE beneath == T!wpad_fallback(q)
                       what == IF beneath.url THEN "discovery_then_url" ELSE "discovery"
                       end == IF q.end # "miss" THEN q.end
                              ELSE IF beneath.manual THEN "proxy" ELSE "direct"
            <6>1. found = IF beneath.end = "failed" THEN T!NothingRan("failed")
                          ELSE T!Ran("native", what, end)
              BY <5>1, <5>3 DEF T!resolve_wpad_with_fallback
            <6>2. beneath.end = "failed" => q.beneath.end = "failed"
              BY DEF T!wpad_fallback
            <6>3. end \in {"direct", "proxy", "failed"} /\ what # "nothing"
              BY TheQuestionIsTyped
            <6> HIDE DEF end, what, beneath
            <6> QED BY <6>1, <6>2, <6>3 DEF T!Ran, T!NothingRan, T!HandsOver
          <5> QED BY <5>2, <5>3
        <4>3. CASE q.platform = "apple"
          <5>1. found = T!Ran("native", T!Wanted(q), q.end)
            BY <1>2, <1>3, <1>5, <2>2, <4>3 DEF T!NativeConfig, T!CfNetworkConfig, T!Scripted
          <5> QED BY <1>2, <5>1, TheQuestionIsTyped DEF T!Ran, T!NothingRan, T!HandsOver
        <4>4. CASE q.platform = "android"
          <5>1. found = IF q.live THEN T!Ran("native", "url", q.end) ELSE T!NothingRan("failed")
            BY <1>3, <1>5, <2>2, <4>4 DEF T!NativeConfig, T!AndroidConfig, T!Scripted
          <5> QED BY <5>1, TheQuestionIsTyped DEF T!Ran, T!NothingRan, T!HandsOver
        <4> QED BY <1>5, <4>1, <4>2, <4>3, <4>4, TheQuestionIsTyped
      <3>2. ran = found
        BY <1>1, <1>5, <3>1
      <3> HIDE DEF ran, found, asked
      <3> QED BY <1>5, <2>1, <2>2, <3>1, <3>2 DEF RouteIsEarned, ran, asked
    <2>3. CASE ~T!Able(q)
      <3>1. CASE found.end \in T!HandsOver
        <4>1. ran = T!NothingRan("caller")
          BY <1>1, <3>1
        <4> HIDE DEF ran, asked
        <4> QED BY <1>2, <2>3, <4>1, NothingIsTrue DEF T!Ran, T!NothingRan, RouteIsEarned, ran
      <3>2. CASE found.end \notin T!HandsOver
        <4>1. found = T!NothingRan("not_supported")
          BY <1>2, <1>3, <1>5, <2>3, TheQuestionIsTyped
             DEF T!NativeConfig, T!CfNetworkConfig, T!AndroidConfig, T!resolve, T!Scripted
        <4> QED BY <3>2, <4>1 DEF T!Ran, T!NothingRan, T!HandsOver
      <3> QED BY <3>1, <3>2
    <2> QED BY <2>2, <2>3
  <1> QED BY <1>4, <1>5

\* Each request's route is one it has earned.
LEMMA RoutesAreEarnedOne ==
  ASSUME NEW q \in T!Questions
  PROVE  RouteIsEarned(q, T!route(q))
  <1>1. CASE T!Refuses(q)
    <2>1. T!route(q) = T!NothingRan("failed")
      BY <1>1 DEF T!route
    <2> QED BY <1>1, <2>1, NothingIsTrue DEF T!Ran, T!NothingRan, RouteIsEarned
  <1>2. CASE ~T!Refuses(q) /\ (q.mode \notin T!Scripted \/ q.hostless)
    <2> DEFINE end == IF q.mode \in T!Scripted THEN "direct" ELSE EndOfResolve(q)
    <2>1. /\ T!route(q) = T!NothingRan(end) /\ end # "caller"
          /\ end = "direct" => q.hostless \/ q.mode = "direct"
      BY <1>2, ResolveEnds DEF T!route
    <2> HIDE DEF end
    <2>2. ~T!Able(q)
      BY <1>2 DEF T!Able, T!Wanted
    <2> QED BY <2>1, <2>2, NothingIsTrue DEF T!Ran, T!NothingRan, RouteIsEarned
  <1>3. CASE ~T!Refuses(q) /\ q.mode \in T!Scripted /\ ~q.hostless
    <2>1. T!route(q) = IF q.script \/ q.mode = "inline" THEN T!RouteBody(q) ELSE T!RouteFound(q)
      BY <1>3 DEF T!route
    <2>2. q.mode # "inline" => q.mode \in {"pac", "wpad"}
      BY <1>3 DEF T!Scripted
    <2> QED BY <1>3, <2>1, <2>2, RouteOfBodies, RouteOfTheSystem
  <1> QED BY <1>1, <1>2, <1>3

\* Every request has the answer its mode or a script that ran gives it.
THEOREM RoutesStayEarned == Spec => []RoutesAreEarned
  <1> DEFINE Earned(q, answers) ==
                 /\ \A way \in DOMAIN answers : IsTrue(q, answers[way])
                 /\ RouteIsEarned(q, answers.route)
             Inv == /\ topic = "route" => given \in T!Questions
                    /\ stage = "walking" => topic = "glob"
                    /\ Answered("route") => Earned(given, answer)
  <1>1. Init => Inv
    BY DEF Init, Answered
  <1>2. Inv /\ [Next]_vars => Inv'
    <2> SUFFICES ASSUME Inv, [Next]_vars
                 PROVE  Inv'
      OBVIOUS
    <2>1. topic' = topic /\ given' = given /\ (stage' = "walking" => topic' = "glob")
      BY TheQuestionStays
    <2>2. CASE UNCHANGED vars
      BY <2>2 DEF vars, Answered
    <2>3. CASE stage' # "answered" \/ topic # "route"
      BY <2>1, <2>3 DEF Answered
    <2>4. CASE ~UNCHANGED vars /\ stage' = "answered" /\ topic = "route"
      <3>1. AskRoute
        BY <2>4, AnswersAreGiven
      <3> DEFINE answers == [route |-> T!route(given),
                    resolver |-> T!resolve_config(given, given.platform # "linux", given.wpad),
                    bodies |-> T!resolve_config(given, FALSE, given.wpad)]
      <3>2. answer' = answers
        BY <3>1 DEF AskRoute, Answer
      <3>3. given \in T!Questions
        BY <2>4
      <3>4. /\ RouteIsEarned(given, T!route(given))
            /\ IsTrue(given, T!resolve_config(given, given.platform # "linux", given.wpad))
            /\ IsTrue(given, T!resolve_config(given, FALSE, given.wpad))
        BY <3>3, RoutesAreEarnedOne, ResolverIsTrue
      <3>5. IsTrue(given, T!route(given))
        BY <3>4 DEF RouteIsEarned
      <3>6. /\ answers.route = T!route(given)
            /\ answers.resolver = T!resolve_config(given, given.platform # "linux", given.wpad)
            /\ answers.bodies = T!resolve_config(given, FALSE, given.wpad)
            /\ DOMAIN answers = {"route", "resolver", "bodies"}
        OBVIOUS
      <3> HIDE DEF answers
      <3>7. Earned(given, answers)
        BY <3>4, <3>5, <3>6
      <3> HIDE DEF Earned
      <3> QED BY <2>1, <3>2, <3>7, <2>4 DEF Answered
    <2> QED BY <2>2, <2>3, <2>4
  <1>3. Inv => RoutesAreEarned
    BY DEF RoutesAreEarned, RouteIsEarned, IsTrue
  <1> QED BY <1>1, <1>2, <1>3, PTL DEF Spec
-----------------------------------------------------------------------------
(* What a script is told.                                                  *)

\* What an engine is handed of a URL.
LEMMA UrlsAreShared ==
  ASSUME NEW u \in S!Urls, NEW e \in S!Engines
  PROVE  /\ S!Handed(e, u).parts = IF u.scheme \in {"https", "wss"} THEN {}
                                   ELSE u.parts \ {"user", "password", "fragment"}
         /\ S!Handed(e, u).host = u.host
<1> DEFINE kinds == [scheme : {"http", "https", "ws", "wss", "socks5", "data", "file"},
                     host : {"named", "emptied", "absent"},
                     parts : SUBSET {"user", "password", "path", "query", "fragment"}]
           left == S!Lent(u)
           cut == u.parts \ {"user", "password"}
<1>1. /\ u \in kinds
      /\ u.scheme \in {"http", "https", "ws", "wss"} => u.host = "named"
      /\ (u.host = "absent" \/ u.scheme = "file") => u.parts \cap {"user", "password"} = {}
  BY DEF S!Urls, S!Special, S!Parts
<1>2. \A v \in kinds : /\ S!WithoutUser(v) \in kinds
                       /\ S!WithoutUser(v).scheme = v.scheme
                       /\ S!WithoutUser(v).host = v.host
                       /\ S!WithoutUser(v).parts =
                              IF S!Refuses(v) THEN v.parts ELSE v.parts \ {"user", "password"}
  BY DEF S!WithoutUser
<1>3. left \in kinds /\ left.scheme = u.scheme /\ left.host = u.host /\ left.parts = cut
  <2> DEFINE named == [u EXCEPT !.host = "named"]
  <2>1. named \in kinds /\ named.scheme = u.scheme /\ named.host = "named" /\ named.parts = u.parts
    BY <1>1
  <2>2. S!Lent(u) = IF S!Refuses(u) /\ u.host # "absent" /\ u.scheme # "file"
                    THEN [S!WithoutUser(named) EXCEPT !.host = u.host] ELSE S!WithoutUser(u)
    BY DEF S!Lent
  <2>3. CASE S!Refuses(u) /\ u.host # "absent" /\ u.scheme # "file"
    <3>1. /\ S!WithoutUser(named) \in kinds
          /\ S!WithoutUser(named).scheme = u.scheme /\ S!WithoutUser(named).parts = cut
      BY <1>2, <2>1, <2>3 DEF S!Refuses
    <3> QED
      BY <1>1, <2>2, <2>3, <3>1
  <2>4. CASE ~(S!Refuses(u) /\ u.host # "absent" /\ u.scheme # "file")
    <3>1. S!WithoutUser(u).parts = cut
      BY <1>1, <1>2, <2>4
    <3> QED
      BY <1>1, <1>2, <2>2, <2>4, <3>1
  <2> QED
    BY <2>3, <2>4
<1> HIDE DEF left
<1>4. /\ S!sanitize_url(u).parts = IF u.scheme \in {"https", "wss"} THEN {}
                                   ELSE u.parts \ {"user", "password", "fragment"}
      /\ S!sanitize_url(u).host = u.host
  <2>1. S!sanitize_url(u) =
            [left EXCEPT !.parts =
                @ \ (IF u.scheme \in {"https", "wss"} THEN {"path", "query", "fragment"}
                     ELSE {"fragment"})]
    BY DEF S!sanitize_url, left
  <2> QED
    BY <1>1, <1>3, <2>1
<1>5. /\ S!query_url(u).parts = S!sanitize_url(u).parts
      /\ S!query_url(u).host = S!sanitize_url(u).host
  BY DEF S!query_url, S!sanitize_url
<1> QED
  BY <1>4, <1>5 DEF S!Handed

\* A name is answered with the first address the script may see.
LEMMA NamesAreShared ==
  ASSUME NEW q \in S!Lookups
  PROVE  /\ ~S!Governing(q).dns =>
                S!resolve_ipv4(q, "name") = [address |-> "null", asked |-> FALSE]
         /\ S!Governing(q).dns /\ S!Visible(q) = {} =>
                S!resolve_ipv4(q, "name") = [address |-> "null", asked |-> TRUE]
         /\ S!Governing(q).dns /\ S!Visible(q) # {} =>
                \E i \in S!Visible(q) :
                    /\ \A k \in S!Visible(q) : k >= i
                    /\ S!resolve_ipv4(q, "name") =
                           [address |-> S!to_ipv4(q.system[i]), asked |-> TRUE]
<1> DEFINE I == S!Visible(q)
           policy == S!Governing(q)
<1>1. q.system \in Seq(S!Addresses)
  <2>1. \A n \in Nat : S!SeqOf(S!Addresses, n) \subseteq Seq(S!Addresses)
    BY DEF S!SeqOf
  <2>2. q.system \in S!SeqOf(S!Addresses, 3)
    BY DEF S!Lookups
  <2> QED
    BY <2>1, <2>2
<1>2. Len(q.system) \in Nat /\ DOMAIN q.system = 1 .. Len(q.system)
  BY <1>1
<1>3. I = {i \in 1 .. Len(q.system) :
              S!to_ipv4(q.system[i]) # "null"
                  /\ (policy.internal \/ ~S!is_internal(S!to_ipv4(q.system[i])))}
  BY <1>2 DEF S!Visible, S!is_internal
<1>4. S!resolve_ipv4(q, "name") =
          LET first == IF I # {} THEN Min(I) ELSE 0 IN
          IF ~policy.dns THEN [address |-> "null", asked |-> FALSE]
          ELSE [address |-> IF first = 0 THEN "null" ELSE S!to_ipv4(q.system[first]),
                asked |-> TRUE]
  BY <1>3 DEF S!resolve_ipv4, S!ResolveUnder, S!Governing, S!Known, S!SelectInSeq, S!Min, Min
<1>5. I \in SUBSET (1 .. Len(q.system))
  BY <1>3
<1> HIDE DEF I, policy
<1>6. ASSUME I # {}
      PROVE  \E i \in I : (\A k \in I : k >= i) /\ Min(I) = i /\ i # 0
  <2>1. PICK i \in I : \A k \in I : i <= k
    BY <1>2, <1>5, <1>6, SomeIsFirst
  <2>2. Min(I) = i
    BY <1>2, <1>5, <2>1, SelectedFirst
  <2>3. i \in Nat /\ i # 0 /\ \A k \in I : k \in Nat
    BY <1>5
  <2> QED
    BY <2>1, <2>2, <2>3
<1>7. ~policy.dns => S!resolve_ipv4(q, "name") = [address |-> "null", asked |-> FALSE]
  BY <1>4
<1>8. policy.dns /\ I = {} =>
          S!resolve_ipv4(q, "name") = [address |-> "null", asked |-> TRUE]
  BY <1>4
<1>9. policy.dns /\ I # {} =>
          \E i \in I : /\ \A k \in I : k >= i
                       /\ S!resolve_ipv4(q, "name") =
                              [address |-> S!to_ipv4(q.system[i]), asked |-> TRUE]
  BY <1>4, <1>6
<1> QED
  BY <1>7, <1>8, <1>9 DEF I, policy

\* The three functions of a script are answered alike.
LEMMA LookupsAreShared ==
  ASSUME NEW q \in S!Lookups
  PROVE  LET told == S!dns_resolve(q).address
             seen == S!Visible(q)
             name == q.text = "name"
         IN
         /\ (S!dns_resolve(q).asked \/ S!is_in_net(q, "10").asked) => S!Governing(q).dns
         /\ ~S!is_in_net(q, "none").asked /\ ~S!is_in_net(q, "none").is
         /\ name /\ told # "null" =>
                \E i \in seen : S!to_ipv4(q.system[i]) = told /\ \A k \in seen : k >= i
         /\ name /\ S!Governing(q).dns /\ seen # {} => told # "null"
         /\ q.text # "::1" /\ q.text # "[::1]" => (S!is_resolvable(q) <=> told # "null")
         /\ name => (S!is_in_net(q, "10").is <=> told = "10.1.2.3")
<1> DEFINE answered == S!dns_resolve(q)
           told == answered.address
           seen == S!Visible(q)
           policy == S!Governing(q)
<1>1. q.text \in {"10.1.2.3", "010.1.2.3", "10.1", "::1", "[::1]", "[10.1.2.3]", "name", "empty"}
  BY DEF S!Lookups, S!Texts
<1>2. \A i \in seen : S!to_ipv4(q.system[i]) \in {"1.2.3.4", "10.1.2.3"}
  <2>1. q.system \in Seq(S!Addresses)
    <3>1. \A n \in Nat : S!SeqOf(S!Addresses, n) \subseteq Seq(S!Addresses)
      BY DEF S!SeqOf
    <3>2. q.system \in S!SeqOf(S!Addresses, 3)
      BY DEF S!Lookups
    <3> QED
      BY <3>1, <3>2
  <2>2. \A i \in seen : q.system[i] \in S!Addresses /\ S!to_ipv4(q.system[i]) # "null"
    BY <2>1 DEF S!Visible
  <2> QED
    BY <2>2 DEF S!Addresses, S!to_ipv4
<1>3. ASSUME q.text # "name"
      PROVE  /\ answered.asked => policy.dns
             /\ told # "null" => q.text \notin {"::1", "[::1]"}
  <2>1. \A text \in {"[10.1.2.3]", "empty"} : S!resolve_ipv4(q, text).asked => policy.dns
    BY DEF S!resolve_ipv4, S!ResolveUnder, S!Governing, S!Known
  <2>2. CASE q.text \in {"[10.1.2.3]", "empty"}
    <3>1. answered = S!resolve_ipv4(q, q.text)
      BY <2>2 DEF S!dns_resolve, S!unbracket_ipv6, S!literal_ipv4
    <3> QED
      BY <2>1, <2>2, <3>1
  <2>3. CASE q.text \notin {"[10.1.2.3]", "empty"}
    BY <1>1, <1>3, <2>3 DEF S!dns_resolve, S!unbracket_ipv6, S!literal_ipv4, S!Known
  <2> QED
    BY <2>2, <2>3
<1>4. ASSUME q.text = "name"
      PROVE  /\ answered.asked => policy.dns
             /\ told # "null" =>
                    \E i \in seen : S!to_ipv4(q.system[i]) = told /\ \A k \in seen : k >= i
             /\ policy.dns /\ seen # {} => told # "null"
             /\ told \in {"1.2.3.4", "10.1.2.3", "null"}
  <2>1. answered = S!resolve_ipv4(q, "name")
    BY <1>4 DEF S!dns_resolve, S!unbracket_ipv6, S!literal_ipv4
  <2> HIDE DEF seen, policy, answered
  <2>2. CASE ~policy.dns
    <3>1. answered = [address |-> "null", asked |-> FALSE]
      BY <2>1, <2>2, NamesAreShared DEF policy
    <3> QED
      BY <2>2, <3>1
  <2>3. CASE policy.dns /\ seen = {}
    <3>1. answered = [address |-> "null", asked |-> TRUE]
      BY <2>1, <2>3, NamesAreShared DEF policy, seen
    <3> QED
      BY <2>3, <3>1
  <2>4. CASE policy.dns /\ seen # {}
    <3>1. PICK i \in seen : /\ \A k \in seen : k >= i
                            /\ answered = [address |-> S!to_ipv4(q.system[i]), asked |-> TRUE]
      BY <2>1, <2>4, NamesAreShared DEF policy, seen
    <3>2. told = S!to_ipv4(q.system[i]) /\ told \in {"1.2.3.4", "10.1.2.3"}
      BY <1>2, <3>1
    <3> QED
      BY <2>4, <3>1, <3>2
  <2> QED
    BY <2>2, <2>3, <2>4
<1>5. answered.asked => policy.dns
  BY <1>3, <1>4
<1>6. ~S!is_in_net(q, "none").asked /\ ~S!is_in_net(q, "none").is
  BY DEF S!is_in_net
<1>7. S!is_in_net(q, "10").asked => policy.dns
  BY <1>5 DEF S!is_in_net, S!Known
<1>8. q.text # "::1" /\ q.text # "[::1]" => (S!is_resolvable(q) <=> told # "null")
  BY DEF S!is_resolvable, S!unbracket_ipv6
<1>9. q.text = "name" => (S!is_in_net(q, "10").is <=> told = "10.1.2.3")
  BY <1>4 DEF S!is_in_net, S!reference_ipv4
<1> HIDE DEF answered, told, seen, policy
<1>10. /\ S!dns_resolve(q) = answered /\ S!dns_resolve(q).address = told
       /\ S!Visible(q) = seen /\ S!Governing(q) = policy
  BY DEF answered, told, seen, policy
<1> QED
  BY <1>4, <1>5, <1>6, <1>7, <1>8, <1>9, <1>10

\* What is asked about a script's share.
ShareAsked ==
    /\ topic = "url" => given \in S!Urls
    /\ topic = "lookup" => given \in S!Lookups
    /\ stage = "walking" => topic = "glob"

\* What a script is handed of a URL never names the user, the password or the
\* fragment, nor of an encrypted URL any more than the host; and what it learns of
\* a name is what the policy that governs it allows, the same from all three of
\* the functions it may ask.
THEOREM ScriptsKeepToTheirShare == Spec => []ScriptsKnowTheirShare
<1> DEFINE Inv == ShareAsked /\ ScriptsKnowTheirShare
<1>1. Init => Inv
  BY DEF Init, ShareAsked, ScriptsKnowTheirShare, Answered
<1>2. Inv /\ [Next]_vars => Inv'
  <2> SUFFICES ASSUME Inv, [Next]_vars
               PROVE  Inv'
    OBVIOUS
  <2>1. topic' = topic /\ given' = given
    BY TheQuestionStays DEF ShareAsked
  <2>2. ShareAsked'
    BY <2>1, TheQuestionStays DEF ShareAsked
  <2>3. CASE UNCHANGED vars
    <3>1. ScriptsKnowTheirShare'
      BY <2>3 DEF vars, ScriptsKnowTheirShare, Answered
    <3> QED
      BY <2>2, <3>1
  <2>4. CASE stage' # "answered" \/ topic \notin {"url", "lookup"}
    <3>1. ScriptsKnowTheirShare'
      BY <2>1, <2>4 DEF ScriptsKnowTheirShare, Answered
    <3> QED
      BY <2>2, <3>1
  <2>5. CASE ~UNCHANGED vars /\ stage' = "answered" /\ topic \in {"url", "lookup"}
    <3>1. \/ topic = "url" /\ AskUrl
          \/ topic = "lookup" /\ AskLookup
      BY <2>5, AnswersAreGiven DEF ShareAsked
    <3>2. CASE topic = "url" /\ AskUrl
      <4>1. /\ given \in S!Urls
            /\ answer' = [e \in S!Engines |-> S!Handed(e, given)]
        BY <3>2 DEF AskUrl, Answer, ShareAsked
      <4>2. \A e \in S!Engines :
                /\ answer'[e].parts = IF given.scheme \in {"https", "wss"} THEN {}
                                      ELSE given.parts \ {"user", "password", "fragment"}
                /\ answer'[e].host = given.host
        BY <4>1, UrlsAreShared
      <4>3. ScriptsKnowTheirShare'
        BY <2>1, <3>2, <4>2 DEF ScriptsKnowTheirShare, Answered
      <4> QED
        BY <2>2, <4>3
    <3>3. CASE topic = "lookup" /\ AskLookup
      <4>1. /\ given \in S!Lookups
            /\ answer' = [resolves |-> S!dns_resolve(given), resolvable |-> S!is_resolvable(given),
                          inNet |-> S!is_in_net(given, "10"), inNone |-> S!is_in_net(given, "none")]
        BY <3>3 DEF AskLookup, Answer, ShareAsked
      <4>2. /\ answer'.resolves = S!dns_resolve(given)
            /\ answer'.resolvable = S!is_resolvable(given)
            /\ answer'.inNet = S!is_in_net(given, "10")
            /\ answer'.inNone = S!is_in_net(given, "none")
        BY <4>1
      <4>3. ScriptsKnowTheirShare'
        BY <2>1, <3>3, <4>1, <4>2, LookupsAreShared DEF ScriptsKnowTheirShare, Answered
      <4> QED
        BY <2>2, <4>3
    <3> QED
      BY <3>1, <3>2, <3>3
  <2> QED
    BY <2>3, <2>4, <2>5
<1>3. Inv => ScriptsKnowTheirShare
  OBVIOUS
<1> QED
  BY <1>1, <1>2, <1>3, PTL DEF Spec
-----------------------------------------------------------------------------
(* Bypass lists.                                                           *)

\* The lists the questions are about.
LEMMA ListsAreOfPatterns ==
  /\ \A list \in EntryLists : list \in Seq(B!Patterns)
  /\ \A x \in DroppedEntries :
         /\ x[1] \in Seq(B!Patterns) /\ x[3] \in Seq(B!Patterns)
         /\ x[2] \in B!Patterns /\ ~B!Subtracts(x[2])
<1>1. \A n \in Nat : \A list \in SeqOf(B!Patterns, n) : list \in Seq(B!Patterns)
  BY DEF SeqOf
<1>2. [kind |-> "subtract"] \in B!Patterns
  BY DEF B!Patterns
<1>3. \A p \in B!Patterns : <<p, [kind |-> "subtract"], p>> \in Seq(B!Patterns)
  <2> DEFINE sub == [kind |-> "subtract"]
  <2>1. sub \in B!Patterns
    BY <1>2
  <2> HIDE DEF sub
  <2>2. \A p \in B!Patterns : <<p, sub, p>> \in Seq(B!Patterns)
    BY <2>1
  <2> QED
    BY <2>2 DEF sub
<1>4. \A p \in B!Patterns \ {[kind |-> "subtract"]} : ~B!Subtracts(p)
  <2> SUFFICES ASSUME NEW p \in B!Patterns \ {[kind |-> "subtract"]}
               PROVE  p.kind # "subtract"
    BY DEF B!Subtracts
  <2>1. ASSUME p.kind = "subtract"
        PROVE  p = [kind |-> "subtract"]
    BY <2>1, PatternsAreShaped
  <2> QED
    BY <2>1
<1>5. \A list \in EntryLists : list \in Seq(B!Patterns)
  BY <1>1, <1>3 DEF EntryLists
<1>6. ASSUME NEW x \in DroppedEntries
      PROVE  /\ x[1] \in Seq(B!Patterns) /\ x[3] \in Seq(B!Patterns)
             /\ x[2] \in B!Patterns /\ ~B!Subtracts(x[2])
  <2>1. PICK a \in SeqOf(B!Patterns, 1), b \in SeqOf(B!Patterns, 1),
             p \in B!Patterns \ {[kind |-> "subtract"]} : x = <<a, p, b>>
    BY DEF DroppedEntries
  <2>2. x[1] = a /\ x[2] = p /\ x[3] = b
    BY <2>1
  <2> QED
    BY <1>1, <1>4, <2>2
<1> QED
  BY <1>5, <1>6

\* What is lost of a bypass list sends no request around the proxy.
ListAsked ==
    /\ topic = "repeats" => given \in EntryLists
    /\ topic = "drop" => given \in DroppedEntries

\* A repeated entry that is left out of a bypass list changes nothing, and one that is
\* dropped sends no request around the proxy that the whole list would not.
THEOREM ListsStayClosed == Spec => []ListsFailClosed
<1> DEFINE Inv == ListAsked /\ (stage = "walking" => topic = "glob") /\ ListsFailClosed
<1>1. Init => Inv
  BY DEF Init, Answered, ListAsked, ListsFailClosed
<1>2. Inv /\ [Next]_vars => Inv'
  <2> SUFFICES ASSUME Inv, [Next]_vars
               PROVE  Inv'
    OBVIOUS
  <2>1. topic' = topic /\ given' = given /\ (stage' = "walking" => topic' = "glob")
    BY TheQuestionStays
  <2>2. ListAsked'
    BY <2>1 DEF ListAsked
  <2>3. CASE UNCHANGED vars
    <3>1. ListsFailClosed'
      BY <2>3 DEF vars, ListsFailClosed, Answered
    <3> QED
      BY <2>1, <2>2, <3>1
  <2>4. CASE stage' # "answered" \/ topic \notin {"repeats", "drop"}
    <3>1. ListsFailClosed'
      BY <2>1, <2>4 DEF ListsFailClosed, Answered
    <3> QED
      BY <2>1, <2>2, <3>1
  <2>5. CASE ~UNCHANGED vars /\ stage' = "answered" /\ topic = "repeats"
    <3>1. given \in Seq(B!Patterns)
      BY <2>5, ListsAreOfPatterns DEF ListAsked
    <3>2. answer' = [q \in Questions |->
                         B!matches(B!Reader(q[1], given, {}), q[2], q[3])]
      BY <2>5, AnswersAreGiven DEF AskRepeats, Answer
    <3>3. ASSUME NEW q \in Questions
          PROVE  answer'[q] <=>
                     B!matches([B!Reader(q[1], given, {}) EXCEPT
                                    !.patterns = B!Entries(q[1], given)], q[2], q[3])
      <4>1. q[1] \in B!Dialects
        BY DEF Questions
      <4>2. answer'[q] <=> B!matches(B!Reader(q[1], given, {}), q[2], q[3])
        BY <3>2
      <4> QED
        BY <3>1, <4>1, <4>2, RepeatsChangeNothing, Zenon
    <3>4. ListsFailClosed'
      BY <2>1, <2>5, <3>3 DEF ListsFailClosed, Answered
    <3> QED
      BY <2>1, <2>2, <3>4
  <2>6. CASE ~UNCHANGED vars /\ stage' = "answered" /\ topic = "drop"
    <3>1. /\ given[1] \in Seq(B!Patterns) /\ given[3] \in Seq(B!Patterns)
          /\ given[2] \in B!Patterns /\ ~B!Subtracts(given[2])
      BY <2>6, ListsAreOfPatterns DEF ListAsked
    <3>2. answer' = [q \in Questions |->
                         B!matches(B!Reader(q[1], given[1] \o given[3], {"dropped"}), q[2], q[3])]
      BY <2>6, AnswersAreGiven DEF AskDrop, Answer
    <3>3. ASSUME NEW q \in Questions, answer'[q]
          PROVE  B!matches(B!Reader(q[1], given[1] \o <<given[2]>> \o given[3], {}), q[2], q[3])
      <4>1. q[1] \in B!Dialects
        BY DEF Questions
      <4>2. B!matches(B!Reader(q[1], given[1] \o given[3], {"dropped"}), q[2], q[3])
        BY <3>2, <3>3
      <4> QED
        BY <3>1, <4>1, <4>2, DropsFailClosed, Zenon
    <3>4. ListsFailClosed'
      BY <2>1, <2>6, <3>3 DEF ListsFailClosed, Answered
    <3> QED
      BY <2>1, <2>2, <3>4
  <2> QED
    BY <2>3, <2>4, <2>5, <2>6
<1>3. Inv => ListsFailClosed
  OBVIOUS
<1> QED
  BY <1>1, <1>2, <1>3, PTL DEF Spec
\* The questions about entries.
EntryAsked ==
    /\ topic = "entry" => given \in B!NameEntries \cup B!MarkedEntries
    /\ topic = "gnome_list" => given \in SeqOf(B!ListEntries, 3)
    /\ topic = "mac_list" => given \in B!MacLists
    /\ stage = "walking" => topic = "glob"

\* The three promises are the property.
LEMMA EntriesAreClosed ==
  EntriesFailClosed <=>
      /\ Answered("entry") => EntryClosed(given, answer)
      /\ Answered("gnome_list") => GnomeListClosed(given, answer)
      /\ Answered("mac_list") => MacListClosed(given, answer)
BY Zenon DEF EntriesFailClosed, EntryClosed, GnomeListClosed, MacListClosed

\* An entry that becomes a rule sends around the proxy the destinations its own store
\* grants by it, and a list what its entries grant, and all of that unless an entry is
\* recorded as lost.
THEOREM EntriesStayClosed == Spec => []EntriesFailClosed
<1> DEFINE Closed == /\ Answered("entry") => EntryClosed(given, answer)
                     /\ Answered("gnome_list") => GnomeListClosed(given, answer)
                     /\ Answered("mac_list") => MacListClosed(given, answer)
           Inv == EntryAsked /\ Closed
<1>1. Init => Inv
  BY DEF Init, Answered, EntryAsked
<1>2. Inv /\ [Next]_vars => Inv'
  <2> SUFFICES ASSUME Inv, [Next]_vars
               PROVE  Inv'
    OBVIOUS
  <2>1. topic' = topic /\ given' = given
    BY TheQuestionStays DEF EntryAsked
  <2>2. EntryAsked'
    BY <2>1, TheQuestionStays DEF EntryAsked
  <2>3. CASE UNCHANGED vars
    <3>1. Closed'
      BY <2>3 DEF vars, Answered
    <3> QED
      BY <2>2, <3>1
  <2>4. CASE stage' # "answered" \/ topic \notin {"entry", "gnome_list", "mac_list"}
    <3>1. Closed'
      BY <2>1, <2>4 DEF Answered
    <3> QED
      BY <2>2, <3>1
  <2>5. CASE ~UNCHANGED vars /\ stage' = "answered" /\ topic \in {"entry", "gnome_list", "mac_list"}
    <3>1. \/ topic = "entry" /\ AskEntry
          \/ topic = "gnome_list" /\ AskGnomeList
          \/ topic = "mac_list" /\ AskMacList
      BY <2>5, AnswersAreGiven DEF EntryAsked
    <3>2. CASE topic = "entry" /\ AskEntry
      <4>1. /\ given \in B!NameEntries \cup B!MarkedEntries
            /\ answer' = [d \in B!EntryDialects |-> B!ReadAlone(d, given)]
        BY <3>2 DEF AskEntry, Answer, EntryAsked
      <4>2. EntryClosed(given, answer')
        BY <4>1, EntriesComeClosed
      <4>3. Closed'
        BY <2>1, <3>2, <4>2 DEF Answered
      <4> QED
        BY <2>2, <4>3
    <3>3. CASE topic = "gnome_list" /\ AskGnomeList
      <4>1. given \in SeqOf(B!ListEntries, 3) /\ answer' = B!push_gnome_entries(given)
        BY <3>3 DEF AskGnomeList, Answer, EntryAsked
      <4>2. GnomeListClosed(given, answer')
        BY <4>1, GnomeListsComeClosed
      <4>3. Closed'
        BY <2>1, <3>3, <4>2 DEF Answered
      <4> QED
        BY <2>2, <4>3
    <3>4. CASE topic = "mac_list" /\ AskMacList
      <4>1. given \in B!MacLists /\ answer' = B!bypass_from_dict(given)
        BY <3>4 DEF AskMacList, Answer, EntryAsked
      <4>2. MacListClosed(given, answer')
        BY <4>1, MacListsComeClosed
      <4>3. Closed'
        BY <2>1, <3>4, <4>2 DEF Answered
      <4> QED
        BY <2>2, <4>3
    <3> QED
      BY <3>1, <3>2, <3>3, <3>4
  <2> QED
    BY <2>3, <2>4, <2>5
<1>3. Inv => EntriesFailClosed
  BY EntriesAreClosed
<1> QED
  BY <1>1, <1>2, <1>3, PTL DEF Spec

-----------------------------------------------------------------------------
(* The layers of kioslaverc.                                               *)

\* What a scan of a layer, and a read of them all, may hold.
Places == {<<>>} \cup (Nat \X Nat)
HeldEntries == [value : Places, immutable : BOOLEAN]
Scans == [entry : HeldEntries, found : BOOLEAN, was : BOOLEAN, in : BOOLEAN,
          lock : BOOLEAN, pending : BOOLEAN, file : BOOLEAN]
LayerReads == [entry : HeldEntries, found : BOOLEAN, group : BOOLEAN, done : BOOLEAN,
               failed : BOOLEAN, any : BOOLEAN]
LineKinds == K!Headers \cup {"entry"}

\* An entry that is applied is an entry.
LEMMA AppliedIsHeld ==
  ASSUME NEW e \in HeldEntries, NEW line \in K!Lines, NEW place \in Nat \X Nat,
         NEW locked \in BOOLEAN
  PROVE  K!apply(e, line, place, locked) \in HeldEntries
<1>1. K!Freezes(line.flags) \in BOOLEAN
  BY DEF K!Freezes
<1>2. place \in Places /\ <<>> \in Places
  BY DEF Places
<1> HIDE DEF Places
<1> QED
  BY <1>1, <1>2 DEF K!apply, HeldEntries

\* What one line does to a scan, by its header.
LEMMA LineScanned ==
  ASSUME NEW s \in Scans, NEW line \in K!Lines, NEW place \in Nat \X Nat,
         NEW next, next = K!ScanLine(s, line, place)
  PROVE  /\ next \in Scans /\ next.was = s.was
         /\ line.header \in LineKinds
         /\ line.header = "entry" =>
                /\ next.entry = IF s.in /\ ~s.was
                                THEN K!apply(s.entry, line, place, s.lock) ELSE s.entry
                /\ next.in = s.in /\ next.lock = s.lock /\ next.file = s.file
                /\ next.pending = s.pending
         /\ line.header # "entry" => next.entry = s.entry
         /\ line.header = "broken" =>
                /\ next.in = s.in /\ next.lock = (s.in /\ s.file) /\ next.file = s.file
                /\ next.pending = s.pending
         /\ line.header \notin {"entry", "broken"} =>
                LET in == line.header \in {"proxy", "locked"}
                    file == s.file \/ line.header = "file"
                    lock == in /\ (file \/ line.header = "locked")
                IN
                /\ next.in = in /\ next.file = file /\ next.lock = lock
                /\ next.pending = (s.pending \/ lock)
<1>1. line.header \in LineKinds
  BY DEF K!Lines, LineKinds
<1>2. CASE line.header = "entry"
  <2> DEFINE entry == IF s.in /\ ~s.was THEN K!apply(s.entry, line, place, s.lock) ELSE s.entry
  <2>1. entry \in HeldEntries
    BY AppliedIsHeld DEF Scans
  <2>2. next = IF s.in /\ ~s.was
               THEN [s EXCEPT !.entry = K!apply(s.entry, line, place, s.lock)] ELSE s
    BY <1>2 DEF K!ScanLine
  <2>3. next = [s EXCEPT !.entry = entry]
    BY <2>2 DEF Scans
  <2> HIDE DEF entry
  <2>4. /\ next \in Scans /\ next.was = s.was /\ next.entry = entry
        /\ next.in = s.in /\ next.lock = s.lock /\ next.file = s.file
        /\ next.pending = s.pending
    BY <2>1, <2>3 DEF Scans
  <2> QED
    BY <1>1, <1>2, <2>4 DEF entry
<1>3. CASE line.header = "broken"
  <2>1. next = [s EXCEPT !.lock = s.in /\ s.file]
    BY <1>3 DEF K!ScanLine
  <2> QED
    BY <1>1, <1>3, <2>1 DEF Scans
<1>4. CASE line.header \notin {"entry", "broken"}
  <2> DEFINE in == line.header \in {"proxy", "locked"}
             file == s.file \/ line.header = "file"
             lock == in /\ (file \/ line.header = "locked")
             pending == s.pending \/ lock
             found == s.found \/ in
  <2>1. next = [s EXCEPT !.file = file, !.in = in, !.lock = lock,
                         !.pending = pending, !.found = found]
    BY <1>4 DEF K!ScanLine
  <2>2. in \in BOOLEAN /\ file \in BOOLEAN /\ lock \in BOOLEAN /\ pending \in BOOLEAN
        /\ found \in BOOLEAN
    OBVIOUS
  <2>3. line.header \in {"proxy", "locked"} <=> in
    OBVIOUS
  <2> HIDE DEF in, file, lock, pending, found
  <2>4. /\ next \in Scans /\ next.was = s.was /\ next.entry = s.entry
        /\ next.in = in /\ next.lock = lock /\ next.file = file /\ next.pending = pending
    BY <2>1, <2>2 DEF Scans
  <2> QED
    BY <1>1, <1>4, <2>4 DEF in, file, lock, pending
<1> QED
  BY <1>1, <1>2, <1>3, <1>4

\* A read that has scanned one layer more.
ReadOn(read, end) ==
    [read EXCEPT !.entry = end.entry, !.found = end.found,
         !.group = read.group \/ end.pending, !.done = end.file, !.any = TRUE]

\* A layer is scanned one line after another.
LEMMA LinesAreScanned ==
  ASSUME NEW read \in LayerReads, NEW lines \in Seq(K!Lines), NEW layer \in Nat
  PROVE  \E run :
             /\ run[0] = K!ScanBegins(read)
             /\ \A k \in 1 .. Len(lines) :
                    run[k] = K!ScanLine(run[k - 1], lines[k], <<layer, k>>)
             /\ \A k \in 0 .. Len(lines) : run[k] \in Scans
             /\ K!ScanFile(read, lines, layer) = ReadOn(read, run[Len(lines)])
<1> DEFINE n == Len(lines)
           base == K!ScanBegins(read)
           op(s, i) == K!ScanLine(s, lines[i], <<layer, i>>)
           idx == [i \in 1 .. n |-> i]
           F == [x \in Scans \X (1 .. n) |-> op(x[1], x[2])]
           Is(iter) == iter = [s \in SUBSET (1 .. n) |->
                                  IF s = {} THEN base
                                  ELSE op(iter[s \ {Max(s)}], idx[Max(s)])]
           it == CHOOSE iter : Is(iter)
<1>1. n \in Nat /\ DOMAIN lines = 1 .. n /\ \A i \in 1 .. n : lines[i] \in K!Lines
  OBVIOUS
<1>2. base \in Scans
  BY DEF K!ScanBegins, Scans, LayerReads
<1>3. \A s \in Scans, i \in 1 .. n : op(s, i) \in Scans
  <2> TAKE s \in Scans, i \in 1 .. n
  <2>1. lines[i] \in K!Lines /\ <<layer, i>> \in Nat \X Nat
    BY <1>1
  <2> QED
    BY <2>1, LineScanned
<1>4. K!ScanFile(read, lines, layer) = ReadOn(read, it[1 .. n])
  <2>1. DOMAIN idx = 1 .. n
    OBVIOUS
  <2> QED
    BY <1>1, <2>1 DEF ReadOn, K!ScanFile, K!FoldLeftDomain, K!FoldLeft, K!MapThenFoldSet,
       K!Max, Max
<1>5. \A s \in SUBSET (1 .. n) : s # {} => Max(s) \in 1 .. n /\ idx[Max(s)] = Max(s)
  <2> TAKE s \in SUBSET (1 .. n)
  <2>1. ASSUME s # {}
        PROVE  Max(s) \in 1 .. n
    BY <1>1, <2>1, GreatestIs
  <2> QED
    BY <2>1
<1> HIDE DEF base, op, idx, n
<1>6. F \in [Scans \X (1 .. n) -> Scans]
  BY <1>3
<1>7. PICK iter \in [SUBSET (1 .. n) -> Scans] : Runs(iter, n, base, F)
  <2> HIDE DEF F
  <2> QED
    BY <1>1, <1>2, <1>6, RunExists
<1>8. Is(iter)
  <2> SUFFICES ASSUME NEW s \in SUBSET (1 .. n)
               PROVE  iter[s] = IF s = {} THEN base
                                ELSE op(iter[s \ {Max(s)}], idx[Max(s)])
    OBVIOUS
  <2>1. CASE s = {}
    BY <1>7, <2>1 DEF Runs
  <2>2. CASE s # {}
    <3>1. Max(s) \in 1 .. n /\ idx[Max(s)] = Max(s)
      BY <1>5, <2>2
    <3>2. iter[s \ {Max(s)}] \in Scans
      BY <1>7
    <3>3. <<iter[s \ {Max(s)}], Max(s)>> \in Scans \X (1 .. n)
      BY <3>1, <3>2
    <3>4. iter[s] = F[<<iter[s \ {Max(s)}], Max(s)>>]
      BY <1>7, <2>2 DEF Runs
    <3> QED
      BY <2>2, <3>1, <3>3, <3>4
  <2> QED
    BY <2>1, <2>2
<1>9. Is(it)
  <2> HIDE DEF Is
  <2> QED
    BY <1>8, Zenon
<1>10. \A s \in SUBSET (1 .. n) :
          it[s] = IF s = {} THEN base ELSE op(it[s \ {Max(s)}], idx[Max(s)])
  <2>1. it = [s \in SUBSET (1 .. n) |->
                 IF s = {} THEN base ELSE op(it[s \ {Max(s)}], idx[Max(s)])]
    <3> HIDE DEF it
    <3> QED
      BY <1>9
  <2> HIDE DEF it
  <2> QED
    BY <2>1
<1> DEFINE run == [k \in 0 .. n |-> it[1 .. k]]
<1> HIDE DEF it, F
<1>11. run[0] = base /\ \A k \in 1 .. n : run[k] = op(run[k - 1], k)
  <2>1. run[0] = base
    <3>1. 1 .. 0 = {} /\ {} \in SUBSET (1 .. n)
      OBVIOUS
    <3>2. run[0] = it[{}]
      BY <1>1, <3>1
    <3>3. it[{}] = base
      <4> HIDE DEF run
      <4> QED
        BY <1>10, <3>1
    <3> QED
      BY <3>2, <3>3
  <2>2. ASSUME NEW k \in 1 .. n
        PROVE  run[k] = op(run[k - 1], k)
    <3>1. /\ 1 .. k \in SUBSET (1 .. n) /\ 1 .. k # {} /\ (1 .. k) \ {k} = 1 .. (k - 1)
          /\ k \in 1 .. k /\ \A j \in 1 .. k : k >= j
      BY <1>1
    <3>2. Max(1 .. k) = k
      BY <1>1, <3>1, SelectedLast
    <3>3. run[k] = it[1 .. k] /\ run[k - 1] = it[1 .. (k - 1)]
      BY <1>1
    <3> QED
      BY <1>5, <1>10, <3>1, <3>2, <3>3
  <2> QED
    BY <2>1, <2>2
<1>12. run[n] = it[1 .. n]
  BY <1>1
<1> HIDE DEF run
<1>13. \A k \in 0 .. n : run[k] \in Scans
  <2> DEFINE G == {k \in 0 .. n : run[k] \in Scans}
  <2>1. 0 \in G
    BY <1>1, <1>2, <1>11
  <2>2. \A k \in 1 .. n : k - 1 \in G => k \in G
    BY <1>1, <1>3, <1>11
  <2>3. \A k \in 0 .. n : k \in G
    <3> HIDE DEF G
    <3> QED
      BY <1>1, <2>1, <2>2, Climbs
  <2> QED
    BY <2>3
<1>14. K!ScanFile(read, lines, layer) = ReadOn(read, run[n])
  BY <1>4, <1>12
<1> QED
  BY <1>11, <1>13, <1>14 DEF n, base, op

\* What reads the layers of one who has any.
LayerKinds == [state : {"missing", "failed", "read"}, lines : Seq(K!Lines)]

\* A read that has been through a layer is a read.
LEMMA LayerIsRead ==
  ASSUME NEW r \in LayerReads, NEW layer \in LayerKinds, NEW n \in Nat
  PROVE  K!ReadLayer(r, layer, n) \in LayerReads
<1>1. CASE r.done \/ r.failed \/ layer.state = "missing"
  BY <1>1 DEF K!ReadLayer
<1>2. CASE ~r.done /\ ~r.failed /\ layer.state = "failed"
  BY <1>2 DEF K!ReadLayer, LayerReads
<1>3. CASE ~r.done /\ ~r.failed /\ layer.state = "read"
  <2> DEFINE lines == layer.lines
  <2>1. lines \in Seq(K!Lines) /\ Len(lines) \in 0 .. Len(lines)
    BY DEF LayerKinds
  <2>3. K!ReadLayer(r, layer, n) = K!ScanFile(r, lines, n)
    BY <1>3 DEF K!ReadLayer
  <2> HIDE DEF lines
  <2>2. PICK run : /\ \A k \in 0 .. Len(lines) : run[k] \in Scans
                   /\ K!ScanFile(r, lines, n) = ReadOn(r, run[Len(lines)])
    BY <2>1, LinesAreScanned
  <2> DEFINE end == run[Len(lines)]
  <2>4. end \in Scans
    <3> DEFINE last == Len(lines)
    <3>1. last \in 0 .. last
      BY <2>1
    <3>2. \A k \in 0 .. last : run[k] \in Scans
      BY <2>2
    <3> HIDE DEF last
    <3>3. run[last] \in Scans
      BY <3>1, <3>2
    <3> QED
      BY <3>3 DEF last
  <2>5. K!ReadLayer(r, layer, n) = ReadOn(r, end)
    BY <2>2, <2>3
  <2> HIDE DEF end
  <2>6. ReadOn(r, end) \in LayerReads
    BY <2>4 DEF ReadOn, Scans, LayerReads
  <2> QED
    BY <2>5, <2>6
<1> QED
  BY <1>1, <1>2, <1>3 DEF LayerReads, LayerKinds

\* The layers are read one after another.
LEMMA LayersAreRead ==
  ASSUME NEW layers \in Seq(LayerKinds)
  PROVE  \E run :
             /\ run[0] = K!ReadBegins
             /\ \A k \in 1 .. Len(layers) : run[k] = K!ReadLayer(run[k - 1], layers[k], k)
             /\ \A k \in 0 .. Len(layers) : run[k] \in LayerReads
             /\ K!read_kioslaverc(layers) = run[Len(layers)]
<1> DEFINE n == Len(layers)
           base == K!ReadBegins
           op(r, i) == K!ReadLayer(r, layers[i], i)
           idx == [i \in 1 .. n |-> i]
           F == [x \in LayerReads \X (1 .. n) |-> op(x[1], x[2])]
           Is(iter) == iter = [s \in SUBSET (1 .. n) |->
                                  IF s = {} THEN base
                                  ELSE op(iter[s \ {Max(s)}], idx[Max(s)])]
           it == CHOOSE iter : Is(iter)
<1>1. n \in Nat /\ DOMAIN layers = 1 .. n /\ \A i \in 1 .. n : layers[i] \in LayerKinds
  OBVIOUS
<1>2. base \in LayerReads
  <2>1. <<>> \in Places
    BY DEF Places
  <2> HIDE DEF Places
  <2> QED
    BY <2>1 DEF K!ReadBegins, K!NoEntry, LayerReads, HeldEntries
<1>3. \A r \in LayerReads, i \in 1 .. n : op(r, i) \in LayerReads
  BY <1>1, LayerIsRead
<1>4. K!read_kioslaverc(layers) = it[1 .. n]
  <2>1. DOMAIN idx = 1 .. n
    OBVIOUS
  <2> QED
    BY <1>1, <2>1 DEF K!read_kioslaverc, K!FoldLeftDomain, K!FoldLeft, K!MapThenFoldSet,
       K!Max, Max
<1>5. \A s \in SUBSET (1 .. n) : s # {} => Max(s) \in 1 .. n /\ idx[Max(s)] = Max(s)
  <2> TAKE s \in SUBSET (1 .. n)
  <2>1. ASSUME s # {}
        PROVE  Max(s) \in 1 .. n
    BY <1>1, <2>1, GreatestIs
  <2> QED
    BY <2>1
<1> HIDE DEF base, op, idx, n
<1>6. F \in [LayerReads \X (1 .. n) -> LayerReads]
  BY <1>3
<1>7. PICK iter \in [SUBSET (1 .. n) -> LayerReads] : Runs(iter, n, base, F)
  <2> HIDE DEF F
  <2> QED
    BY <1>1, <1>2, <1>6, RunExists
<1>8. Is(iter)
  <2> SUFFICES ASSUME NEW s \in SUBSET (1 .. n)
               PROVE  iter[s] = IF s = {} THEN base
                                ELSE op(iter[s \ {Max(s)}], idx[Max(s)])
    OBVIOUS
  <2>1. CASE s = {}
    BY <1>7, <2>1 DEF Runs
  <2>2. CASE s # {}
    <3>1. Max(s) \in 1 .. n /\ idx[Max(s)] = Max(s)
      BY <1>5, <2>2
    <3>2. iter[s \ {Max(s)}] \in LayerReads
      BY <1>7
    <3>3. <<iter[s \ {Max(s)}], Max(s)>> \in LayerReads \X (1 .. n)
      BY <3>1, <3>2
    <3>4. iter[s] = F[<<iter[s \ {Max(s)}], Max(s)>>]
      BY <1>7, <2>2 DEF Runs
    <3> QED
      BY <2>2, <3>1, <3>3, <3>4
  <2> QED
    BY <2>1, <2>2
<1>9. Is(it)
  <2> HIDE DEF Is
  <2> QED
    BY <1>8, Zenon
<1>10. \A s \in SUBSET (1 .. n) :
          it[s] = IF s = {} THEN base ELSE op(it[s \ {Max(s)}], idx[Max(s)])
  <2>1. it = [s \in SUBSET (1 .. n) |->
                 IF s = {} THEN base ELSE op(it[s \ {Max(s)}], idx[Max(s)])]
    <3> HIDE DEF it
    <3> QED
      BY <1>9
  <2> HIDE DEF it
  <2> QED
    BY <2>1
<1> DEFINE run == [k \in 0 .. n |-> it[1 .. k]]
<1> HIDE DEF it, F
<1>11. run[0] = base /\ \A k \in 1 .. n : run[k] = op(run[k - 1], k)
  <2>1. run[0] = base
    <3>1. 1 .. 0 = {} /\ {} \in SUBSET (1 .. n)
      OBVIOUS
    <3>2. run[0] = it[{}]
      BY <1>1, <3>1
    <3>3. it[{}] = base
      <4> HIDE DEF run
      <4> QED
        BY <1>10, <3>1
    <3> QED
      BY <3>2, <3>3
  <2>2. ASSUME NEW k \in 1 .. n
        PROVE  run[k] = op(run[k - 1], k)
    <3>1. /\ 1 .. k \in SUBSET (1 .. n) /\ 1 .. k # {} /\ (1 .. k) \ {k} = 1 .. (k - 1)
          /\ k \in 1 .. k /\ \A j \in 1 .. k : k >= j
      BY <1>1
    <3>2. Max(1 .. k) = k
      BY <1>1, <3>1, SelectedLast
    <3>3. run[k] = it[1 .. k] /\ run[k - 1] = it[1 .. (k - 1)]
      BY <1>1
    <3> QED
      BY <1>5, <1>10, <3>1, <3>2, <3>3
  <2> QED
    BY <2>1, <2>2
<1>12. run[n] = it[1 .. n]
  BY <1>1
<1> HIDE DEF run
<1>13. \A k \in 0 .. n : run[k] \in LayerReads
  <2> DEFINE G == {k \in 0 .. n : run[k] \in LayerReads}
  <2>1. 0 \in G
    BY <1>1, <1>2, <1>11
  <2>2. \A k \in 1 .. n : k - 1 \in G => k \in G
    BY <1>1, <1>3, <1>11
  <2>3. \A k \in 0 .. n : k \in G
    <3> HIDE DEF G
    <3> QED
      BY <1>1, <2>1, <2>2, Climbs
  <2> QED
    BY <2>3
<1>14. K!read_kioslaverc(layers) = run[n]
  BY <1>4, <1>12
<1> QED
  BY <1>11, <1>13, <1>14 DEF n, base, op

\* The last line before one that has one of some headers.
LEMMA LastOfMore ==
  ASSUME NEW lines \in Seq(K!Lines), NEW k \in 1 .. Len(lines), NEW H
  PROVE  K!LastOf(lines, k + 1, H) =
             IF lines[k].header \in H THEN k ELSE K!LastOf(lines, k, H)
<1> DEFINE before(i) == {j \in 1 .. i - 1 : lines[j].header \in H}
<1>1. k \in Nat /\ k \in 1 .. (k + 1) - 1
  OBVIOUS
<1>2. CASE lines[k].header \in H
  <2>1. k \in before(k + 1) /\ \A j \in before(k + 1) : j <= k /\ j \in Nat
    BY <1>1, <1>2
  <2>2. before(k + 1) # {}
    BY <2>1
  <2> DEFINE c == CHOOSE j \in before(k + 1) : \A i \in before(k + 1) : i <= j
  <2>3. c \in before(k + 1) /\ \A i \in before(k + 1) : i <= c
    <3> HIDE DEF before
    <3> QED
      BY <2>1
  <2>4. c = k
    <3> HIDE DEF c, before
    <3> QED
      BY <1>1, <2>1, <2>3
  <2> QED
    BY <1>2, <2>2, <2>4 DEF K!LastOf
<1>3. CASE lines[k].header \notin H
  <2>1. before(k + 1) = before(k)
    BY <1>1, <1>3
  <2>2. \A i : K!LastOf(lines, i, H) =
                  IF before(i) = {} THEN 0 ELSE CHOOSE j \in before(i) : \A l \in before(i) : l <= j
    BY DEF K!LastOf
  <2> HIDE DEF before
  <2> QED
    BY <1>3, <2>1, <2>2
<1> QED
  BY <1>2, <1>3

\* No line stands before the first.
LEMMA NothingIsLast ==
  ASSUME NEW lines, NEW H
  PROVE  K!LastOf(lines, 1, H) = 0
<1>1. 1 .. 1 - 1 = {}
  OBVIOUS
<1> QED
  BY <1>1 DEF K!LastOf

\* Whether the group is open, and locked, behind a line.
LEMMA GroupGoesOn ==
  ASSUME NEW lines \in Seq(K!Lines), NEW k \in 1 .. Len(lines)
  PROVE  /\ lines[k].header \in {"entry", "broken"} =>
                (K!InGroup(lines, k + 1) <=> K!InGroup(lines, k))
         /\ lines[k].header \notin {"entry", "broken"} =>
                (K!InGroup(lines, k + 1) <=> lines[k].header \in {"proxy", "locked"})
         /\ lines[k].header = "entry" =>
                (K!Locked(lines, k + 1) <=> K!Locked(lines, k))
         /\ lines[k].header # "entry" =>
                (K!Locked(lines, k + 1) <=>
                     /\ K!InGroup(lines, k + 1)
                     /\ \/ lines[k].header = "locked"
                        \/ \E j \in 1 .. k : lines[j].header = "file")
<1> DEFINE G == K!Headers \ {"broken"}
<1>1. lines[k].header \in LineKinds
  BY DEF K!Lines, LineKinds
<1>2. /\ K!LastOf(lines, k + 1, G) =
             IF lines[k].header \in G THEN k ELSE K!LastOf(lines, k, G)
      /\ K!LastOf(lines, k + 1, K!Headers) =
             IF lines[k].header \in K!Headers THEN k ELSE K!LastOf(lines, k, K!Headers)
  BY LastOfMore
<1>3. /\ lines[k].header \in {"entry", "broken"} <=> lines[k].header \notin G
      /\ lines[k].header = "entry" <=> lines[k].header \notin K!Headers
  BY <1>1 DEF LineKinds, K!Headers
<1>4. k # 0
  OBVIOUS
<1> HIDE DEF G
<1>5. /\ lines[k].header \in {"entry", "broken"} =>
             (K!InGroup(lines, k + 1) <=> K!InGroup(lines, k))
      /\ lines[k].header \notin {"entry", "broken"} =>
             (K!InGroup(lines, k + 1) <=> lines[k].header \in {"proxy", "locked"})
  BY <1>2, <1>3, <1>4 DEF K!InGroup, G
<1> QED
  BY <1>2, <1>3, <1>5 DEF K!Locked

\* What a scan knows of the lines it has seen.
Scanned(s, lines, k) ==
    /\ s.in <=> K!InGroup(lines, k + 1)
    /\ s.lock <=> K!Locked(lines, k + 1)
    /\ s.file <=> \E j \in 1 .. k : lines[j].header = "file"
    /\ s.pending <=>
           \E i \in 1 .. k : \/ lines[i].header = "locked"
                             \/ /\ lines[i].header = "proxy"
                                /\ \E j \in 1 .. i : lines[j].header = "file"

\* It knows nothing before the first line.
LEMMA NothingIsScanned ==
  ASSUME NEW read, NEW lines
  PROVE  Scanned(K!ScanBegins(read), lines, 0)
<1>1. 0 + 1 = 1 /\ 1 .. 0 = {}
  OBVIOUS
<1>2. ~K!InGroup(lines, 1) /\ ~K!Locked(lines, 1)
  BY NothingIsLast DEF K!InGroup, K!Locked
<1> QED
  BY <1>1, <1>2 DEF Scanned, K!ScanBegins

\* It knows as much of one line more.
LEMMA OneMoreIsScanned ==
  ASSUME NEW lines \in Seq(K!Lines), NEW k \in 1 .. Len(lines), NEW s \in Scans,
         NEW place \in Nat \X Nat, Scanned(s, lines, k - 1)
  PROVE  Scanned(K!ScanLine(s, lines[k], place), lines, k)
<1> DEFINE next == K!ScanLine(s, lines[k], place)
           header == lines[k].header
           File(i) == \E j \in 1 .. i : lines[j].header = "file"
           Locks(i) == lines[i].header = "locked" \/ (lines[i].header = "proxy" /\ File(i))
           Pends(i) == \E j \in 1 .. i : Locks(j)
<1>1. /\ lines[k] \in K!Lines /\ k \in Nat /\ (k - 1) + 1 = k
      /\ \A j \in 1 .. k : j = k \/ j \in 1 .. k - 1
      /\ k \in 1 .. k /\ \A j \in 1 .. k - 1 : j \in 1 .. k
  OBVIOUS
<1>2. /\ s.in <=> K!InGroup(lines, k)
      /\ s.lock <=> K!Locked(lines, k)
      /\ s.file <=> File(k - 1)
      /\ s.pending <=> Pends(k - 1)
  BY <1>1 DEF Scanned
<1>3. File(k) <=> File(k - 1) \/ header = "file"
  BY <1>1
<1>4. Pends(k) <=> Pends(k - 1) \/ Locks(k)
  <2> HIDE DEF Locks
  <2> QED
    BY <1>1
<1>5. /\ header \in LineKinds
      /\ header = "entry" =>
             /\ next.in = s.in /\ next.lock = s.lock /\ next.file = s.file
             /\ next.pending = s.pending
      /\ header = "broken" =>
             /\ next.in = s.in /\ next.lock = (s.in /\ s.file) /\ next.file = s.file
             /\ next.pending = s.pending
      /\ header \notin {"entry", "broken"} =>
             LET in == header \in {"proxy", "locked"}
                 file == s.file \/ header = "file"
                 lock == in /\ (file \/ header = "locked")
             IN
             /\ next.in = in /\ next.file = file /\ next.lock = lock
             /\ next.pending = (s.pending \/ lock)
  BY <1>1, LineScanned
<1>6. /\ header \in {"entry", "broken"} => (K!InGroup(lines, k + 1) <=> K!InGroup(lines, k))
      /\ header \notin {"entry", "broken"} =>
             (K!InGroup(lines, k + 1) <=> header \in {"proxy", "locked"})
      /\ header = "entry" => (K!Locked(lines, k + 1) <=> K!Locked(lines, k))
      /\ header # "entry" =>
             (K!Locked(lines, k + 1) <=>
                  K!InGroup(lines, k + 1) /\ (header = "locked" \/ File(k)))
  BY GroupGoesOn
<1>7. Locks(k) <=> header = "locked" \/ (header = "proxy" /\ File(k))
  OBVIOUS
<1>9. s.in \in BOOLEAN /\ s.lock \in BOOLEAN /\ s.file \in BOOLEAN /\ s.pending \in BOOLEAN
  BY DEF Scans
<1>8. /\ next.in <=> K!InGroup(lines, k + 1)
      /\ next.lock <=> K!Locked(lines, k + 1)
      /\ next.file <=> File(k)
      /\ next.pending <=> Pends(k)
  <2> HIDE DEF next, header, File, Locks, Pends
  <2>1. CASE header = "entry"
    BY <1>2, <1>3, <1>4, <1>5, <1>6, <1>7, <2>1
  <2>2. CASE header = "broken"
    BY <1>2, <1>3, <1>4, <1>5, <1>6, <1>7, <1>9, <2>2
  <2>3. CASE header \notin {"entry", "broken"}
    BY <1>2, <1>3, <1>4, <1>5, <1>6, <1>7, <1>9, <2>3
  <2> QED
    BY <2>1, <2>2, <2>3
<1> QED
  BY <1>8 DEF Scanned

\* The entry that stands when some have been applied, one after another: the
\* first frozen one, or the last of all.
Stands(entry, applied, frozen, deleted) ==
    /\ entry.immutable <=> applied \cap frozen # {}
    /\ applied = {} => entry.value = <<>>
    /\ applied # {} =>
           \E w \in applied :
               /\ entry.value = IF w \in deleted THEN <<>> ELSE w
               /\ applied \cap frozen # {} =>
                      /\ w \in frozen
                      /\ \A q \in applied \cap frozen : q = w \/ K!Precedes(w, q)
               /\ applied \cap frozen = {} =>
                      \A q \in applied : q = w \/ K!Precedes(q, w)

\* One that is applied behind them all takes its place.
LEMMA OneMoreStands ==
  ASSUME NEW entry \in HeldEntries, NEW applied, NEW frozen, NEW deleted, NEW p, NEW line,
         NEW locked \in BOOLEAN, Stands(entry, applied, frozen, deleted),
         \A q \in applied : K!Precedes(q, p),
         p \in frozen <=> locked \/ K!Freezes(line.flags),
         p \in deleted <=> K!Deletes(line.flags)
  PROVE  Stands(K!apply(entry, line, p, locked), applied \cup {p}, frozen, deleted)
<1> DEFINE more == applied \cup {p}
           next == K!apply(entry, line, p, locked)
<1>1. p \in more /\ more # {} /\ \A q \in more : q = p \/ q \in applied
  OBVIOUS
<1>2. CASE applied \cap frozen # {}
  <2>1. next = entry
    BY <1>2 DEF Stands, K!apply
  <2>2. more \cap frozen # {}
    BY <1>2
  <2>3. PICK w \in applied :
            /\ entry.value = IF w \in deleted THEN <<>> ELSE w
            /\ w \in frozen
            /\ \A q \in applied \cap frozen : q = w \/ K!Precedes(w, q)
    BY <1>2 DEF Stands
  <2>4. \A q \in more \cap frozen : q = w \/ K!Precedes(w, q)
    BY <1>1, <2>3
  <2>5. entry.immutable
    BY <1>2 DEF Stands
  <2> QED
    BY <1>1, <2>1, <2>2, <2>3, <2>4, <2>5 DEF Stands
<1>3. CASE applied \cap frozen = {}
  <2>1. ~entry.immutable
    BY <1>3 DEF Stands
  <2>2. /\ next.value = IF p \in deleted THEN <<>> ELSE p
        /\ next.immutable <=> p \in frozen
    BY <2>1 DEF K!apply
  <2>3. more \cap frozen = IF p \in frozen THEN {p} ELSE {}
    BY <1>3
  <2>4. \A q \in more : q = p \/ K!Precedes(q, p)
    BY <1>1
  <2> HIDE DEF more, next
  <2>5. /\ next.immutable <=> more \cap frozen # {}
        /\ more \cap frozen # {} =>
               p \in frozen /\ \A q \in more \cap frozen : q = p \/ K!Precedes(p, q)
    BY <2>2, <2>3
  <2>6. Stands(next, more, frozen, deleted)
    BY <1>1, <2>2, <2>4, <2>5 DEF Stands
  <2> QED
    BY <2>6 DEF more, next
<1> QED
  BY <1>2, <1>3

\* The entries that count up to a line of a layer, those that are frozen and
\* those that delete, and whether a layer before locks the group.
Upto(layers, n, k) ==
    {p \in K!Entries(layers) : p[1] < n \/ (p[1] = n /\ p[2] <= k)}
FrozenOf(layers) ==
    {p \in Nat \X Nat : \/ K!Locked(layers[p[1]].lines, p[2])
                        \/ K!Freezes(layers[p[1]].lines[p[2]].flags)}
DeletedOf(layers) == {p \in Nat \X Nat : K!Deletes(layers[p[1]].lines[p[2]].flags)}
LocksBefore(layers, n) ==
    \E m \in K!ReadLayers(layers) : m < n /\ K!LocksGroup(layers[m].lines)

\* Layers of any number of lines, none where there is no file to read.
LayerLists ==
    {layers \in Seq(LayerKinds) :
        \A n \in 1 .. Len(layers) :
            layers[n].state # "read" => layers[n].lines = <<>>}

\* The places of the entries that count.
LEMMA EntriesArePlaces ==
  ASSUME NEW layers \in LayerLists
  PROVE  /\ K!ReadLayers(layers) \in SUBSET (1 .. Len(layers))
         /\ \A p \in K!Entries(layers) :
                /\ p \in Nat \X Nat
                /\ p[1] \in K!ReadLayers(layers) /\ p[2] \in 1 .. Len(layers[p[1]].lines)
<1>1. K!ReadLayers(layers) \in SUBSET (1 .. Len(layers))
  BY DEF K!ReadLayers
<1>2. Len(layers) \in Nat
  BY DEF LayerLists
<1>3. ASSUME NEW p \in K!Entries(layers)
      PROVE  /\ p \in Nat \X Nat
             /\ p[1] \in K!ReadLayers(layers) /\ p[2] \in 1 .. Len(layers[p[1]].lines)
  <2>1. PICK n \in K!ReadLayers(layers) : p \in {n} \X (1 .. Len(layers[n].lines))
    BY DEF K!Entries
  <2>2. n \in 1 .. Len(layers)
    BY <1>1
  <2>3. Len(layers[n].lines) \in Nat
    BY <2>2 DEF LayerLists, LayerKinds
  <2> DEFINE last == Len(layers[n].lines)
  <2>4. p \in {n} \X (1 .. last) /\ last \in Nat
    BY <2>1, <2>3
  <2> HIDE DEF last
  <2>5. p[1] = n /\ p[2] \in 1 .. last /\ p \in Nat \X Nat
    BY <1>2, <2>2, <2>4
  <2> QED
    BY <2>5 DEF last
<1> QED
  BY <1>1, <1>3

\* A line of a layer adds its entry, if it counts, to those before it.
LEMMA LineAdds ==
  ASSUME NEW layers \in LayerLists, NEW n \in K!ReadLayers(layers),
         NEW k \in 1 .. Len(layers[n].lines)
  PROVE  LET counts == /\ layers[n].lines[k].header = "entry"
                       /\ K!InGroup(layers[n].lines, k)
                       /\ ~LocksBefore(layers, n)
         IN
         /\ counts => Upto(layers, n, k) = Upto(layers, n, k - 1) \cup {<<n, k>>}
         /\ ~counts => Upto(layers, n, k) = Upto(layers, n, k - 1)
         /\ \A q \in Upto(layers, n, k - 1) : K!Precedes(q, <<n, k>>)
<1> DEFINE counts == /\ layers[n].lines[k].header = "entry"
                     /\ K!InGroup(layers[n].lines, k)
                     /\ ~LocksBefore(layers, n)
           p == <<n, k>>
<1>1. n \in 1 .. Len(layers) /\ Len(layers) \in Nat
  BY EntriesArePlaces DEF LayerLists
<1>2. Len(layers[n].lines) \in Nat
  BY <1>1 DEF LayerLists, LayerKinds
<1>3. n \in Nat /\ k \in Nat /\ k <= Len(layers[n].lines)
  <2>1. n \in Nat
    BY <1>1
  <2> DEFINE last == Len(layers[n].lines)
  <2>2. k \in 1 .. last /\ last \in Nat
    BY <1>2
  <2> HIDE DEF last
  <2>3. k \in Nat /\ k <= last
    BY <2>2
  <2> QED
    BY <2>1, <2>3 DEF last
<1>4. /\ p[1] = n /\ p[2] = k
      /\ p \in UNION {{m} \X (1 .. Len(layers[m].lines)) : m \in K!ReadLayers(layers)}
  OBVIOUS
<1>5. p \in K!Entries(layers) <=> counts
  <2> HIDE DEF p
  <2> QED
    BY <1>3, <1>4 DEF K!Entries, LocksBefore
<1>6. \A q \in K!Entries(layers) : /\ q[1] \in Nat /\ q[2] \in Nat
                                   /\ q[1] = n /\ q[2] = k => q = p
  BY EntriesArePlaces
<1> HIDE DEF p, counts
<1>7. counts => Upto(layers, n, k) = Upto(layers, n, k - 1) \cup {p}
  BY <1>3, <1>4, <1>5, <1>6 DEF Upto
<1>8. ~counts => Upto(layers, n, k) = Upto(layers, n, k - 1)
  BY <1>3, <1>4, <1>5, <1>6 DEF Upto
<1>9. \A q \in Upto(layers, n, k - 1) : K!Precedes(q, p)
  BY <1>3, <1>4, <1>6 DEF Upto, K!Precedes
<1> QED
  BY <1>7, <1>8, <1>9 DEF p, counts

\* What a layer leaves behind that is scanned.
LEMMA LayerIsScanned ==
  ASSUME NEW layers \in LayerLists, NEW n \in K!ReadLayers(layers), NEW read \in LayerReads,
         read.group <=> LocksBefore(layers, n),
         Stands(read.entry, Upto(layers, n, 0), FrozenOf(layers), DeletedOf(layers)),
         NEW next, next = K!ScanFile(read, layers[n].lines, n)
  PROVE  /\ next.failed = read.failed /\ next.any
         /\ next.group <=> LocksBefore(layers, n) \/ K!LocksGroup(layers[n].lines)
         /\ next.done <=> \E j \in 1 .. Len(layers[n].lines) :
                              layers[n].lines[j].header = "file"
         /\ Stands(next.entry, Upto(layers, n, Len(layers[n].lines)),
                   FrozenOf(layers), DeletedOf(layers))
<1> DEFINE lines == layers[n].lines
           last == Len(lines)
           frozen == FrozenOf(layers)
           deleted == DeletedOf(layers)
           Good(s, k) == /\ Scanned(s, lines, k) /\ s.was = read.group
                         /\ Stands(s.entry, Upto(layers, n, k), frozen, deleted)
<1>1. n \in 1 .. Len(layers) /\ n \in Nat
  BY EntriesArePlaces DEF LayerLists
<1>2. lines \in Seq(K!Lines) /\ last \in Nat
  <2>1. layers[n] \in LayerKinds
    BY <1>1 DEF LayerLists
  <2>2. layers[n].lines \in Seq(K!Lines)
    BY <2>1 DEF LayerKinds
  <2> QED
    BY <2>2
<1>3. \A k \in 1 .. last :
          LET counts == /\ lines[k].header = "entry" /\ K!InGroup(lines, k)
                        /\ ~LocksBefore(layers, n)
          IN
          /\ counts => Upto(layers, n, k) = Upto(layers, n, k - 1) \cup {<<n, k>>}
          /\ ~counts => Upto(layers, n, k) = Upto(layers, n, k - 1)
          /\ \A q \in Upto(layers, n, k - 1) : K!Precedes(q, <<n, k>>)
  BY LineAdds
<1>4. ASSUME NEW k \in 1 .. last
      PROVE  /\ <<n, k>> \in frozen <=> K!Locked(lines, k) \/ K!Freezes(lines[k].flags)
             /\ <<n, k>> \in deleted <=> K!Deletes(lines[k].flags)
             /\ <<n, k>> \in Nat \X Nat
  <2> DEFINE p == <<n, k>>
  <2>1. p \in Nat \X Nat /\ p[1] = n /\ p[2] = k
    BY <1>1, <1>2
  <2> HIDE DEF p
  <2>2. /\ p \in frozen <=> K!Locked(lines, k) \/ K!Freezes(lines[k].flags)
        /\ p \in deleted <=> K!Deletes(lines[k].flags)
    BY <2>1 DEF FrozenOf, DeletedOf
  <2> QED
    BY <2>1, <2>2 DEF p
<1>0. next = K!ScanFile(read, lines, n)
  OBVIOUS
<1>15. Stands(read.entry, Upto(layers, n, 0), frozen, deleted)
  OBVIOUS
<1> HIDE DEF lines, frozen, deleted, last
<1>5. PICK run : /\ run[0] = K!ScanBegins(read)
                 /\ \A k \in 1 .. last :
                        run[k] = K!ScanLine(run[k - 1], lines[k], <<n, k>>)
                 /\ \A k \in 0 .. last : run[k] \in Scans
                 /\ next = ReadOn(read, run[last])
  BY <1>0, <1>1, <1>2, LinesAreScanned DEF last
<1>6. Good(run[0], 0)
  <2>1. Scanned(run[0], lines, 0)
    BY <1>5, NothingIsScanned
  <2> QED
    BY <1>5, <1>15, <2>1 DEF K!ScanBegins
<1>7. ASSUME NEW k \in 1 .. last, Good(run[k - 1], k - 1)
      PROVE  Good(run[k], k)
  <2> DEFINE s == run[k - 1]
             line == lines[k]
             place == <<n, k>>
             r == run[k]
  <2>1. /\ k \in 1 .. Len(lines) /\ k - 1 \in 0 .. last /\ line \in K!Lines
        /\ s \in Scans /\ r = K!ScanLine(s, line, place) /\ place \in Nat \X Nat
    BY <1>2, <1>4, <1>5 DEF last
  <2>2. /\ (k - 1) + 1 = k
        /\ Scanned(s, lines, k - 1) /\ s.was = read.group
        /\ Stands(s.entry, Upto(layers, n, k - 1), frozen, deleted)
    BY <1>7
  <2>3. /\ line.header = "entry" /\ K!InGroup(lines, k) /\ ~LocksBefore(layers, n) =>
               Upto(layers, n, k) = Upto(layers, n, k - 1) \cup {place}
        /\ ~(line.header = "entry" /\ K!InGroup(lines, k) /\ ~LocksBefore(layers, n)) =>
               Upto(layers, n, k) = Upto(layers, n, k - 1)
        /\ \A q \in Upto(layers, n, k - 1) : K!Precedes(q, place)
    BY <1>3
  <2>4. /\ place \in frozen <=> K!Locked(lines, k) \/ K!Freezes(line.flags)
        /\ place \in deleted <=> K!Deletes(line.flags)
    BY <1>4
  <2> HIDE DEF s, line, place, r
  <2>5. Scanned(r, lines, k)
    BY <1>2, <2>1, <2>2, OneMoreIsScanned DEF line
  <2>6. /\ r.was = s.was /\ line.header \in LineKinds
        /\ line.header = "entry" =>
               r.entry = IF s.in /\ ~s.was THEN K!apply(s.entry, line, place, s.lock)
                         ELSE s.entry
        /\ line.header # "entry" => r.entry = s.entry
    BY <2>1, LineScanned
  <2>7. /\ s.in <=> K!InGroup(lines, k)
        /\ s.lock <=> K!Locked(lines, k)
        /\ s.was <=> LocksBefore(layers, n)
        /\ s.lock \in BOOLEAN /\ s.entry \in HeldEntries
    BY <2>1, <2>2 DEF Scanned, Scans
  <2>8. Stands(r.entry, Upto(layers, n, k), frozen, deleted)
    <3>1. CASE line.header = "entry" /\ s.in /\ ~s.was
      <4>1. r.entry = K!apply(s.entry, line, place, s.lock)
        BY <2>6, <3>1
      <4>2. Upto(layers, n, k) = Upto(layers, n, k - 1) \cup {place}
        BY <2>3, <2>7, <3>1
      <4>3. place \in frozen <=> s.lock \/ K!Freezes(line.flags)
        BY <2>4, <2>7
      <4>4. Stands(K!apply(s.entry, line, place, s.lock),
                   Upto(layers, n, k - 1) \cup {place}, frozen, deleted)
        BY <2>2, <2>3, <2>4, <2>7, <4>3, OneMoreStands
      <4> QED
        BY <4>1, <4>2, <4>4
    <3>2. CASE ~(line.header = "entry" /\ s.in /\ ~s.was)
      <4>1. r.entry = s.entry
        BY <2>6, <3>2
      <4>2. Upto(layers, n, k) = Upto(layers, n, k - 1)
        BY <2>3, <2>7, <3>2
      <4> QED
        BY <2>2, <4>1, <4>2
    <3> QED
      BY <3>1, <3>2
  <2>9. Good(r, k)
    BY <2>2, <2>5, <2>6, <2>8
  <2> QED
    BY <2>9 DEF r
<1> HIDE DEF Good
<1>8. Good(run[last], last)
  <2> DEFINE G == {k \in 0 .. last : Good(run[k], k)}
  <2>1. 0 \in G /\ \A k \in 1 .. last : k - 1 \in G => k \in G
    BY <1>2, <1>6, <1>7
  <2> HIDE DEF G
  <2>2. \A k \in 0 .. last : k \in G
    BY <1>2, <2>1, Climbs
  <2>3. last \in G
    BY <1>2, <2>2
  <2> QED
    BY <2>3 DEF G
<1> DEFINE end == run[last]
<1>9. /\ Scanned(end, lines, last)
      /\ Stands(end.entry, Upto(layers, n, last), frozen, deleted)
      /\ end \in Scans
  BY <1>2, <1>5, <1>8 DEF Good
<1> HIDE DEF end
<1>10. next = ReadOn(read, end)
  BY <1>5 DEF end
<1>11. /\ next.failed = read.failed /\ next.any /\ next.entry = end.entry
       /\ next.done = end.file /\ next.group = (read.group \/ end.pending)
  BY <1>10 DEF ReadOn, LayerReads
<1>12. /\ end.file <=> \E j \in 1 .. last : lines[j].header = "file"
       /\ end.pending <=> K!LocksGroup(lines)
  BY <1>9 DEF Scanned, K!LocksGroup, last
<1> QED
  BY <1>9, <1>11, <1>12 DEF lines, last, frozen, deleted

\* Whether no layer behind one is read: it is locked as a file, or failed.
Halts(layer) ==
    \/ layer.state = "failed"
    \/ \E i \in 1 .. Len(layer.lines) : layer.lines[i].header = "file"
Halted(layers, n) == \E m \in 1 .. n : Halts(layers[m])

\* What a read knows of the layers it has been through.
HasRead(r, layers, n) ==
    /\ r.done \/ r.failed <=> Halted(layers, n)
    /\ r.failed <=> \E m \in K!ReadLayers(layers) : m <= n /\ layers[m].state = "failed"
    /\ r.any <=> \E m \in K!ReadLayers(layers) : m <= n /\ layers[m].state = "read"
    /\ r.group <=> LocksBefore(layers, n + 1)
    /\ Stands(r.entry, Upto(layers, n + 1, 0), FrozenOf(layers), DeletedOf(layers))

\* Nothing was read before the first layer.
LEMMA NothingIsRead ==
  ASSUME NEW layers \in LayerLists
  PROVE  HasRead(K!ReadBegins, layers, 0)
<1>1. /\ \A m \in K!ReadLayers(layers) : m \in Nat /\ 1 <= m
      /\ \A p \in K!Entries(layers) : /\ p[1] \in Nat /\ 1 <= p[1]
                                      /\ p[2] \in Nat /\ 1 <= p[2]
  <2>1. \A m \in K!ReadLayers(layers) : m \in 1 .. Len(layers)
    BY EntriesArePlaces
  <2>2. \A p \in K!Entries(layers) :
            p[1] \in K!ReadLayers(layers) /\ p[2] \in 1 .. Len(layers[p[1]].lines)
    BY EntriesArePlaces
  <2>3. \A m \in K!ReadLayers(layers) : m \in Nat /\ 1 <= m
    BY <2>1
  <2>4. \A p \in K!Entries(layers) : p[2] \in Nat /\ 1 <= p[2]
    BY <2>2
  <2> QED
    BY <2>2, <2>3, <2>4
<1>2. 0 + 1 = 1 /\ 1 .. 0 = {}
  OBVIOUS
<1>3. Upto(layers, 1, 0) = {} /\ ~LocksBefore(layers, 1)
  BY <1>1 DEF Upto, LocksBefore
<1>4. Stands(K!ReadBegins.entry, {}, FrozenOf(layers), DeletedOf(layers))
  BY DEF Stands, K!ReadBegins, K!NoEntry
<1>5. ~Halted(layers, 0) /\ \A m \in K!ReadLayers(layers) : ~(m <= 0)
  BY <1>1, <1>2 DEF Halted
<1>6. ~K!ReadBegins.done /\ ~K!ReadBegins.failed /\ ~K!ReadBegins.any /\ ~K!ReadBegins.group
  BY DEF K!ReadBegins
<1> QED
  BY <1>2, <1>3, <1>4, <1>5, <1>6 DEF HasRead

\* Which layers are read.
LEMMA LayersOfARead ==
  ASSUME NEW layers \in LayerLists, NEW n \in 1 .. Len(layers)
  PROVE  /\ n \in K!ReadLayers(layers) <=>
                layers[n].state # "missing" /\ ~Halted(layers, n - 1)
         /\ Halted(layers, n) <=> Halted(layers, n - 1) \/ Halts(layers[n])
<1>1. n \in Nat /\ n \in 1 .. n /\ \A m \in 1 .. n : m = n \/ m \in 1 .. n - 1
  OBVIOUS
<1>2. \A m \in 1 .. n - 1 : m \in 1 .. n
  OBVIOUS
<1>3. Halted(layers, n) <=> Halted(layers, n - 1) \/ Halts(layers[n])
  BY <1>1, <1>2 DEF Halted
<1>4. n \in K!ReadLayers(layers) <=>
          layers[n].state # "missing" /\ ~Halted(layers, n - 1)
  BY DEF K!ReadLayers, Halted, Halts
<1> QED
  BY <1>3, <1>4

\* The entries and the locks before the next layer are those of this one too.
LEMMA NextLayer ==
  ASSUME NEW layers \in LayerLists, NEW n \in 1 .. Len(layers)
  PROVE  /\ n \notin K!ReadLayers(layers) =>
                /\ Upto(layers, n + 1, 0) = Upto(layers, n, 0)
                /\ LocksBefore(layers, n + 1) <=> LocksBefore(layers, n)
         /\ n \in K!ReadLayers(layers) =>
                /\ Upto(layers, n + 1, 0) = Upto(layers, n, Len(layers[n].lines))
                /\ LocksBefore(layers, n + 1) <=>
                       LocksBefore(layers, n) \/ K!LocksGroup(layers[n].lines)
<1> DEFINE last == Len(layers[n].lines)
<1>1. /\ n \in Nat
      /\ \A m \in K!ReadLayers(layers) : m \in Nat
      /\ \A p \in K!Entries(layers) :
             /\ p[1] \in K!ReadLayers(layers) /\ p[2] \in Nat /\ 1 <= p[2]
             /\ p[1] = n => p[2] <= last
  <2>1. \A m \in K!ReadLayers(layers) : m \in 1 .. Len(layers)
    BY EntriesArePlaces
  <2>2. \A p \in K!Entries(layers) :
            p[1] \in K!ReadLayers(layers) /\ p[2] \in 1 .. Len(layers[p[1]].lines)
    BY EntriesArePlaces
  <2> QED
    BY <2>1, <2>2
<1> HIDE DEF last
<1>2. \A m \in Nat : m < n + 1 <=> m < n \/ m = n
  BY <1>1
<1>3. ASSUME n \notin K!ReadLayers(layers)
      PROVE  Upto(layers, n + 1, 0) = Upto(layers, n, 0)
  BY <1>1, <1>2, <1>3 DEF Upto
<1>4. ASSUME n \in K!ReadLayers(layers)
      PROVE  Upto(layers, n + 1, 0) = Upto(layers, n, last)
  <2>1. ASSUME NEW p \in K!Entries(layers)
        PROVE  p[1] < n + 1 \/ (p[1] = n + 1 /\ p[2] <= 0) <=>
                   p[1] < n \/ (p[1] = n /\ p[2] <= last)
    <3>1. p[1] \in Nat /\ p[2] \in Nat /\ 1 <= p[2] /\ (p[1] = n => p[2] <= last)
      BY <1>1
    <3> QED
      BY <1>1, <3>1
  <2> QED
    BY <2>1 DEF Upto
<1>5. n \notin K!ReadLayers(layers) =>
          (LocksBefore(layers, n + 1) <=> LocksBefore(layers, n))
  BY <1>1, <1>2 DEF LocksBefore
<1>6. n \in K!ReadLayers(layers) =>
          (LocksBefore(layers, n + 1) <=>
               LocksBefore(layers, n) \/ K!LocksGroup(layers[n].lines))
  BY <1>1, <1>2 DEF LocksBefore
<1> QED
  BY <1>3, <1>4, <1>5, <1>6 DEF last

\* It knows as much of one layer more.
LEMMA OneMoreIsRead ==
  ASSUME NEW layers \in LayerLists, NEW n \in 1 .. Len(layers), NEW r \in LayerReads,
         HasRead(r, layers, n - 1), NEW next, next = K!ReadLayer(r, layers[n], n)
  PROVE  HasRead(next, layers, n)
<1> DEFINE frozen == FrozenOf(layers)
           deleted == DeletedOf(layers)
           layer == layers[n]
<1>1. /\ n \in Nat /\ (n - 1) + 1 = n
      /\ layer \in LayerKinds
      /\ layer.state # "read" => layer.lines = <<>>
  BY DEF LayerLists
<1>2. layer.state \in {"missing", "failed", "read"}
  BY <1>1 DEF LayerKinds
<1>3. /\ r.done \/ r.failed <=> Halted(layers, n - 1)
      /\ r.failed <=> \E m \in K!ReadLayers(layers) :
                          m <= n - 1 /\ layers[m].state = "failed"
      /\ r.any <=> \E m \in K!ReadLayers(layers) : m <= n - 1 /\ layers[m].state = "read"
      /\ r.group <=> LocksBefore(layers, n)
      /\ Stands(r.entry, Upto(layers, n, 0), frozen, deleted)
  BY <1>1 DEF HasRead
<1>4. /\ n \in K!ReadLayers(layers) <=> layer.state # "missing" /\ ~Halted(layers, n - 1)
      /\ Halted(layers, n) <=> Halted(layers, n - 1) \/ Halts(layer)
  BY LayersOfARead
<1>5. \A m \in K!ReadLayers(layers) :
          m \in Nat /\ (m <= n <=> m <= n - 1 \/ m = n)
  <2>1. \A m \in K!ReadLayers(layers) : m \in 1 .. Len(layers)
    BY EntriesArePlaces
  <2> QED
    BY <1>1, <2>1
<1>6. /\ n \notin K!ReadLayers(layers) =>
             /\ Upto(layers, n + 1, 0) = Upto(layers, n, 0)
             /\ LocksBefore(layers, n + 1) <=> LocksBefore(layers, n)
      /\ n \in K!ReadLayers(layers) =>
             /\ Upto(layers, n + 1, 0) = Upto(layers, n, Len(layer.lines))
             /\ LocksBefore(layers, n + 1) <=>
                    LocksBefore(layers, n) \/ K!LocksGroup(layer.lines)
  BY NextLayer
<1>7. layer.lines = <<>> =>
          /\ Len(layer.lines) = 0 /\ ~K!LocksGroup(layer.lines)
          /\ ~\E i \in 1 .. Len(layer.lines) : layer.lines[i].header = "file"
  <2>1. 1 .. 0 = {} /\ Len(<<>>) = 0
    OBVIOUS
  <2> QED
    BY <2>1 DEF K!LocksGroup
<1>8. next = K!ReadLayer(r, layer, n)
  OBVIOUS
<1> HIDE DEF frozen, deleted, layer
<1>9. CASE n \notin K!ReadLayers(layers)
  <2>1. r.done \/ r.failed \/ layer.state = "missing"
    BY <1>3, <1>4, <1>9
  <2>2. next = r
    BY <1>8, <2>1 DEF K!ReadLayer
  <2>3. Halted(layers, n) <=> Halted(layers, n - 1)
    BY <1>1, <1>4, <1>7, <1>9 DEF Halts
  <2>4. /\ next.failed <=> \E m \in K!ReadLayers(layers) :
                               m <= n /\ layers[m].state = "failed"
        /\ next.any <=> \E m \in K!ReadLayers(layers) :
                            m <= n /\ layers[m].state = "read"
    BY <1>3, <1>5, <1>9, <2>2
  <2> QED
    BY <1>3, <1>6, <1>9, <2>2, <2>3, <2>4 DEF HasRead, frozen, deleted
<1>10. CASE n \in K!ReadLayers(layers) /\ layer.state = "failed"
  <2>1. ~r.done /\ ~r.failed /\ ~Halted(layers, n - 1)
    BY <1>3, <1>4, <1>10
  <2>2. next = [r EXCEPT !.failed = TRUE]
    BY <1>8, <1>10, <2>1 DEF K!ReadLayer
  <2>3. /\ next.failed /\ next.done = r.done /\ next.any = r.any /\ next.group = r.group
        /\ next.entry = r.entry
    BY <2>2 DEF LayerReads
  <2>4. layer.lines = <<>>
    BY <1>1, <1>10
  <2>5. Halted(layers, n)
    BY <1>4, <1>10 DEF Halts
  <2>6. layers[n].state = "failed"
    BY <1>10 DEF layer
  <2>7. /\ next.failed <=> \E m \in K!ReadLayers(layers) :
                               m <= n /\ layers[m].state = "failed"
        /\ next.any <=> \E m \in K!ReadLayers(layers) :
                            m <= n /\ layers[m].state = "read"
    BY <1>1, <1>3, <1>5, <1>10, <2>3, <2>6
  <2>8. /\ Upto(layers, n + 1, 0) = Upto(layers, n, 0)
        /\ LocksBefore(layers, n + 1) <=> LocksBefore(layers, n)
    BY <1>6, <1>7, <1>10, <2>4
  <2> QED
    BY <1>3, <2>3, <2>5, <2>7, <2>8 DEF HasRead, frozen, deleted
<1>11. CASE n \in K!ReadLayers(layers) /\ layer.state = "read"
  <2>1. ~r.done /\ ~r.failed /\ ~Halted(layers, n - 1)
    BY <1>3, <1>4, <1>11
  <2>2. next = K!ScanFile(r, layers[n].lines, n)
    BY <1>8, <1>11, <2>1 DEF K!ReadLayer, layer
  <2>3. /\ next.failed = r.failed /\ next.any
        /\ next.group <=> LocksBefore(layers, n) \/ K!LocksGroup(layers[n].lines)
        /\ next.done <=> \E j \in 1 .. Len(layers[n].lines) :
                             layers[n].lines[j].header = "file"
        /\ Stands(next.entry, Upto(layers, n, Len(layers[n].lines)), frozen, deleted)
    BY <1>3, <1>11, <2>2, LayerIsScanned DEF frozen, deleted
  <2>4. next.done \/ next.failed <=> Halted(layers, n)
    BY <1>4, <1>11, <2>1, <2>3 DEF Halts, layer
  <2>5. layers[n].state = "read"
    BY <1>11 DEF layer
  <2>6. next.any <=> \E m \in K!ReadLayers(layers) : m <= n /\ layers[m].state = "read"
    BY <1>1, <1>5, <1>11, <2>3, <2>5
  <2>7. next.failed <=> \E m \in K!ReadLayers(layers) : m <= n /\ layers[m].state = "failed"
    BY <1>3, <1>5, <2>3, <2>5
  <2>8. /\ next.group <=> LocksBefore(layers, n + 1)
        /\ Stands(next.entry, Upto(layers, n + 1, 0), frozen, deleted)
    BY <1>6, <1>11, <2>3 DEF layer
  <2> QED
    BY <2>4, <2>6, <2>7, <2>8 DEF HasRead, frozen, deleted
<1> QED
  BY <1>2, <1>4, <1>9, <1>10, <1>11

\* The entry in effect is the one KConfig means.
THEOREM ReadingIsMeant ==
  ASSUME NEW layers \in LayerLists
  PROVE  K!KdeReading(layers) = K!KdeMeans(layers)
<1> DEFINE n == Len(layers)
           entries == K!Entries(layers)
           frozen == FrozenOf(layers)
           deleted == DeletedOf(layers)
           readLayers == K!ReadLayers(layers)
<1>1. layers \in Seq(LayerKinds) /\ n \in Nat /\ n \in 0 .. n
  BY DEF LayerLists
<1>2. PICK run : /\ run[0] = K!ReadBegins
                 /\ \A k \in 1 .. n : run[k] = K!ReadLayer(run[k - 1], layers[k], k)
                 /\ \A k \in 0 .. n : run[k] \in LayerReads
                 /\ K!read_kioslaverc(layers) = run[n]
  BY <1>1, LayersAreRead
<1> DEFINE G == {k \in 0 .. n : HasRead(run[k], layers, k)}
           r == run[n]
<1>3. 0 \in G
  BY <1>1, <1>2, NothingIsRead
<1>4. ASSUME NEW k \in 1 .. n, k - 1 \in G
      PROVE  k \in G
  <2>1. k \in 0 .. n /\ k - 1 \in 0 .. n
    BY <1>1
  <2>2. run[k - 1] \in LayerReads /\ HasRead(run[k - 1], layers, k - 1)
    BY <1>2, <1>4, <2>1
  <2>3. HasRead(run[k], layers, k)
    BY <1>2, <2>2, OneMoreIsRead
  <2> QED
    BY <2>1, <2>3
<1>5. HasRead(r, layers, n) /\ r \in LayerReads /\ K!read_kioslaverc(layers) = r
  <2>1. \A k \in 0 .. n : k \in G
    <3> HIDE DEF G, n
    <3> QED
      BY <1>1, <1>3, <1>4, Climbs
  <2> QED
    BY <1>1, <1>2, <2>1
<1> HIDE DEF G, r
<1>6. /\ \A m \in readLayers : m \in Nat /\ m <= n /\ layers[m].state \in {"failed", "read"}
      /\ \A p \in entries : p \in Nat \X Nat /\ p[1] \in readLayers
  <2>1. \A m \in readLayers : m \in 1 .. n
    BY EntriesArePlaces
  <2>2. \A m \in 1 .. n : layers[m].state \in {"missing", "failed", "read"}
    <3>1. \A m \in 1 .. n : layers[m] \in LayerKinds
      BY <1>1
    <3> QED
      BY <3>1 DEF LayerKinds
  <2>3. \A m \in readLayers : layers[m].state # "missing"
    BY DEF K!ReadLayers
  <2>4. \A p \in entries : p \in Nat \X Nat /\ p[1] \in readLayers
    BY EntriesArePlaces
  <2> QED
    BY <1>1, <2>1, <2>2, <2>3, <2>4
<1>7. Upto(layers, n + 1, 0) = entries
  <2>1. \A p \in entries : p[1] < n + 1
    BY <1>1, <1>6
  <2> QED
    BY <2>1 DEF Upto
<1> HIDE DEF n, entries, frozen, deleted, readLayers
<1>8. /\ r.failed <=> \E m \in readLayers : layers[m].state = "failed"
      /\ r.any <=> \E m \in readLayers : layers[m].state = "read"
      /\ Stands(r.entry, entries, frozen, deleted)
      /\ r.failed \in BOOLEAN /\ r.any \in BOOLEAN
  <2>1. Stands(r.entry, entries, frozen, deleted)
    BY <1>5, <1>7 DEF HasRead, frozen, deleted
  <2>2. /\ r.failed <=> \E m \in readLayers : m <= n /\ layers[m].state = "failed"
        /\ r.any <=> \E m \in readLayers : m <= n /\ layers[m].state = "read"
    BY <1>5 DEF HasRead, readLayers
  <2> QED
    BY <1>5, <1>6, <2>1, <2>2 DEF LayerReads
<1> DEFINE line(p) == layers[p[1]].lines[p[2]]
           held == {p \in entries : \/ K!Locked(layers[p[1]].lines, p[2])
                                    \/ line(p).flags \in {"i", "id"}}
           first == CHOOSE p \in held : \A q \in held : p = q \/ K!Precedes(p, q)
           last == CHOOSE p \in entries : \A q \in entries : p = q \/ K!Precedes(q, p)
           winner == IF held # {} THEN first ELSE last
<1>9. K!KdeMeans(layers) =
          IF \E m \in readLayers : layers[m].state = "failed" THEN <<"failed">>
          ELSE IF readLayers = {} THEN <<"absent">>
          ELSE IF entries = {} \/ K!Deletes(line(winner).flags) THEN <<"unset">>
          ELSE <<"configured", winner>>
  BY DEF K!KdeMeans, entries, readLayers
<1>10. K!KdeReading(layers) =
           IF r.failed THEN <<"failed">>
           ELSE IF ~r.any THEN <<"absent">>
           ELSE IF r.entry.value = <<>> THEN <<"unset">>
           ELSE <<"configured", r.entry.value>>
  BY <1>5, <1>8 DEF K!KdeReading
<1>11. held = entries \cap frozen
  BY <1>6 DEF frozen, FrozenOf, K!Freezes
<1>12. \A p \in entries : p \in deleted <=> K!Deletes(line(p).flags)
  BY <1>6 DEF deleted, DeletedOf
<1>13. \A p, q \in Nat \X Nat : ~(K!Precedes(p, q) /\ K!Precedes(q, p))
  BY DEF K!Precedes
<1> HIDE DEF held, line
<1>14. ASSUME entries # {}
       PROVE  r.entry.value = IF winner \in deleted THEN <<>> ELSE winner
  <2>1. PICK w \in entries :
            /\ r.entry.value = IF w \in deleted THEN <<>> ELSE w
            /\ held # {} => /\ w \in held
                            /\ \A q \in held : q = w \/ K!Precedes(w, q)
            /\ held = {} => \A q \in entries : q = w \/ K!Precedes(q, w)
    BY <1>8, <1>11, <1>14 DEF Stands
  <2>2. held # {} => first = w
    <3> SUFFICES ASSUME held # {}
                 PROVE  first = w
      OBVIOUS
    <3>1. first \in held /\ \A q \in held : first = q \/ K!Precedes(first, q)
      BY <2>1
    <3> HIDE DEF first
    <3> QED
      BY <1>6, <1>11, <1>13, <2>1, <3>1
  <2>3. held = {} => last = w
    <3> SUFFICES ASSUME held = {}
                 PROVE  last = w
      OBVIOUS
    <3>1. last \in entries /\ \A q \in entries : last = q \/ K!Precedes(q, last)
      BY <2>1
    <3> HIDE DEF last
    <3> QED
      BY <1>6, <1>13, <2>1, <3>1
  <2>4. winner = w
    BY <2>2, <2>3
  <2> QED
    BY <2>1, <2>4
<1>15. entries # {} => winner \in entries
  <2> SUFFICES ASSUME entries # {}
               PROVE  winner \in entries
    OBVIOUS
  <2>1. PICK w \in entries :
            /\ held # {} => /\ w \in held
                            /\ \A q \in held : q = w \/ K!Precedes(w, q)
            /\ held = {} => \A q \in entries : q = w \/ K!Precedes(q, w)
    BY <1>8, <1>11 DEF Stands
  <2>2. held # {} => first \in held
    BY <2>1
  <2>3. held = {} => last \in entries
    BY <2>1
  <2> HIDE DEF first, last
  <2> QED
    BY <1>11, <2>2, <2>3
<1> HIDE DEF winner
<1>16. \A p \in entries : p # <<>>
  <2>1. \A p \in Nat \X Nat : p # <<>>
    <3> TAKE p \in Nat \X Nat
    <3>1. Len(p) = 2 /\ Len(<<>>) = 0
      OBVIOUS
    <3> QED
      BY <3>1
  <2> QED
    BY <1>6, <2>1
<1>17. CASE entries = {}
  <2>1. r.entry.value = <<>>
    BY <1>8, <1>17 DEF Stands
  <2> QED
    BY <1>6, <1>8, <1>9, <1>10, <1>17, <2>1
<1>18. CASE entries # {}
  <2>1. /\ winner \in entries /\ winner # <<>>
        /\ winner \in deleted <=> K!Deletes(line(winner).flags)
        /\ r.entry.value = IF winner \in deleted THEN <<>> ELSE winner
    BY <1>12, <1>14, <1>15, <1>16, <1>18
  <2> QED
    BY <1>6, <1>8, <1>9, <1>10, <1>18, <2>1
<1> QED
  BY <1>17, <1>18

\* The layers the questions are about.
LEMMA CascadesAreLayers ==
  ASSUME NEW c \in Cascades
  PROVE  c \in LayerLists
<1> DEFINE Fit(l) == l \in LayerKinds /\ (l.state # "read" => l.lines = <<>>)
<1>1. Fit(K!Missing) /\ Fit(K!Unreadable)
  <2>1. <<>> \in Seq(K!Lines)
    OBVIOUS
  <2> QED
    BY <2>1 DEF K!Missing, K!Unreadable, LayerKinds
<1>2. ASSUME NEW m \in {1, 2}, NEW l \in Layers(m)
      PROVE  Fit(l)
  <2> DEFINE made(h, s) ==
                 [state |-> "read", lines |-> <<[header |-> h, flags |-> "none"]>> \o s]
  <2>8. Layers(m) = {made(h, s) : h \in K!Headers, s \in SeqOf(K!Lines, m)}
    BY DEF Layers
  <2> HIDE DEF made
  <2>1. PICK h \in K!Headers, s \in SeqOf(K!Lines, m) : l = made(h, s)
    BY <2>8
  <2>2. s \in Seq(K!Lines)
    BY DEF SeqOf
  <2> DEFINE one == [header |-> h, flags |-> "none"]
  <2>3. one \in K!Lines
    BY DEF K!Lines
  <2> HIDE DEF one
  <2> DEFINE all == <<one>> \o s
  <2>4. all \in Seq(K!Lines)
    BY <2>2, <2>3
  <2>6. l = [state |-> "read", lines |-> all]
    BY <2>1 DEF one, made
  <2> HIDE DEF all
  <2>7. l.lines = all /\ l.state = "read" /\ l \in LayerKinds
    BY <2>4, <2>6 DEF LayerKinds
  <2> QED
    BY <2>7
<1> HIDE DEF Fit
<1>3. ASSUME NEW a, NEW b, Fit(a), Fit(b)
      PROVE  <<a, b>> \in LayerLists
  <2>1. a \in LayerKinds /\ b \in LayerKinds
    BY <1>3 DEF Fit
  <2>2. <<a, b>> \in Seq(LayerKinds)
    BY <2>1
  <2>3. \A n \in 1 .. Len(<<a, b>>) : Fit(<<a, b>>[n])
    <3>1. \A n \in 1 .. Len(<<a, b>>) : n = 1 \/ n = 2
      OBVIOUS
    <3>2. <<a, b>>[1] = a /\ <<a, b>>[2] = b
      OBVIOUS
    <3> QED
      BY <1>3, <3>1, <3>2
  <2> QED
    BY <2>2, <2>3 DEF LayerLists, Fit
<1>4. ASSUME NEW a, NEW b, NEW d, Fit(a), Fit(b), Fit(d)
      PROVE  <<a, b, d>> \in LayerLists
  <2>1. a \in LayerKinds /\ b \in LayerKinds /\ d \in LayerKinds
    BY <1>4 DEF Fit
  <2>2. <<a, b, d>> \in Seq(LayerKinds)
    BY <2>1
  <2>3. \A n \in 1 .. Len(<<a, b, d>>) : Fit(<<a, b, d>>[n])
    <3>1. \A n \in 1 .. Len(<<a, b, d>>) : n = 1 \/ n = 2 \/ n = 3
      OBVIOUS
    <3>2. <<a, b, d>>[1] = a /\ <<a, b, d>>[2] = b /\ <<a, b, d>>[3] = d
      OBVIOUS
    <3> QED
      BY <1>4, <3>1, <3>2
  <2> QED
    BY <2>2, <2>3 DEF LayerLists, Fit
<1>5. \/ \E a \in Layers(2), b \in Layers(1) : c = <<a, b>>
      \/ \E a \in Layers(1) \cup {K!Missing, K!Unreadable},
            b \in {K!Missing, K!Unreadable},
            d \in Layers(1) \cup {K!Missing, K!Unreadable} : c = <<a, b, d>>
  BY DEF Cascades
<1>6. CASE \E a \in Layers(2), b \in Layers(1) : c = <<a, b>>
  BY <1>2, <1>3, <1>6
<1>7. CASE \E a \in Layers(1) \cup {K!Missing, K!Unreadable},
              b \in {K!Missing, K!Unreadable},
              d \in Layers(1) \cup {K!Missing, K!Unreadable} : c = <<a, b, d>>
  BY <1>1, <1>2, <1>4, <1>7
<1> QED
  BY <1>5, <1>6, <1>7

\* Of the layers of kioslaverc, the entry in effect is the one KConfig means.
THEOREM LayersStayMeant == Spec => []LayersWin
<1> DEFINE Inv == /\ topic = "layers" => given \in Cascades
                  /\ stage = "walking" => topic = "glob"
                  /\ LayersWin
<1>1. Init => Inv
  BY DEF Init, Answered, LayersWin
<1>2. Inv /\ [Next]_vars => Inv'
  <2> SUFFICES ASSUME Inv, [Next]_vars
               PROVE  Inv'
    OBVIOUS
  <2>1. topic' = topic /\ given' = given /\ (stage' = "walking" => topic' = "glob")
    BY TheQuestionStays
  <2>2. CASE UNCHANGED vars
    BY <2>1, <2>2 DEF vars, LayersWin, Answered
  <2>3. CASE stage' # "answered" \/ topic # "layers"
    BY <2>1, <2>3 DEF LayersWin, Answered
  <2>4. CASE ~UNCHANGED vars /\ stage' = "answered" /\ topic = "layers"
    <3>1. given \in LayerLists
      BY <2>4, CascadesAreLayers
    <3>2. answer' = K!KdeReading(given)
      BY <2>4, AnswersAreGiven DEF AskLayers, Answer
    <3>3. answer' = K!KdeMeans(given)
      BY <3>1, <3>2, ReadingIsMeant
    <3> QED
      BY <2>1, <2>4, <3>3 DEF LayersWin, Answered
  <2> QED
    BY <2>2, <2>3, <2>4
<1>3. Inv => LayersWin
  OBVIOUS
<1> QED
  BY <1>1, <1>2, <1>3, PTL DEF Spec
-----------------------------------------------------------------------------
(* What a script is told.                                                  *)

\* A question about a pattern is walked, or rests.
LEMMA PatternsAreWalked ==
  ASSUME [Next]_vars, topic = "glob"
  PROVE  BeginMatch \/ Match \/ UNCHANGED vars
BY TheFirstTopics, TheNextTopics, TheLastTopics DEF Next, Answers, Rest

\* A pattern is told the truth when its walk is over.
LEMMA APatternIsTold ==
  ASSUME NEW P, NEW pattern \in Seq(P), NEW Q, NEW text \in Seq(Q), NEW m,
         WalkTells(m, pattern, text)
  PROVE  PatternIsTold(pattern, text, m)
<1>1. ASSUME ~Contains(pattern, "?")
      PROVE  glob_match(pattern, text) <=> Fits(pattern, text)
  <2>1. \A i \in 1 .. Len(pattern) : pattern[i] # "?"
    BY <1>1 DEF Contains
  <2> QED
    BY <2>1, GlobIsFit
<1> QED
  BY <1>1 DEF WalkTells, PatternIsTold

\* Each question is answered in full.
LEMMA ADayIsTold ==
  ASSUME NEW day \in Int,
         NEW told, told = [day |-> civil_from_days(day), next |-> civil_from_days(day + 1),
                           era |-> civil_from_days(day + 146097),
                           weekdays |-> <<weekday(day), weekday(day + 1)>>]
  PROVE  DayIsTold(day, told)
<1>1. /\ told.day = civil_from_days(day) /\ told.next = civil_from_days(day + 1)
      /\ told.era = civil_from_days(day + 146097)
      /\ told.weekdays[1] = weekday(day) /\ told.weekdays[2] = weekday(day + 1)
  OBVIOUS
<1> QED
  BY <1>1, TheNextDayIsNext, ErasAreAlike, WeekdaysFollow, TheEpochIsDated DEF DayIsTold

\* The ranges of dates.
LEMMA TheDatesAreTold ==
  ASSUME NEW from \in Halves, NEW to \in Halves,
         NEW told, told = [d \in Halves |->
             date_range(<<<<"day", from.day>>, <<"month", from.month>>,
                          <<"day", to.day>>, <<"month", to.month>>>>, d)]
  PROVE  DatesAreTold(from, to, told)
<1>1. Halves \subseteq Days
  BY DEF Halves
<1> SUFFICES ASSUME NEW d \in Halves
             PROVE  told[d] <=> ComesBefore(from, to, d)
  BY DEF DatesAreTold
<1>2. told[d] = date_range(<<<<"day", from.day>>, <<"month", from.month>>,
                             <<"day", to.day>>, <<"month", to.month>>>>, d)
  OBVIOUS
<1> QED
  BY <1>1, <1>2, DatesGoForward

\* The ranges of times.
LEMMA TheHoursAreTold ==
  ASSUME NEW from \in Clock, NEW to \in Clock,
         NEW told, told = [c \in Clock |->
             [minutes |-> time_range(<<from.hour, from.minute, to.hour, to.minute>>, c),
              seconds |-> time_range(<<from.hour, from.minute, from.second,
                                       to.hour, to.minute, to.second>>, c)]]
  PROVE  HoursAreTold(from, to, told)
<1>1. \A c \in Clock : c \in Times
  BY DEF Clock, Times
<1> SUFFICES ASSUME NEW c \in Clock
             PROVE  /\ told[c].seconds <=> ClockReaches(from, to, c)
                    /\ told[c].minutes <=>
                          ClockReaches([from EXCEPT !.second = 0], [to EXCEPT !.second = 59], c)
  BY DEF HoursAreTold
<1>2. /\ told[c].minutes = time_range(<<from.hour, from.minute, to.hour, to.minute>>, c)
      /\ told[c].seconds = time_range(<<from.hour, from.minute, from.second,
                                        to.hour, to.minute, to.second>>, c)
  OBVIOUS
<1> QED
  BY <1>1, <1>2, HoursReach

\* The chain of a result, and that of a selection, are of the steps they name.
LEMMA ResultsAreAsked ==
  ASSUME NEW n, NEW list \in SeqOf(Candidates, n)
  PROVE  parse_find_proxy_result(list)
           = ChainAsked([i \in 1 .. Len(list) |-> parse_candidate(list[i])])
<1> DEFINE steps == [i \in 1 .. Len(list) |-> parse_candidate(list[i])]
           P == {parse_candidate(list[i]) : i \in 1 .. Len(list)}
<1>1. Len(list) \in Nat
  BY DEF SeqOf
<1>2. steps \in Seq(P)
  BY <1>1
<1> HIDE DEF P
<1>3. parse_find_proxy_result(list) = Chained(steps)
  BY DEF parse_find_proxy_result
<1> HIDE DEF steps
<1>4. Chained(steps) = ChainAsked(steps)
  BY <1>2, ChainsAreAsked
<1> QED
  BY <1>3, <1>4 DEF steps

\* The same of a selection of Android.
LEMMA SelectionsAreAsked ==
  ASSUME NEW n, NEW list \in SeqOf(Selections, n)
  PROVE  steps_from_selected(list)
           = ChainAsked([i \in 1 .. Len(list) |-> SelectedStep(list[i])])
<1> DEFINE steps == [i \in 1 .. Len(list) |-> SelectedStep(list[i])]
           P == {SelectedStep(list[i]) : i \in 1 .. Len(list)}
<1>1. Len(list) \in Nat
  BY DEF SeqOf
<1>2. steps \in Seq(P)
  BY <1>1
<1> HIDE DEF P
<1>3. steps_from_selected(list) = Chained(steps)
  BY DEF steps_from_selected
<1> HIDE DEF steps
<1>4. Chained(steps) = ChainAsked(steps)
  BY <1>2, ChainsAreAsked
<1> QED
  BY <1>3, <1>4 DEF steps

\* What a script may ask, and where the walk over a pattern is.
ScriptAsked ==
    /\ topic = "glob" => given \in GlobPatterns \X Texts
    /\ topic = "day" => given \in CalendarDays
    /\ topic = "dates" => given \in Halves \X Halves
    /\ topic = "hours" => given \in Clock \X Clock
    /\ topic = "chain" => given \in SeqOf(Candidates, 2)
    /\ topic = "selected" => given \in SeqOf(Selections, 4)

WalkIsTrue ==
    stage = "walking" => topic = "glob" /\ OnItsWay(answer, given[1], given[2])

Scripted == {"glob", "day", "dates", "hours", "chain", "selected"}

\* The patterns and the texts are sequences.
LEMMA PatternsAreSequences ==
  ASSUME NEW x \in GlobPatterns \X Texts
  PROVE  LET C == {"a", "b", "*", "?"} IN
         /\ x[1] \in Seq(C) /\ x[2] \in Seq(C)
         /\ Len(x[1]) \in Nat /\ Len(x[2]) \in Nat
<1> DEFINE C == {"a", "b", "*", "?"}
<1>1. \A n \in Nat : \A s \in SeqOf(C, n) : s \in Seq(C)
  BY DEF SeqOf
<1>2. \A n \in Nat : \A s \in SeqOf({"a", "b"}, n) \cup SeqOf({"a", "b", "*"}, n) : s \in Seq(C)
  BY DEF SeqOf
<1>3. x[1] \in SeqOf(C, 4) /\ x[2] \in SeqOf({"a", "b"}, 4) \cup SeqOf({"a", "b", "*"}, 3)
  BY DEF GlobPatterns, Texts
<1>4. x[1] \in Seq(C) /\ x[2] \in Seq(C)
  BY <1>1, <1>2, <1>3
<1> HIDE DEF C
<1>5. Len(x[1]) \in Nat /\ Len(x[2]) \in Nat
  BY <1>4
<1> QED
  BY <1>4, <1>5 DEF C

\* A step of the walk over a pattern.
LEMMA WalkGoesOn ==
  ASSUME [Next]_vars, topic = "glob", given \in GlobPatterns \X Texts, WalkIsTrue,
         ScriptsAreAnswered
  PROVE  WalkIsTrue' /\ ScriptsAreAnswered'
<1> DEFINE pattern == given[1]
           text == given[2]
           C == {"a", "b", "*", "?"}
<1>1. pattern \in Seq(C) /\ text \in Seq(C) /\ Len(pattern) \in Nat /\ Len(text) \in Nat
  BY PatternsAreSequences
<1>2. topic' = topic /\ given' = given
  BY TheQuestionStays DEF WalkIsTrue
<1>3. CASE BeginMatch
  <2>1. stage' = "walking" /\ answer' = MatchBegins(pattern, text)
    BY <1>3 DEF BeginMatch
  <2>2. OnItsWay(MatchBegins(pattern, text), pattern, text)
    BY <1>1, WalkBegins
  <2> QED
    BY <1>2, <2>1, <2>2 DEF WalkIsTrue, ScriptsAreAnswered, Answered
<1>4. CASE Match
  <2>1. /\ stage = "walking" /\ answer' = MatchTurn(answer)
        /\ stage' = IF answer'.out = "none" THEN "walking" ELSE "answered"
    BY <1>4 DEF Match
  <2>2. OnItsWay(answer, pattern, text)
    BY <2>1 DEF WalkIsTrue
  <2>3. /\ answer'.out = "none" => OnItsWay(answer', pattern, text)
        /\ WalkTells(answer', pattern, text)
    BY <1>1, <2>1, <2>2, TurnIsTrue
  <2>4. WalkIsTrue'
    BY <1>2, <2>1, <2>3 DEF WalkIsTrue
  <2>5. PatternIsTold(pattern, text, answer')
    <3> HIDE DEF pattern, text, C
    <3> QED
      BY <1>1, <2>3, APatternIsTold
  <2> QED
    BY <1>2, <2>4, <2>5 DEF ScriptsAreAnswered, Answered
<1>5. CASE UNCHANGED vars
  BY <1>5 DEF vars, WalkIsTrue, ScriptsAreAnswered, Answered
<1> QED
  BY <1>3, <1>4, <1>5, PatternsAreWalked

\* The days between two bounds are numbers, whatever the bounds are.
LEMMA DaysAreNumbers == \A first, last : DaysBetween(first, last) \subseteq Int
  BY DEF DaysBetween

\* A day a script asks of is a number.
LEMMA TheDaysAreNumbers ==
  ASSUME NEW day \in CalendarDays
  PROVE  day \in Int
  BY DaysAreNumbers, SMT DEF CalendarDays

\* A script is told the truth, of whatever it asks.
THEOREM ScriptsStayTrue == Spec => []ScriptsAreAnswered
<1> DEFINE Inv == ScriptAsked /\ WalkIsTrue /\ ScriptsAreAnswered
<1>1. Init => Inv
  BY DEF Init, ScriptAsked, WalkIsTrue, ScriptsAreAnswered, Answered
<1>2. Inv /\ [Next]_vars => Inv'
  <2> SUFFICES ASSUME Inv, [Next]_vars
               PROVE  Inv'
    OBVIOUS
  <2>1. topic' = topic /\ given' = given /\ (stage' = "walking" => topic' = "glob")
    BY TheQuestionStays DEF WalkIsTrue
  <2>2. ScriptAsked'
    BY <2>1 DEF ScriptAsked
  <2>3. CASE topic = "glob"
    BY <2>2, <2>3, WalkGoesOn DEF ScriptAsked
  <2>4. CASE topic # "glob"
    <3>1. WalkIsTrue'
      BY <2>1, <2>4 DEF WalkIsTrue
    <3>2. ScriptsAreAnswered'
      <4>1. CASE UNCHANGED vars
        BY <4>1 DEF vars, ScriptsAreAnswered, Answered
      <4>2. CASE stage' # "answered" \/ topic \notin Scripted
        BY <2>1, <4>2 DEF ScriptsAreAnswered, Answered, Scripted
      <4>3. CASE ~UNCHANGED vars /\ stage' = "answered" /\ topic \in Scripted
        <5>1. \/ topic = "day" /\ AskDay
              \/ topic = "dates" /\ AskDates
              \/ topic = "hours" /\ AskHours
              \/ topic = "chain" /\ AskChain
              \/ topic = "selected" /\ AskSelected
          BY <2>4, <4>3, AnswersAreGiven DEF Scripted, WalkIsTrue
        <5>2. CASE topic = "day" /\ AskDay
          <6>1. given \in Int
            BY <5>2, TheDaysAreNumbers DEF ScriptAsked
          <6>2. DayIsTold(given, answer')
            BY <5>2, <6>1, ADayIsTold DEF AskDay, Answer
          <6> QED
            BY <2>1, <5>2, <6>2 DEF ScriptsAreAnswered, Answered
        <5>3. CASE topic = "dates" /\ AskDates
          <6>1. given[1] \in Halves /\ given[2] \in Halves
            BY <5>3 DEF ScriptAsked
          <6>2. DatesAreTold(given[1], given[2], answer')
            BY <5>3, <6>1, TheDatesAreTold DEF AskDates, Answer
          <6> QED
            BY <2>1, <5>3, <6>2 DEF ScriptsAreAnswered, Answered
        <5>4. CASE topic = "hours" /\ AskHours
          <6>1. given[1] \in Clock /\ given[2] \in Clock
            BY <5>4 DEF ScriptAsked
          <6>2. HoursAreTold(given[1], given[2], answer')
            BY <5>4, <6>1, TheHoursAreTold DEF AskHours, Answer
          <6> QED
            BY <2>1, <5>4, <6>2 DEF ScriptsAreAnswered, Answered
        <5>5. CASE topic = "chain" /\ AskChain
          <6>1. given \in SeqOf(Candidates, 2)
            BY <5>5 DEF ScriptAsked
          <6>2. answer' = ChainAsked([i \in 1 .. Len(given) |-> parse_candidate(given[i])])
            BY <5>5, <6>1, ResultsAreAsked DEF AskChain, Answer
          <6> QED
            BY <2>1, <5>5, <6>2 DEF ScriptsAreAnswered, Answered
        <5>6. CASE topic = "selected" /\ AskSelected
          <6>1. given \in SeqOf(Selections, 4)
            BY <5>6 DEF ScriptAsked
          <6>2. answer' = ChainAsked([i \in 1 .. Len(given) |-> SelectedStep(given[i])])
            BY <5>6, <6>1, SelectionsAreAsked DEF AskSelected, Answer
          <6> QED
            BY <2>1, <5>6, <6>2 DEF ScriptsAreAnswered, Answered
        <5> QED
          BY <5>1, <5>2, <5>3, <5>4, <5>5, <5>6
      <4> QED
        BY <4>1, <4>2, <4>3
    <3> QED
      BY <2>2, <3>1, <3>2
  <2> QED
    BY <2>3, <2>4
<1>3. Inv => ScriptsAreAnswered
  OBVIOUS
<1> QED
  BY <1>1, <1>2, <1>3, PTL DEF Spec
=============================================================================
