------------------------------- MODULE Reads -------------------------------
(***************************************************************************)
(* Which of the stores that were read is in effect: the Linux route        *)
(* (sys/linux/backend.rs, desktop.rs, sandbox.rs), the order of Windows    *)
(* (sys/win/mod.rs) and of macOS (sys/proxy_dict.rs), and the environment  *)
(* folded into either (src/src/config.rs).                                 *)
(*                                                                         *)
(* A store says: absent (not installed, not there), unset (there, and      *)
(* nobody wrote to it), direct or proxied (the two modes a configured one  *)
(* can have as far as precedence can tell), or failed.                     *)
(***************************************************************************)
EXTENDS Sequences, SequencesExt

Failed == [failed |-> TRUE, effective |-> "none", sources |-> <<>>, fallbacks |-> {}]

\* from_ordered_sources and with_fallbacks: the first source is in effect, and
\* without one the mode is Direct.
Config(sources, fallbacks) ==
    [failed |-> FALSE, fallbacks |-> fallbacks, sources |-> sources,
     effective |-> IF sources = <<>> THEN "direct" ELSE Head(sources).mode]

Source(name, mode) == [name |-> name, mode |-> mode]
IsConfigured(reading) == reading \in {"direct", "proxied"}

\* The source a reading contributes: none, unless it is configured.
Contributed(name, reading) ==
    IF IsConfigured(reading) THEN <<Source(name, reading)>> ELSE <<>>

-----------------------------------------------------------------------------
(* Linux.                                                                  *)

Stores == {"gsettings", "kioslaverc"}
Readings == {"absent", "unset", "direct", "proxied", "failed"}
Other(store) == CHOOSE s \in Stores : s # store

\* classify: the tokens of XDG_CURRENT_DESKTOP; {} is unset or blank.
classify(tokens) ==
    IF "kde" \in tokens THEN "kde" ELSE IF "gnome" \in tokens THEN "gnome" ELSE "unknown"

\* A session's environment.
Sessions ==
    [tokens : SUBSET {"kde", "gnome", "other"}, session : {"kde", "gnome", "unknown"},
     gnome_id : BOOLEAN, kde_full : BOOLEAN]

\* The other variables are asked only where XDG_CURRENT_DESKTOP says nothing.
classify_with_fallback(env) ==
    IF env.tokens # {} THEN classify(env.tokens)
    ELSE IF env.session # "unknown" THEN env.session
    ELSE IF env.gnome_id THEN "gnome"
    ELSE IF env.kde_full THEN "kde" ELSE "unknown"

Leading(desktop) == IF desktop = "kde" THEN "kioslaverc" ELSE "gsettings"

\* sandbox_from_flatpak_read: a /.flatpak-info nobody can read is a Flatpak.
Hosts == [flatpak : {"absent", "unreadable", "dconf", "closed"},
          snap : {"none", "classic", "confined"}]

detect(host) ==
    CASE host.flatpak = "dconf" -> "trusted"
      [] host.flatpak \in {"closed", "unreadable"} -> "closed"
      [] host.flatpak = "absent" -> IF host.snap = "confined" THEN "closed" ELSE "none"

\* route: the stores to read, none of them where the portal is asked instead.
route(sandbox, desktop) ==
    CASE sandbox = "none" -> Stores
      [] sandbox = "trusted" /\ desktop # "kde" -> {"gsettings"}
      [] OTHER -> {}

\* configured_mode: a Direct nobody wrote is the default of the schema.
Schemata ==
    [installed : BOOLEAN, written : BOOLEAN, mode : {"direct", "proxied", "failed"}]

GnomeReading(schema) ==
    IF ~schema.installed THEN "absent"
    ELSE IF schema.mode = "direct" /\ ~schema.written THEN "unset" ELSE schema.mode

\* read_store_fail_soft that softens whatever the leading store said.
SoftenedAlways(reading, leading) == IF reading = "failed" THEN "absent" ELSE reading

\* read_store_fail_soft, of the store that does not lead.
Softened(reading, leading) ==
    IF reading = "failed" /\ IsConfigured(leading) THEN "absent" ELSE reading

\* desktop_config: read_in_order, note_if_the_leading_store_was_compiled_out and
\* assemble.  A store that is not compiled in, or not on the route, is absent.
DesktopConfig(desktop, read, says) ==
    LET lead == Leading(desktop)
        rest == Other(lead)
        word(s) == IF s \in read THEN says[s] ELSE "absent"
        trailing == Softened(word(rest), word(lead))
        missed == {s \in {rest} : word(s) = "failed" /\ trailing = "absent"}
                      \cup {s \in {lead} : s \notin read /\ trailing # "absent"}
    IN
    IF "failed" \in {word(lead), trailing} \/ {word(lead), trailing} = {"absent"}
    THEN Failed
    ELSE Config(Contributed(lead, word(lead)) \o Contributed(rest, trailing), missed)

LinuxInputs ==
    [env : Sessions, host : Hosts, compiled : SUBSET Stores, schema : Schemata,
     kioslaverc : Readings, portal : {"direct", "proxied", "failed"}]

\* read_config_in.  Without linux-gnome there is no portal client either.
LinuxConfig(given) ==
    LET desktop == classify_with_fallback(given.env)
        stores == route(detect(given.host), desktop)
        says == [s \in Stores |-> IF s = "gsettings" THEN GnomeReading(given.schema)
                                  ELSE given.kioslaverc]
    IN
    IF stores # {} THEN DesktopConfig(desktop, stores \cap given.compiled, says)
    ELSE IF given.portal = "failed" \/ "gsettings" \notin given.compiled THEN Failed
    ELSE Config(<<Source("portal", given.portal)>>, {})

\* What must be in effect, said apart from the code.  The store of the session's
\* desktop decides if anyone wrote to it.  If not, the other one does; but a
\* store that could have decided and could not be read is not passed over.
LinuxAsks(given) ==
    LET kde == \/ "kde" \in given.env.tokens
               \/ /\ given.env.tokens = {}
                  /\ \/ given.env.session = "kde"
                     \/ given.env.session = "unknown" /\ ~given.env.gnome_id
                            /\ given.env.kde_full
        boxed == given.host.flatpak # "absent" \/ given.host.snap = "confined"
        gsettings ==
            IF "gsettings" \notin given.compiled \/ ~given.schema.installed THEN "absent"
            ELSE IF given.schema.mode = "direct" /\ ~given.schema.written THEN "unset"
            ELSE given.schema.mode
        kioslaverc ==
            IF boxed \/ "kioslaverc" \notin given.compiled THEN "absent"
            ELSE given.kioslaverc
        order == IF kde THEN <<kioslaverc, gsettings>> ELSE <<gsettings, kioslaverc>>
    IN
    IF boxed /\ (kde \/ given.host.flatpak # "dconf")
    THEN IF "gsettings" \in given.compiled THEN given.portal ELSE "failed"
    ELSE CASE order[1] \in {"direct", "proxied"} -> order[1]
           [] order[1] = "failed" -> "failed"
           [] order = <<"absent", "absent">> -> "failed"
           [] order[1] \in {"unset", "absent"} /\ order[2] = "unset" -> "direct"
           [] order[1] = "unset" /\ order[2] = "absent" -> "direct"
           [] order[1] \in {"unset", "absent"} /\ order[2] \in {"direct", "proxied", "failed"}
                -> order[2]

\* The stores whose word the answer lacks: one that failed, or the desktop's own
\* if this build cannot read it.
LinuxLacks(given) ==
    LET boxed == given.host.flatpak # "absent" \/ given.host.snap = "confined"
        desktop == classify_with_fallback(given.env) IN
    IF boxed THEN {}
    ELSE {s \in given.compiled : \/ s = "kioslaverc" /\ given.kioslaverc = "failed"
                                 \/ s = "gsettings" /\ given.schema.installed
                                                    /\ given.schema.mode = "failed"}
            \cup {s \in Stores \ given.compiled : (s = "kioslaverc") <=> (desktop = "kde")}

-----------------------------------------------------------------------------
(* Windows: the user's settings, the group policy and the machine default. *)

WindowsInputs ==
    [ie : {"direct", "proxied", "bad", "notfound", "failed"},
     hkcu : {"nokey", "undecided", "direct", "proxied", "failed"},
     policy : {"unwatched", "nokey", "undecided", "direct", "proxied", "failed"},
     machine : {"notfound", "direct", "proxied", "failed"}]

\* read_user_mode: the call, and the plain values where it fails.  A decided
\* lack of settings is Direct.
ReadUserMode(given) ==
    CASE given.ie \in {"direct", "proxied"} -> given.ie
      [] given.ie = "bad" -> "failed"
      [] given.ie \in {"notfound", "failed"} ->
            IF given.hkcu \in {"nokey", "undecided"} THEN "direct" ELSE given.hkcu

\* read_config, group_policy_source, winhttp_default_source, in_precedence_order.
WindowsConfig(given) ==
    LET user == ReadUserMode(given)
        missed == {s \in {"registry"} : given.ie = "failed"}
                      \cup {s \in {"policy"} : given.policy = "failed"}
                      \cup {s \in {"machine"} : given.machine = "failed"}
    IN
    IF user = "failed" THEN Failed
    ELSE Config(Contributed("registry", user) \o Contributed("policy", given.policy)
                    \o Contributed("machine", given.machine), missed)

\* The user's settings are in effect and nothing else is; they may only be lost
\* to an error.
WindowsAsks(given) ==
    IF given.ie \in {"direct", "proxied"} THEN given.ie
    ELSE IF given.ie = "bad" \/ given.hkcu = "failed" THEN "failed"
    ELSE IF given.hkcu = "proxied" THEN "proxied" ELSE "direct"

WindowsLacks(given) ==
    {s \in {"registry", "policy", "machine"} :
        "failed" = CASE s = "registry" -> given.ie
                     [] s = "policy" -> given.policy
                     [] s = "machine" -> given.machine}

-----------------------------------------------------------------------------
(* macOS: the dictionary in effect, State:, and the one on disk, Setup:.   *)

AppleInputs ==
    [state : {"absent", "direct", "proxied"},
     setup : {"absent", "direct", "proxied", "failed"}]

\* merge_setup_and_state.
AppleConfig(given) ==
    IF given.setup = "failed" /\ given.state = "absent" THEN Failed
    ELSE Config(Contributed("state", given.state) \o Contributed("setup", given.setup),
                {s \in {"setup"} : given.setup = "failed"})

AppleAsks(given) ==
    IF given.state # "absent" THEN given.state
    ELSE IF given.setup = "absent" THEN "direct" ELSE given.setup

AppleLacks(given) == {s \in {"setup"} : given.setup = "failed"}

-----------------------------------------------------------------------------
(* The environment, folded in by ProxyConfig::with_env.                    *)

\* Set, only dropped values and their records, or nothing.
Environments == {"unset", "set", "records"}
EnvPrecedence == {"before", "after"}

\* with_env: below the system, it answers where the system has no source.
with_env(config, env, precedence) ==
    LET wins == /\ env = "set"
                /\ \/ precedence = "before"
                   \/ /\ config.effective = "direct"
                      /\ \A i \in 1 .. Len(config.sources) :
                             config.sources[i].name = "env"
        mode == Source("env", IF env = "set" THEN "proxied" ELSE "direct")
    IN
    IF config.failed \/ env = "unset" THEN config
    ELSE IF wins
    THEN [config EXCEPT !.effective = mode.mode, !.sources = <<mode>> \o @]
    ELSE [config EXCEPT !.sources = Append(@, mode)]
=============================================================================
