------------------------------ MODULE Routing ------------------------------
(***************************************************************************)
(* Which engine answers for a request, if any: `route` of the bindings     *)
(* (src/bindings/shared/src/lib.rs), PacResolver (src/src/pac/dispatch.rs) *)
(* and the `resolve_config` of each system's engine.                       *)
(*                                                                         *)
(* A question is a mode and what surrounds it: `ours`, whether that mode   *)
(* is the entry of the store the engine reads again; the options of the    *)
(* caller; and what would come of each thing that may be run.              *)
(***************************************************************************)
EXTENDS Naturals

Modes == {"direct", "manual", "unusable", "pac", "inline", "wpad"}
Scripted == {"pac", "inline", "wpad"}

\* What was run by whom, and how it ended.
Ran(engine, what, end) == [engine |-> engine, what |-> what, end |-> end]
NothingRan(end) == Ran("none", "nothing", end)

HandsOver == {"fetch_required", "not_supported"}

\* The two systems with an engine for whole configurations and for bodies.
NATIVE_RUNS_URL(platform) == platform # "linux"
NATIVE_RUNS_BODY(platform) == platform = "apple"
NATIVE_RUNS_WPAD(platform) == platform \in {"windows", "apple"}

\* resolve.
resolve(q) ==
    NothingRan(CASE q.mode = "direct" -> "direct"
               [] q.mode = "manual" -> IF q.hostless THEN "direct" ELSE "proxy"
               [] q.mode = "unusable" -> IF q.hostless THEN "direct" ELSE "failed"
               [] q.mode \in Scripted -> "not_supported")

-----------------------------------------------------------------------------
(* The engines.                                                            *)

\* The guard forgotten: the store is read for any configuration.
FallbackOfAny(q) == q.beneath

\* wpad_fallback: what the store of Windows holds beneath auto-detect.
wpad_fallback(q) ==
    IF q.ours THEN q.beneath ELSE [end |-> "read", url |-> FALSE, manual |-> FALSE]

\* resolve_wpad_with_fallback: a miss is answered by the static proxy beneath.
resolve_wpad_with_fallback(q) ==
    LET beneath == wpad_fallback(q)
        what == IF beneath.url THEN "discovery_then_url" ELSE "discovery"
    IN
    IF beneath.end = "failed" THEN NothingRan("failed")
    ELSE IF q.end # "miss" THEN Ran("native", what, q.end)
    ELSE Ran("native", what, IF beneath.manual THEN "proxy" ELSE "direct")

\* resolve_config of WinHttpPacResolver.
WinHttpConfig(q, wpad) ==
    CASE q.mode \notin Scripted -> resolve(q)
      [] q.mode = "inline" -> NothingRan("not_supported")
      [] q.mode = "wpad" ->
            IF q.hostless THEN NothingRan("direct")
            ELSE IF ~wpad THEN NothingRan("not_supported")
            ELSE resolve_wpad_with_fallback(q)
      [] q.mode = "pac" ->
            IF q.hostless THEN NothingRan("direct") ELSE Ran("native", "url", q.end)

\* resolve_config of CfNetworkPacResolver.
CfNetworkConfig(q, wpad) ==
    CASE q.mode \notin Scripted -> resolve(q)
      [] q.mode \in Scripted /\ q.hostless -> NothingRan("direct")
      [] OTHER ->
            CASE q.mode = "wpad" ->
                    IF wpad /\ q.ours THEN Ran("native", "discovery", q.end)
                    ELSE NothingRan("not_supported")
              [] q.mode = "pac" -> Ran("native", "url", q.end)
              [] q.mode = "inline" -> Ran("native", "own", q.end)

\* resolve_config of AndroidPacResolver: the settings may name another script by
\* now, or the system's selector not be installed.
AndroidConfig(q) ==
    CASE q.mode \in Scripted /\ q.hostless -> NothingRan("direct")
      [] ~(q.mode \in Scripted /\ q.hostless) ->
            IF q.mode = "pac" /\ q.ours
            THEN IF q.live THEN Ran("native", "url", q.end) ELSE NothingRan("failed")
            ELSE resolve(q)

NativeConfig(q, wpad) ==
    CASE q.platform = "windows" ->
            IF q.opens THEN WinHttpConfig(q, wpad) ELSE NothingRan("failed")
      [] q.platform = "apple" -> CfNetworkConfig(q, wpad)
      [] q.platform = "android" -> AndroidConfig(q)

\* resolve_with_pac_using, with the engine that evaluates a body.
resolve_with_pac_using(q, script, engine) ==
    CASE q.mode \notin Scripted -> resolve(q)
      [] q.mode \in Scripted /\ q.hostless -> NothingRan("direct")
      [] OTHER ->
            CASE script -> Ran(engine, "handed", q.end)
              [] ~script /\ q.mode = "inline" -> Ran(engine, "own", q.end)
              [] ~script /\ q.mode = "pac" -> NothingRan("fetch_required")
              [] ~script /\ q.mode = "wpad" -> NothingRan("not_supported")

\* PacResolver::resolve_config, with a native engine attached or not.
resolve_config(q, native, wpad) ==
    IF native /\ ~q.script /\ q.mode \in {"pac", "wpad"}
    THEN NativeConfig(q, wpad)
    ELSE resolve_with_pac_using(q, q.script, "evaluator")

-----------------------------------------------------------------------------
(* route, and the options it is given.                                     *)

\* RouteOptions::new.
Refuses(q) ==
    \/ q.pac = "none" /\ q.script
    \/ q.pac \in {"none", "quickjs"} /\ q.wpad

body_engine(q) ==
    LET native == NATIVE_RUNS_BODY(q.platform) /\ q.pac \in {"native", "auto"} IN
    CASE native -> "native"
      [] ~native /\ q.quickjs /\ q.pac \in {"quickjs", "auto"} -> "quickjs"
      [] OTHER -> "none"

\* The first half: a body, handed over or of the mode.
RouteBody(q) ==
    LET engine == body_engine(q) IN
    CASE engine # "none" -> resolve_with_pac_using(q, q.script, engine)
      [] engine = "none" /\ (q.script \/ q.pac = "quickjs") -> NothingRan("failed")
      [] engine = "none" /\ ~(q.script \/ q.pac = "quickjs") -> NothingRan("caller")

\* The second: what the system is to fetch or to find.  A configuration its
\* engine does not take is the caller's.
RouteFound(q) ==
    LET runs == IF q.mode = "wpad" THEN q.wpad /\ NATIVE_RUNS_WPAD(q.platform)
                ELSE NATIVE_RUNS_URL(q.platform)
        asked == runs /\ q.pac \in {"native", "auto"}
        ran == NativeConfig(q, q.wpad)
    IN
    IF ~asked \/ ran.end \in HandsOver THEN NothingRan("caller") ELSE ran

route(q) ==
    CASE Refuses(q) -> NothingRan("failed")
      [] ~Refuses(q) /\ q.mode \notin Scripted -> resolve(q)
      [] ~Refuses(q) /\ q.mode \in Scripted ->
            IF q.hostless THEN NothingRan("direct")
            ELSE IF q.script \/ q.mode = "inline" THEN RouteBody(q)
            ELSE RouteFound(q)

-----------------------------------------------------------------------------
(* What a caller may rely on.                                              *)

\* The thing to run for the mode: what was handed over before what the mode has.
Wanted(q) ==
    CASE q.mode \notin Scripted \/ q.hostless -> "nothing"
      [] q.mode \in Scripted /\ ~q.hostless /\ q.script -> "handed"
      [] OTHER -> CASE q.mode = "inline" -> "own" [] q.mode = "pac" -> "url"
                    [] q.mode = "wpad" -> "discovery"

\* Nobody else answers in place of what ran: its failure is not a reason to go
\* direct, and its answer is not changed.  Only a discovery that found nothing is
\* answered by what lies beneath it, in the store it was read from.
EndIsTrue(q, ran) ==
    CASE ran.what = "nothing" ->
            ran.end = "direct" => (q.hostless \/ q.mode = "direct")
      [] ran.what # "nothing" /\ q.end # "miss" -> ran.end = q.end
      [] ran.what # "nothing" /\ q.end = "miss" ->
            ran.end = IF q.ours /\ q.beneath.manual THEN "proxy" ELSE "direct"

\* The store beneath is searched only for a configuration that came from it.
WhatIsTrue(q, ran) ==
    \/ ran.what \in {"nothing", Wanted(q)}
    \/ /\ Wanted(q) = "discovery" /\ ran.what = "discovery_then_url"
       /\ q.ours /\ q.beneath.url

\* An engine of this system or build that was asked for and can run what is wanted.
Able(q) ==
    LET os == q.pac \in {"native", "auto"} IN
    CASE Wanted(q) \in {"handed", "own"} ->
            \/ os /\ q.platform = "apple"
            \/ q.pac \in {"quickjs", "auto"} /\ q.quickjs
      [] Wanted(q) = "url" ->
            os /\ q.platform # "linux" /\ (q.platform = "android" => q.ours)
      [] Wanted(q) = "discovery" ->
            /\ os /\ q.wpad
            /\ q.platform \in {"windows", "apple"} /\ (q.platform = "apple" => q.ours)
      [] Wanted(q) = "nothing" -> FALSE

Questions ==
    {q \in [platform : {"windows", "apple", "android", "linux"}, quickjs : BOOLEAN,
            mode : Modes, ours : BOOLEAN, hostless : BOOLEAN,
            pac : {"none", "native", "quickjs", "auto"}, script : BOOLEAN, wpad : BOOLEAN,
            opens : BOOLEAN, live : BOOLEAN, end : {"direct", "proxy", "failed", "miss"},
            beneath : [end : {"read", "failed"}, url : BOOLEAN, manual : BOOLEAN]] :
        /\ q.end = "miss" => q.mode = "wpad" /\ q.platform = "windows" /\ ~q.script
        /\ ~q.opens => q.platform = "windows"
        /\ ~q.live => q.platform = "android"
        /\ q.beneath # [end |-> "read", url |-> FALSE, manual |-> FALSE]
               => q.platform = "windows" /\ q.mode = "wpad"
        /\ q.beneath.end = "failed" => ~q.beneath.url /\ ~q.beneath.manual}
=============================================================================
