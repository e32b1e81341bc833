---------------------------- MODULE LevelStream ----------------------------
(***************************************************************************)
(* What a subscriber of `ProxyWatcher` is promised, without the queue, the *)
(* waker or the lock that deliver it: a level-triggered stream.  `state`   *)
(* is what the backend last published, `seen` the newest state the         *)
(* subscriber was handed.  What is handed out is always the state of that  *)
(* instant, a health transition goes one way, and the stream ends only     *)
(* after the subscriber was told that the backend stopped.                 *)
(***************************************************************************)
CONSTANTS
    Configs,        \* the proxy configurations a read can return
    Sources,        \* the stores whose notification route can degrade
    Nothing         \* no state: not published yet, or not delivered yet

Health == [degraded : SUBSET Sources, live : BOOLEAN, stopped : BOOLEAN]
WatchState == [config : Configs, health : Health]

VARIABLES
    state,          \* what the constructor and then the backend published
    seen,           \* the newest state delivered, or Nothing
    ended           \* the stream has answered `None`

streamVars == <<state, seen, ended>>

\* Sources degrade, routes die, threads stop; none of it is ever taken back.
Worsens(h, k) ==
    /\ h.degraded \subseteq k.degraded
    /\ k.live => h.live
    /\ h.stopped => k.stopped

Init ==
    /\ state = Nothing
    /\ seen = Nothing
    /\ ended = FALSE

\* The constructor hands the watcher out.
Establish ==
    /\ state = Nothing
    /\ state' \in WatchState
    /\ UNCHANGED <<seen, ended>>

\* The backend publishes a configuration, a degradation, or its own end.
Publish ==
    /\ state # Nothing
    /\ ~state.health.stopped
    /\ state' \in WatchState
    /\ Worsens(state.health, state'.health)
    /\ UNCHANGED <<seen, ended>>

\* An item carries the state of the instant it is handed out.
Deliver ==
    /\ state # Nothing
    /\ seen' = state
    /\ UNCHANGED <<state, ended>>

\* `None` comes only once the subscriber knows that the backend stopped.
End ==
    /\ seen = state
    /\ state # Nothing
    /\ state.health.stopped
    /\ ended' = TRUE
    /\ UNCHANGED <<state, seen>>

Next == Establish \/ Publish \/ Deliver \/ End

\* A subscriber is not left for ever with a state that is no longer current.
CatchesUp == WF_streamVars(Deliver /\ seen # state)

Spec == Init /\ [][Next]_streamVars /\ CatchesUp
=============================================================================
