--------------------------- MODULE AndroidStores ---------------------------
(***************************************************************************)
(* The proxy of Android's default network, a ProxyInfo                     *)
(* (src/src/sys/proxy_info.rs).                                            *)
(***************************************************************************)
EXTENDS Modes

\* A port is zero, which is the default of the scheme, good, or out of range.
ProxyInfos ==
    [known : BOOLEAN, pac_url : {"blank", "good", "bad"}, host : {"blank", "good", "bad"},
     port : {"zero", "good", "bad"}]

Reachable(info) == info.host = "good" /\ info.port # "bad"

\* mode_from_proxy_info: the one host, for http and for https.
mode_from_proxy_info(info) ==
    LET entries == [s \in Schemes |-> IF s \in {"http", "https"} /\ Reachable(info)
                                      THEN "host" ELSE "none"] IN
    IF ~info.known THEN Direct
    ELSE IF info.pac_url = "good" THEN Pac
    ELSE IF info.pac_url = "bad" THEN Fails
    ELSE IF info.host = "blank" THEN Direct
    ELSE Manual(entries, IF Reachable(info) THEN {} ELSE {"http", "https"})

\* What it asks for: a script, or the host for the schemes of the web.
AndroidAsks(info, request) ==
    CASE info.known /\ info.pac_url = "good" -> "script"
      [] info.known /\ info.pac_url = "bad" -> "fails"
      [] ~info.known \/ (info.pac_url = "blank" /\ info.host = "blank") -> "direct"
      [] info.known /\ info.pac_url = "blank" /\ info.host # "blank" ->
            IF request \notin {"http", "https", "ws"} THEN "direct"
            ELSE Asked(<<IF Reachable(info) THEN "host" ELSE "bad">>)
=============================================================================
