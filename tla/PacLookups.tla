----------------------------- MODULE PacLookups -----------------------------
(***************************************************************************)
(* What leaves the crate for a PAC script and what comes back: the URL it  *)
(* is handed (sanitize_url, src/src/pac/mod.rs) and the names it asks for  *)
(* (src/src/pac/hostfn.rs), in the process or from a worker.               *)
(*                                                                         *)
(* A URL is its scheme, whether a host is named in it, emptied or absent,  *)
(* and which of its parts are there.  Hosts and addresses are a few texts. *)
(***************************************************************************)
EXTENDS Naturals, Sequences, SequencesExt

Special == {"http", "https", "ws", "wss"}
Parts == {"user", "password", "path", "query", "fragment"}

\* URLs that Url::parse gives, or that are left when their host was taken out.
Urls ==
    {u \in [scheme : Special \cup {"socks5", "data", "file"},
            host : {"named", "emptied", "absent"}, parts : SUBSET Parts] :
        /\ u.scheme \in Special => u.host = "named"
        /\ u.scheme = "data" <=> u.host = "absent"
        /\ (u.host = "absent" \/ u.scheme = "file") => u.parts \cap {"user", "password"} = {}}

\* set_username and set_password, which refuse a URL without a host.
Refuses(u) == u.host # "named" \/ u.scheme = "file"
WithoutUser(u) ==
    IF Refuses(u) THEN u ELSE [u EXCEPT !.parts = @ \ {"user", "password"}]

\* Without a loan the setters refuse, and what they were to take out stays.
NotLent(u) == WithoutUser(u)

\* The loan: such a URL with an authority is given a host for as long as it takes.
Lent(u) ==
    LET lent == WithoutUser([u EXCEPT !.host = "named"]) IN
    IF Refuses(u) /\ u.host # "absent" /\ u.scheme # "file"
    THEN [lent EXCEPT !.host = u.host] ELSE WithoutUser(u)

sanitize_url(u) ==
    [Lent(u) EXCEPT !.parts =
        @ \ (IF u.scheme \in {"https", "wss"} THEN {"path", "query", "fragment"}
             ELSE {"fragment"})]

\* query_url: WinHTTP reads no WebSocket scheme.
query_url(u) ==
    [sanitize_url(u) EXCEPT
        !.scheme = CASE @ = "ws" -> "http" [] @ = "wss" -> "https" [] OTHER -> @]

Engines == {"quickjs", "worker", "winhttp", "cfnetwork", "android"}
Handed(engine, u) == IF engine = "winhttp" THEN query_url(u) ELSE sanitize_url(u)

-----------------------------------------------------------------------------
\* Texts a script may ask about, of which one is empty, and what each grammar
\* makes of them.
Texts == {"10.1.2.3", "010.1.2.3", "10.1", "::1", "[::1]", "[10.1.2.3]", "name", "empty"}

unbracket_ipv6(text) == IF text = "[::1]" THEN "::1" ELSE text

literal_ipv4(text) ==
    CASE text = "10.1.2.3" -> "10.1.2.3"
      [] text = "010.1.2.3" -> "8.1.2.3"
      [] text = "10.1" -> "10.0.0.1"
      [] OTHER -> "null"

reference_ipv4(text) ==
    IF text \in {"10.1.2.3", "010.1.2.3"} THEN "10.1.2.3" ELSE "null"

Addresses == {"1.2.3.4", "10.1.2.3", "::ffff:1.2.3.4", "::ffff:10.1.2.3", "2001::1"}
to_ipv4(address) ==
    CASE address \in {"1.2.3.4", "::ffff:1.2.3.4"} -> "1.2.3.4"
      [] address \in {"10.1.2.3", "::ffff:10.1.2.3"} -> "10.1.2.3"
      [] address = "2001::1" -> "null"

is_internal(v4) == v4 = "10.1.2.3"

\* An answer, and whether the system's resolver was asked for it.
Known(address) == [address |-> address, asked |-> FALSE]

\* resolve_ipv4 under one policy.
ResolveUnder(policy, text, system) ==
    LET found == IF text = "name" THEN system ELSE <<>>
        first == SelectInSeq(found, LAMBDA a :
                     to_ipv4(a) # "null" /\ (policy.internal \/ ~is_internal(to_ipv4(a))))
    IN
    IF ~policy.dns \/ text = "empty" THEN Known("null")
    ELSE [address |-> IF first = 0 THEN "null" ELSE to_ipv4(found[first]), asked |-> TRUE]

\* resolve_ipv4: a worker's question is the parent's to answer, under its policy.
resolve_ipv4(q, text) ==
    ResolveUnder(IF q.worker THEN q.parent ELSE q.policy, text, q.system)

dns_resolve(q) ==
    LET text == unbracket_ipv6(q.text) IN
    CASE literal_ipv4(text) # "null" -> Known(literal_ipv4(text))
      [] text = "::1" -> Known("null")
      [] literal_ipv4(text) = "null" /\ text # "::1" -> resolve_ipv4(q, text)

is_resolvable(q) ==
    unbracket_ipv6(q.text) = "::1" \/ dns_resolve(q).address # "null"

\* is_in_net, of the block 10.0.0.0 under 255.0.0.0 or of what is none.
is_in_net(q, pattern) ==
    LET address == IF reference_ipv4(q.text) # "null" THEN Known(reference_ipv4(q.text))
                   ELSE dns_resolve(q)
    IN
    IF pattern = "none" THEN [is |-> FALSE, asked |-> FALSE]
    ELSE [is |-> address.address \in {"10.1.2.3", "10.0.0.1"}, asked |-> address.asked]

Policies == [dns : BOOLEAN, internal : BOOLEAN]
Lookups ==
    [text : Texts, policy : Policies, parent : Policies, worker : BOOLEAN,
     system : SeqOf(Addresses, 3)]

\* Whose policy governs, and what it lets the script see of a name.
Governing(q) == IF q.worker THEN q.parent ELSE q.policy
Visible(q) ==
    {i \in DOMAIN q.system :
        to_ipv4(q.system[i]) # "null"
            /\ (Governing(q).internal \/ to_ipv4(q.system[i]) # "10.1.2.3")}
=============================================================================
