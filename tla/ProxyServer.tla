---------------------------- MODULE ProxyServer -----------------------------
(***************************************************************************)
(* The HTTP proxy: the accept loop with its connection limit, the life of  *)
(* a connection (identification, request, rule evaluation, resolution,     *)
(* TLS server name, relay) and the shutdown with its two deadlines.        *)
(*                                                                         *)
(* A response is not modelled beyond the fact that the connection ends     *)
(* with it.  Header and TLS parsing yield either something usable or an    *)
(* error; the values that the rules see are kept.                          *)
(***************************************************************************)
EXTENDS RulePolicy

CONSTANTS Conns,           \* client connections
          Clients,         \* containers that connect
          Sites,           \* canonical host names
          MaxConnections,  \* MAX_CONNECTIONS
          NoName,          \* a ClientHello without a server name
          BadName          \* one whose server name cannot be used

VARIABLES proxy,   \* "down", "up", "draining" or "stopped"
          loop,    \* the accept loop: "off", "accept", "refuse" or "drain"
          signal,  \* shutdown() has sent its signal and waits
          slow,    \* the loop refused a connection after that signal
          active,  \* active_connections
          conn,    \* the connections
          cut      \* history: the accept task was aborted

proxyVars == <<proxy, loop, signal, slow, active, conn, cut>>

Targets == {"public", "private"}
Restricted(a) == a = "private"

\* `names` are the host names the upstream is told, in the Host header or in
\* the ClientHello.  `during` is history: the rule sets in force since the
\* request was judged first.
NoConn == [at |-> "none", agent |-> "", method |-> "", host |-> "", names |-> {},
           private |-> FALSE, snapshot |-> <<>>, addrs |-> {}, during |-> {}]

\* A connection holds a permit from its acceptance until its task is gone, and
\* is counted from its acceptance until the task ends.
Holding == {c \in Conns : conn[c].at # "none"}
Counted == {c \in Holding : conn[c].at # "leave"}

ProxyInit ==
    /\ proxy = "down"
    /\ loop = "off"
    /\ signal = FALSE
    /\ slow = FALSE
    /\ active = 0
    /\ conn = [c \in Conns |-> NoConn]
    /\ cut = FALSE

\* ProxyServer::start, which the daemon calls once.  It fails, and changes
\* nothing, when the address is taken.
ProxyStart ==
    /\ proxy = "down"
    /\ proxy' = "up"
    /\ loop' = "accept"
    /\ UNCHANGED <<signal, slow, active, conn, cut>>

-----------------------------------------------------------------------------
(* The accept loop. *)

Free == Cardinality(Holding) < MaxConnections

\* With a permit at hand the connection is counted and gets a task.
Accept(c, a) ==
    /\ loop = "accept"
    /\ conn[c].at = "none"
    /\ Free
    /\ active' = active + 1
    /\ conn' = [conn EXCEPT ![c].at = "identify", ![c].agent = a]
    /\ UNCHANGED <<proxy, loop, signal, slow, cut>>

\* Without one the loop itself writes the 503 response, for up to a second; it
\* neither accepts nor sees a shutdown meanwhile.
Refuse ==
    /\ loop = "accept"
    /\ ~Free
    /\ loop' = "refuse"
    /\ UNCHANGED <<proxy, signal, slow, active, conn, cut>>

Refused ==
    /\ loop = "refuse"
    /\ loop' = "accept"
    /\ slow' = signal
    /\ UNCHANGED <<proxy, signal, active, conn, cut>>

-----------------------------------------------------------------------------
(* A connection. *)

Leave(c) == conn' = [conn EXCEPT ![c] = [NoConn EXCEPT !.at = "leave"]]
Become(c, where) == conn' = [conn EXCEPT ![c].at = where]

\* The response was written or the peers are gone: the task takes itself out
\* of the count, and then gives its permit back.
Uncount(c) ==
    /\ active' = active - 1
    /\ Leave(c)

ReleasePermit(c) ==
    /\ conn[c].at = "leave"
    /\ conn' = [conn EXCEPT ![c] = NoConn]
    /\ UNCHANGED <<proxy, loop, signal, slow, active, cut>>

\* resolve_agent_name: a peer that is no managed container, or whose lookup
\* fails, gets a 403.
IdentifyPeer(c, managed) ==
    /\ conn[c].at = "identify"
    /\ IF managed THEN Become(c, "headers") /\ UNCHANGED active ELSE Uncount(c)

\* What a client can send: a method and a target, Host headers (none, one or
\* several), a body, bytes beyond the declared body, and a port.
Requests ==
    [method : {"connect", "http", "health"}, target : Sites \cup {BadName},
     hosts : UNION {[1..n -> Sites] : n \in 0..2}, trailing : BOOLEAN,
     body : {"none", "fits", "large", "framed"}, port : {"web", "blocked"}]

\* parse_connect_target and parse_absolute_http_uri: the authority in lower
\* case and without trailing dots, or an error.
TargetUsable(r) == r.target # BadName

\* require_matching_host: exactly one Host header, naming the target.
HostMatches(r) == r.hosts = <<r.target>>

\* request_body_length: no transfer coding, no second or malformed length, and
\* not above the limit, which is zero for CONNECT.
BodyUsable(r) ==
    /\ r.body \in IF r.method = "connect" THEN {"none"} ELSE {"none", "fits"}
    /\ ~r.trailing

\* connect::handle refuses the ports of well-known services that are not HTTPS.
PortUsable(r) == r.method = "connect" => r.port # "blocked"

\* The requests that get as far as the rules.
Judged ==
    {r \in Requests : /\ r.method # "health"
                      /\ TargetUsable(r)
                      /\ HostMatches(r)
                      /\ BodyUsable(r)
                      /\ PortUsable(r)}

\* handle_connection, when the headers are late or too large or the client is
\* gone.
HeadersLost(c) ==
    /\ conn[c].at = "headers"
    /\ Uncount(c)

\* parse_request finds no complete HTTP/1 request in the headers.
Malformed(c) ==
    /\ conn[c].at = "headers"
    /\ Uncount(c)

\* A health check is answered, and any other request that the rules do not see
\* gets an error.
NotJudged(c) ==
    /\ conn[c].at = "headers"
    /\ Requests # Judged
    /\ Uncount(c)

RequestContext(c, method, site) ==
    [via |-> method, host |-> site, agent |-> conn[c].agent]

\* connect::handle evaluates the target against the rule set of this moment,
\* and keeps that rule set.
JudgeConnect(c, r) ==
    LET verdict == EvaluateWithEgress(rule_set, RequestContext(c, "connect", r.target)) IN
    /\ conn[c].at = "headers"
    /\ r.method = "connect"
    /\ IF verdict.allow
       THEN /\ conn' = [conn EXCEPT ![c] =
                  [@ EXCEPT !.at = "resolve", !.method = "connect", !.host = r.target,
                            !.private = verdict.egress.private,
                            !.snapshot = rule_set, !.during = {rule_set}]]
            /\ UNCHANGED active
       ELSE Uncount(c)

\* forward::handle evaluates the request once.
JudgeForward(c, r) ==
    LET verdict == EvaluateWithEgress(rule_set, RequestContext(c, "http", r.target)) IN
    /\ conn[c].at = "headers"
    /\ r.method = "http"
    /\ IF verdict.allow
       THEN /\ conn' = [conn EXCEPT ![c] =
                  [@ EXCEPT !.at = "reach", !.method = "http", !.host = r.target,
                            !.private = verdict.egress.private,
                            !.names = Range(r.hosts), !.during = {rule_set}]]
            /\ UNCHANGED active
       ELSE Uncount(c)

\* resolve_upstream: restricted addresses are discarded unless the rule allows
\* them, and nothing left is an error.
Resolved(candidates, private) ==
    {a \in candidates : private \/ ~Restricted(a)}

ResolveConnect(c, candidates) ==
    LET addrs == Resolved(candidates, conn[c].private) IN
    /\ conn[c].at = "resolve"
    /\ IF addrs = {} THEN Uncount(c)
       ELSE /\ conn' = [conn EXCEPT ![c].at = "hello", ![c].addrs = addrs]
            /\ UNCHANGED active

\* read_client_hello_record: one TLS handshake record of a bounded size, in
\* time.
Hellos == [whole : BOOLEAN, sni : Sites \cup {NoName, BadName}]
RecordUsable(h) == h.whole

\* extract_sni: the server name, in lower case and without trailing dots; a
\* malformed extension or name is an error.
SniUsable(h) == h.sni # BadName

\* Mutant: the server name is judged by the rules of the moment.
HelloByCurrentRules(c, h) ==
    LET site == IF h.sni = NoName THEN conn[c].host ELSE h.sni
        verdict == EvaluateSnapshot(rule_set, RequestContext(c, "connect", site))
    IN
    /\ conn[c].at = "hello"
    /\ IF RecordUsable(h) /\ SniUsable(h) /\ (site = conn[c].host \/ verdict.allow)
       THEN /\ conn' = [conn EXCEPT ![c].at = "dial", ![c].names = {site},
                                    ![c].snapshot = <<>>]
            /\ UNCHANGED active
       ELSE Uncount(c)

\* The 200 response is sent and the ClientHello read.  A server name other
\* than the target is judged by the rule set the target was judged by.
ClientHello(c, h) ==
    LET site == IF h.sni = NoName THEN conn[c].host ELSE h.sni
        verdict == EvaluateSnapshot(conn[c].snapshot, RequestContext(c, "connect", site))
    IN
    /\ conn[c].at = "hello"
    /\ IF RecordUsable(h) /\ SniUsable(h) /\ (site = conn[c].host \/ verdict.allow)
       THEN /\ conn' = [conn EXCEPT ![c].at = "dial", ![c].names = {site},
                                    ![c].snapshot = <<>>]
            /\ UNCHANGED active
       ELSE Uncount(c)

\* connect_upstream: one of the addresses accepts, or all fail.
Dial(c, a) ==
    /\ conn[c].at = "dial"
    /\ a \in conn[c].addrs
    /\ conn' = [conn EXCEPT ![c].at = "relay", ![c].addrs = {a}]
    /\ UNCHANGED active

DialFails(c) ==
    /\ conn[c].at = "dial"
    /\ Uncount(c)

\* upstream::connect for a plain HTTP request: resolution and connection.
Reach(c, candidates) ==
    LET addrs == Resolved(candidates, conn[c].private) IN
    /\ conn[c].at = "reach"
    /\ IF addrs = {} THEN Uncount(c)
       ELSE \E a \in addrs : /\ conn' = [conn EXCEPT ![c].at = "relay", ![c].addrs = {a}]
                             /\ UNCHANGED active

\* relay_with_idle_timeout: both directions are finished, one fails, or
\* neither moved for the idle timeout.
TunnelEnds(c) ==
    /\ conn[c].at = "relay"
    /\ conn[c].method = "connect"
    /\ Uncount(c)

\* The request is forwarded without its hop-by-hop headers, and the response
\* copied back until it ends, fails or is idle.
ExchangeEnds(c) ==
    /\ conn[c].at = "relay"
    /\ conn[c].method = "http"
    /\ Uncount(c)

Task(c) ==
    /\ \/ \E managed \in BOOLEAN : IdentifyPeer(c, managed)
       \/ HeadersLost(c)
       \/ Malformed(c)
       \/ NotJudged(c)
       \/ \E r \in Judged : JudgeConnect(c, r) \/ JudgeForward(c, r)
       \/ \E candidates \in SUBSET Targets :
             ResolveConnect(c, candidates) \/ Reach(c, candidates)
       \/ \E h \in Hellos : ClientHello(c, h)
       \/ \E a \in Targets : Dial(c, a)
       \/ DialFails(c)
       \/ TunnelEnds(c)
       \/ ExchangeEnds(c)
    /\ UNCHANGED <<proxy, loop, signal, slow, cut>>

-----------------------------------------------------------------------------
(* Shutdown. *)

\* ProxyServer::shutdown sends the signal and waits for the accept task.
ProxyShutdown ==
    /\ proxy = "up"
    /\ ~signal
    /\ signal' = TRUE
    /\ UNCHANGED <<proxy, loop, slow, active, conn, cut>>

\* The loop sees the signal and drops the listener.
SeeShutdown ==
    /\ loop = "accept"
    /\ signal
    /\ loop' = "drain"
    /\ proxy' = "draining"
    /\ UNCHANGED <<signal, slow, active, conn, cut>>

Stopped(aborted) ==
    /\ proxy' = "stopped"
    /\ loop' = "off"
    /\ signal' = FALSE
    /\ slow' = FALSE
    /\ conn' = [c \in Conns |-> NoConn]
    /\ cut' = aborted

\* All connections ended within the grace period, or it is over and the rest
\* is aborted; the count is reset.
Drained ==
    /\ loop = "drain"
    /\ active' = 0
    /\ Stopped(FALSE)

\* Mutant: only the grace period is bounded, not the wait for the loop.
DeadlineInDrain ==
    /\ loop = "drain"
    /\ slow
    /\ Stopped(TRUE)
    /\ UNCHANGED active

\* shutdown() waits a second longer than the grace period.  A loop that was
\* late to see the signal, because it was refusing a connection, can exceed
\* that: the accept task is aborted, its connections with it.
Deadline ==
    /\ signal
    /\ slow
    /\ Stopped(TRUE)
    /\ UNCHANGED active
=============================================================================
