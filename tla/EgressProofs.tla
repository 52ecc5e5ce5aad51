---------------------------- MODULE EgressProofs ----------------------------
(***************************************************************************)
(* Proofs about the egress path, for any rule files, containers, names,    *)
(* answers, connections and bounds: how long an answer of the DNS filter   *)
(* may be kept, which grants it makes, which connections the proxy relays  *)
(* and how many it holds, whatever reloads happen in between.              *)
(***************************************************************************)
EXTENDS Egress, FiniteSetTheorems, TLAPS

-----------------------------------------------------------------------------
(* The inductive invariants.                                               *)

QueryFields == DOMAIN NoQuery
ConnFields == DOMAIN NoConn

\* What the rules say of the request of a connection record, for one of its
\* host names.
Verdict(x, rules, site) ==
    EvaluateWithEgress(rules, [via |-> x.method, host |-> site, agent |-> x.agent])

\* One rule set allows the target and the names.
AllowedBy(x, rules) ==
    /\ Verdict(x, rules, x.host).allow
    /\ \A n \in x.names :
          EvaluateSnapshot(rules, [via |-> x.method, host |-> n, agent |-> x.agent]).allow

\* A connection on its way: before the ClientHello its snapshot allowed the
\* target and gave the egress settings; from then on a rule set of its history
\* allows all it has committed itself to.
Policed(x) ==
    /\ x.at \in {"resolve", "hello"} =>
          /\ x.method = "connect"
          /\ x.snapshot \in x.during
          /\ Verdict(x, x.snapshot, x.host).allow
          /\ x.private = Verdict(x, x.snapshot, x.host).egress.private
    /\ x.at = "hello" => \A a \in x.addrs : Restricted(a) => x.private
    /\ x.at = "reach" =>
          \E rules \in x.during :
              /\ AllowedBy(x, rules)
              /\ x.private = Verdict(x, rules, x.host).egress.private
    /\ x.at \in {"dial", "relay"} =>
          \E rules \in x.during :
              /\ AllowedBy(x, rules)
              /\ \A a \in x.addrs :
                    Restricted(a) => Verdict(x, rules, x.host).egress.private

TunnelInv ==
    /\ DOMAIN conn = Conns
    /\ \A c \in Conns : DOMAIN conn[c] = ConnFields /\ Policed(conn[c])

\* The accept loop, the life of the server and the count.
CountInv ==
    /\ proxy \in {"down", "up", "draining", "stopped"}
    /\ loop \in {"off", "accept", "refuse", "drain"}
    /\ {signal, slow, cut} \subseteq BOOLEAN
    /\ active \in Nat
    /\ loop \in {"accept", "refuse"} => proxy = "up"
    /\ loop = "drain" => proxy = "draining"
    /\ proxy \in {"down", "stopped"} => Holding = {}
    /\ proxy # "stopped" => active = Cardinality(Counted)
    /\ Cardinality(Holding) <= MaxConnections
    /\ proxy = "stopped" /\ ~cut => active = 0

\* A cached answer is never kept longer than any of its records may be.
EntryOK(e) ==
    /\ e \in Entries
    /\ \A r \in e.records : e.ttl <= r.upttl

CacheInv ==
    /\ DOMAIN entries \subseteq Hosts
    /\ \A h \in DOMAIN entries : EntryOK(entries[h])

\* The answer of a query is fresh.
Fresh(x) ==
    \A r \in x.records : r.ttl > 0 => 2 * r.ttl < 2 * r.upttl - x.age + 2 + x.held

QueryTyped(x) ==
    /\ DOMAIN x = QueryFields
    /\ x.at \in {"idle", "identify", "evaluate", "cache", "read", "lookup", "store",
                 "enforce", "grant"}
    /\ x.at # "idle" => x.host \in Hosts
    /\ x.records \subseteq Records
    /\ x.todo \subseteq Addresses
    /\ x.age \in Nat /\ x.held \in Nat
    /\ x.at \in {"idle", "identify", "evaluate", "cache", "read", "lookup"} =>
          x.age = 0 /\ x.held = 0

\* What a query has of the upstream's TTLs.
QueryFresh(x) ==
    /\ x.at = "store" =>
          /\ x.age = x.held
          /\ \A r \in x.records : r.ttl = r.upttl
          /\ x.records # {} => \E r \in x.records : \A s \in x.records : r.ttl <= s.ttl
    /\ x.at \in {"enforce", "grant"} => Fresh(x)

\* What a query that holds the lease has of the rules in force.
QueryJudged(x, rules) ==
    LET verdict == EvaluateWithEgress(rules,
                      [via |-> "dns", host |-> x.host, agent |-> x.agent])
    IN  /\ x.at \in Leased => verdict.allow /\ verdict.egress = x.egress
        /\ x.at = "grant" =>
              \A a \in x.todo : /\ x.egress.mode = "direct"
                                /\ IsRestricted(a) => x.egress.private

QueryOK(x, rules) == QueryTyped(x) /\ QueryFresh(x) /\ QueryJudged(x, rules)

QueryInv ==
    /\ dns \in {"down", "up", "stopping", "stopped"}
    /\ DOMAIN query = Queries
    /\ \A q \in Queries : QueryOK(query[q], rule_set)

\* While DnsCache::get holds the mutex its entry stays, and no one else holds it.
ReadInv ==
    \A q \in Queries : query[q].at = "read" =>
        /\ query[q].host \in DOMAIN entries
        /\ \A p \in Queries : query[p].at = "read" => p = q

PolicyTyped == disk \in Dirs /\ prepared_files \subseteq Dirs

\* The state of the DNS filter, and of the whole.
FilterInv == QueryInv /\ CacheInv /\ ReadInv /\ GrantsAllowed
EgressInv == PolicyTyped /\ TunnelInv /\ CountInv /\ FilterInv

-----------------------------------------------------------------------------
(* Connections: every tunnel is policed.                                   *)

\* A connection that the rules have not seen yet, or that is over, is policed.
LEMMA UnjudgedPoliced ==
    ASSUME NEW y, y.at \in {"none", "identify", "headers", "leave"}
    PROVE  Policed(y)
BY Zenon DEF Policed

\* A step that gives one connection a policed record keeps every tunnel policed.
LEMMA OneConnection ==
    ASSUME TunnelInv, NEW c \in Conns, NEW y, conn' = [conn EXCEPT ![c] = y],
           DOMAIN y = ConnFields, Policed(y)
    PROVE  TunnelInv'
<1>1. DOMAIN conn' = Conns
  BY Zenon DEF TunnelInv
<1>2. ASSUME NEW d \in Conns PROVE DOMAIN conn'[d] = ConnFields /\ Policed(conn'[d])
  <2>1. CASE d = c
    BY <2>1, Zenon DEF TunnelInv
  <2>2. CASE d # c
    BY <2>2, Zenon DEF TunnelInv
  <2> QED BY <2>1, <2>2, Zenon
<1> QED BY <1>1, <1>2, Zenon DEF TunnelInv

\* A task that ends leaves a record the rules have not seen.
LEMMA UncountPolices ==
    ASSUME TunnelInv, NEW c \in Conns, Uncount(c)
    PROVE  TunnelInv'
<1>1. PICK y : y = [NoConn EXCEPT !.at = "leave"]
  BY Zenon
<1>2. DOMAIN y = ConnFields /\ y.at = "leave"
  BY <1>1, Zenon DEF ConnFields, NoConn
<1>3. Policed(y)
  <2>1. y.at \in {"none", "identify", "headers", "leave"}
    BY <1>2, Zenon
  <2> QED BY <2>1, UnjudgedPoliced
<1> QED BY <1>1, <1>2, <1>3, OneConnection, Zenon DEF Uncount, Leave

\* The fields of a connection record.
LEMMA Fields ==
    /\ ConnFields = {"at", "agent", "method", "host", "names", "private", "snapshot",
                     "addrs", "during"}
    /\ QueryFields = {"at", "host", "agent", "egress", "records", "todo", "age", "held"}
BY DEF ConnFields, NoConn, QueryFields, NoQuery

\* connect::handle keeps the rule set by which it allowed the target.
LEMMA JudgeConnectPolices ==
    ASSUME TunnelInv, NEW c \in Conns, NEW r \in Judged, JudgeConnect(c, r)
    PROVE  TunnelInv'
<1> DEFINE verdict == EvaluateWithEgress(rule_set, RequestContext(c, "connect", r.target))
<1>1. CASE ~verdict.allow
  BY <1>1, UncountPolices, Zenon DEF JudgeConnect
<1>2. CASE verdict.allow
  <2>1. PICK x : x = conn[c]
    BY Zenon
  <2>2. PICK y : y = [x EXCEPT !.at = "resolve", !.method = "connect", !.host = r.target,
                               !.private = verdict.egress.private,
                               !.snapshot = rule_set, !.during = {rule_set}]
    BY Zenon
  <2>3. conn' = [conn EXCEPT ![c] = y]
    BY <1>2, <2>1, <2>2, Zenon DEF JudgeConnect
  <2>4. DOMAIN x = ConnFields
    BY <2>1, Zenon DEF TunnelInv
  <2>5. /\ DOMAIN y = ConnFields
        /\ y.at = "resolve" /\ y.method = "connect" /\ y.host = r.target
        /\ y.private = verdict.egress.private /\ y.snapshot = rule_set
        /\ y.during = {rule_set} /\ y.agent = x.agent
    BY <2>2, <2>4, Fields
  <2>6. Verdict(y, rule_set, y.host) = verdict
    BY <2>1, <2>5, Zenon DEF Verdict, RequestContext
  <2>7. Policed(y)
    <3>1. y.snapshot \in y.during
      BY <2>5, Zenon
    <3> QED BY <3>1, <1>2, <2>5, <2>6, Zenon DEF Policed
  <2> QED BY <2>3, <2>5, <2>7, OneConnection, Zenon
<1> QED BY <1>1, <1>2, Zenon

\* evaluate_snapshot_with_egress allows what evaluate_snapshot allows.
LEMMA SameVerdict ==
    ASSUME NEW rules, NEW ctx
    PROVE  EvaluateWithEgress(rules, ctx).allow = EvaluateSnapshot(rules, ctx).allow
BY Zenon DEF EvaluateWithEgress

\* A name that is the target is allowed with the target.
LEMMA TargetIsAllowed ==
    ASSUME NEW x, NEW rules, Verdict(x, rules, x.host).allow,
           \A n \in x.names : n = x.host
    PROVE  AllowedBy(x, rules)
<1>1. ASSUME NEW n \in x.names
      PROVE EvaluateSnapshot(rules, [via |-> x.method, host |-> n, agent |-> x.agent]).allow
  BY <1>1, SameVerdict, Zenon DEF Verdict
<1> QED BY <1>1, Zenon DEF AllowedBy

\* forward::handle: the one Host header is the target's.
LEMMA JudgeForwardPolices ==
    ASSUME TunnelInv, NEW c \in Conns, NEW r \in Judged, JudgeForward(c, r)
    PROVE  TunnelInv'
<1> DEFINE verdict == EvaluateWithEgress(rule_set, RequestContext(c, "http", r.target))
<1>1. CASE ~verdict.allow
  BY <1>1, UncountPolices, Zenon DEF JudgeForward
<1>2. CASE verdict.allow
  <2>1. PICK x : x = conn[c]
    BY Zenon
  <2>2. PICK y : y = [x EXCEPT !.at = "reach", !.method = "http", !.host = r.target,
                               !.private = verdict.egress.private,
                               !.names = Range(r.hosts), !.during = {rule_set}]
    BY Zenon
  <2>3. conn' = [conn EXCEPT ![c] = y]
    BY <1>2, <2>1, <2>2, Zenon DEF JudgeForward
  <2>4. DOMAIN x = ConnFields
    BY <2>1, Zenon DEF TunnelInv
  <2>5. /\ DOMAIN y = ConnFields
        /\ y.at = "reach" /\ y.method = "http" /\ y.host = r.target
        /\ y.private = verdict.egress.private /\ y.names = Range(r.hosts)
        /\ y.during = {rule_set} /\ y.agent = x.agent
    BY <2>2, <2>4, Fields
  <2>6. Verdict(y, rule_set, y.host) = verdict
    BY <2>1, <2>5, Zenon DEF Verdict, RequestContext
  <2>7. \A n \in y.names : n = y.host
    <3>1. r.hosts = <<r.target>>
      BY Zenon DEF Judged, HostMatches
    <3>2. \A n \in Range(<<r.target>>) : n = r.target
      BY DEF Range
    <3> QED BY <2>5, <3>1, <3>2, Zenon
  <2>8. AllowedBy(y, rule_set)
    BY <1>2, <2>6, <2>7, TargetIsAllowed, Zenon
  <2>9. Policed(y)
    BY <2>5, <2>6, <2>8, Zenon DEF Policed
  <2> QED BY <2>3, <2>5, <2>9, OneConnection, Zenon
<1> QED BY <1>1, <1>2, Zenon

\* resolve_upstream keeps a restricted address only where the rule allows it.
LEMMA ResolvePolices ==
    ASSUME TunnelInv, NEW c \in Conns, NEW candidates, ResolveConnect(c, candidates)
    PROVE  TunnelInv'
<1> DEFINE addrs == Resolved(candidates, conn[c].private)
<1>1. CASE addrs = {}
  BY <1>1, UncountPolices, Zenon DEF ResolveConnect
<1>2. CASE addrs # {}
  <2>1. PICK x : x = conn[c]
    BY Zenon
  <2>2. PICK y : y = [x EXCEPT !.at = "hello", !.addrs = addrs]
    BY Zenon
  <2>4. DOMAIN x = ConnFields /\ Policed(x) /\ x.at = "resolve"
    BY <2>1, Zenon DEF TunnelInv, ResolveConnect
  <2>3. conn' = [conn EXCEPT ![c] = y]
    BY Zenon, <1>2, <2>1, <2>2 DEF ResolveConnect, TunnelInv
  <2>5. /\ DOMAIN y = ConnFields
        /\ y.at = "hello" /\ y.addrs = addrs /\ y.host = x.host /\ y.agent = x.agent
        /\ y.method = x.method /\ y.private = x.private
        /\ y.snapshot = x.snapshot /\ y.during = x.during
    BY <2>2, <2>4, Fields
  <2>6. Verdict(y, y.snapshot, y.host) = Verdict(x, x.snapshot, x.host)
    BY <2>5, Zenon DEF Verdict
  <2>7. \A a \in y.addrs : Restricted(a) => y.private
    BY <2>1, <2>5, Zenon DEF Resolved
  <2>8. Policed(y)
    BY <2>4, <2>5, <2>6, <2>7, Zenon DEF Policed
  <2> QED BY <2>3, <2>5, <2>8, OneConnection, Zenon
<1> QED BY <1>1, <1>2, Zenon

\* A server name other than the target is allowed by the rule set that allowed
\* the target, and by the settings that chose the addresses.
LEMMA ClientHelloPolices ==
    ASSUME TunnelInv, NEW c \in Conns, NEW h \in Hellos, ClientHello(c, h)
    PROVE  TunnelInv'
<1>1. PICK x : x = conn[c]
  BY Zenon
<1>2. PICK site : site = IF h.sni = NoName THEN x.host ELSE h.sni
  BY Zenon
<1> DEFINE verdict == EvaluateSnapshot(x.snapshot,
                         [via |-> "connect", host |-> site, agent |-> x.agent])
           passes == RecordUsable(h) /\ SniUsable(h) /\ (site = x.host \/ verdict.allow)
<1>3. IF passes THEN /\ conn' = [conn EXCEPT ![c].at = "dial", ![c].names = {site},
                                             ![c].snapshot = <<>>]
                     /\ UNCHANGED active
      ELSE Uncount(c)
  BY <1>1, <1>2, Zenon DEF ClientHello, RequestContext
<1>4. CASE ~passes
  BY <1>3, <1>4, UncountPolices, Zenon
<1>5. CASE passes
  <2>1. PICK y : y = [x EXCEPT !.at = "dial", !.names = {site}, !.snapshot = <<>>]
    BY Zenon
  <2>2. DOMAIN x = ConnFields /\ Policed(x) /\ x.at = "hello"
    BY <1>1, Zenon DEF TunnelInv, ClientHello
  <2>3. conn' = [conn EXCEPT ![c] = y]
    BY <1>1, <1>3, <1>5, <2>1, Zenon DEF TunnelInv
  <2>4. /\ DOMAIN y = ConnFields
        /\ y.at = "dial" /\ y.names = {site} /\ y.host = x.host /\ y.agent = x.agent
        /\ y.method = x.method /\ y.addrs = x.addrs /\ y.during = x.during
    BY <2>1, <2>2, Fields
  <2>5. x.method = "connect" /\ x.snapshot \in x.during
        /\ Verdict(x, x.snapshot, x.host).allow
        /\ x.private = Verdict(x, x.snapshot, x.host).egress.private
        /\ \A a \in x.addrs : Restricted(a) => x.private
    BY <2>2, Zenon DEF Policed
  <2>6. Verdict(y, x.snapshot, y.host) = Verdict(x, x.snapshot, x.host)
    BY <2>4, Zenon DEF Verdict
  <2>7. EvaluateSnapshot(x.snapshot,
            [via |-> x.method, host |-> site, agent |-> x.agent]).allow
    <3>1. CASE verdict.allow
      BY <3>1, <2>5, Zenon
    <3>2. CASE site = x.host
      BY <3>2, <2>5, SameVerdict, Zenon DEF Verdict
    <3> QED BY <1>5, <3>1, <3>2, Zenon
  <2>8. AllowedBy(y, x.snapshot)
    BY <2>4, <2>5, <2>6, <2>7, Zenon DEF AllowedBy
  <2>9. Policed(y)
    BY <2>4, <2>5, <2>6, <2>8, Zenon DEF Policed
  <2> QED BY <2>3, <2>4, <2>9, OneConnection, Zenon
<1> QED BY <1>4, <1>5, Zenon

\* connect_upstream goes to one of the addresses.
LEMMA DialPolices ==
    ASSUME TunnelInv, NEW c \in Conns, NEW a, Dial(c, a)
    PROVE  TunnelInv'
<1>1. PICK x : x = conn[c]
  BY Zenon
<1>2. PICK y : y = [x EXCEPT !.at = "relay", !.addrs = {a}]
  BY Zenon
<1>3. DOMAIN x = ConnFields /\ Policed(x) /\ x.at = "dial" /\ a \in x.addrs
  BY <1>1, Zenon DEF TunnelInv, Dial
<1>4. conn' = [conn EXCEPT ![c] = y]
  BY <1>1, <1>2, Zenon DEF Dial, TunnelInv
<1>5. /\ DOMAIN y = ConnFields
      /\ y.at = "relay" /\ y.addrs = {a} /\ y.host = x.host /\ y.agent = x.agent
      /\ y.method = x.method /\ y.names = x.names /\ y.during = x.during
  BY <1>2, <1>3, Fields
<1>6. PICK rules \in x.during :
          /\ AllowedBy(x, rules)
          /\ \A b \in x.addrs : Restricted(b) => Verdict(x, rules, x.host).egress.private
  BY <1>3, Zenon DEF Policed
<1>7. Verdict(y, rules, y.host) = Verdict(x, rules, x.host)
  BY <1>5, Zenon DEF Verdict
<1>8. AllowedBy(y, rules)
  BY <1>5, <1>6, <1>7, Zenon DEF AllowedBy
<1>9. Policed(y)
  BY <1>3, <1>5, <1>6, <1>7, <1>8, Zenon DEF Policed
<1> QED BY <1>4, <1>5, <1>9, OneConnection, Zenon

\* upstream::connect goes to an address the rule allows.
LEMMA ReachPolices ==
    ASSUME TunnelInv, NEW c \in Conns, NEW candidates, Reach(c, candidates)
    PROVE  TunnelInv'
<1> DEFINE addrs == Resolved(candidates, conn[c].private)
<1>1. CASE addrs = {}
  BY <1>1, UncountPolices, Zenon DEF Reach
<1>2. CASE addrs # {}
  <2>1. PICK x : x = conn[c]
    BY Zenon
  <2>2. PICK a \in addrs : conn' = [conn EXCEPT ![c].at = "relay", ![c].addrs = {a}]
    BY <1>2, Zenon DEF Reach
  <2>3. PICK y : y = [x EXCEPT !.at = "relay", !.addrs = {a}]
    BY Zenon
  <2>4. DOMAIN x = ConnFields /\ Policed(x) /\ x.at = "reach"
    BY <2>1, Zenon DEF TunnelInv, Reach
  <2>5. conn' = [conn EXCEPT ![c] = y]
    BY <2>1, <2>2, <2>3, Zenon DEF TunnelInv
  <2>6. /\ DOMAIN y = ConnFields
        /\ y.at = "relay" /\ y.addrs = {a} /\ y.host = x.host /\ y.agent = x.agent
        /\ y.method = x.method /\ y.names = x.names /\ y.during = x.during
    BY <2>3, <2>4, Fields
  <2>7. PICK rules \in x.during :
            /\ AllowedBy(x, rules)
            /\ x.private = Verdict(x, rules, x.host).egress.private
    BY <2>4, Zenon DEF Policed
  <2>8. Verdict(y, rules, y.host) = Verdict(x, rules, x.host)
    BY <2>6, Zenon DEF Verdict
  <2>9. AllowedBy(y, rules)
    BY <2>6, <2>7, <2>8, Zenon DEF AllowedBy
  <2>10. \A b \in y.addrs : Restricted(b) => Verdict(y, rules, y.host).egress.private
    BY <2>1, <2>2, <2>6, <2>7, <2>8, Zenon DEF Resolved
  <2>11. Policed(y)
    BY <2>6, <2>7, <2>9, <2>10, Zenon DEF Policed
  <2> QED BY <2>5, <2>6, <2>11, OneConnection, Zenon
<1> QED BY <1>1, <1>2, Zenon

\* A longer history polices what a shorter one does.
LEMMA HistoryGrows ==
    ASSUME NEW x, NEW y, Policed(x),
           y.at = x.at, y.agent = x.agent, y.method = x.method, y.host = x.host,
           y.names = x.names, y.private = x.private, y.snapshot = x.snapshot,
           y.addrs = x.addrs, x.during \subseteq y.during
    PROVE  Policed(y)
<1>1. \A r : Verdict(y, r, y.host) = Verdict(x, r, x.host)
  BY Zenon DEF Verdict
<1>2. \A r : AllowedBy(x, r) => AllowedBy(y, r)
  BY <1>1, Zenon DEF AllowedBy
<1>3. CASE x.at \in {"resolve", "hello"}
  BY <1>1, <1>3, Zenon DEF Policed
<1>4. CASE x.at = "reach"
  BY <1>1, <1>2, <1>4, Zenon DEF Policed
<1>5. CASE x.at \in {"dial", "relay"}
  BY <1>1, <1>2, <1>5, Zenon DEF Policed
<1>6. CASE x.at \notin {"resolve", "hello", "reach", "dial", "relay"}
  BY <1>6, Zenon DEF Policed
<1> QED BY <1>3, <1>4, <1>5, <1>6, Zenon

\* A reload adds its rule set to the history of what is being judged.
LEMMA ReloadPolices ==
    ASSUME TunnelInv, ReloadPolicy
    PROVE  TunnelInv'
<1>1. PICK rules : rules = rule_set'
  BY Zenon
<1>2. conn' = [c \in Conns |-> [conn[c] EXCEPT !.during =
                   IF conn[c].at \in {"resolve", "hello"} THEN @ \cup {rules} ELSE @]]
  BY <1>1, Zenon DEF ReloadPolicy
<1>3. ASSUME NEW c \in Conns PROVE DOMAIN conn'[c] = ConnFields /\ Policed(conn'[c])
  <2>1. PICK x : x = conn[c]
    BY Zenon
  <2>2. DOMAIN x = ConnFields /\ Policed(x)
    BY <2>1, Zenon DEF TunnelInv
  <2>3. PICK y : y = [x EXCEPT !.during =
                         IF x.at \in {"resolve", "hello"} THEN x.during \cup {rules}
                         ELSE x.during]
    BY Zenon
  <2>4. conn'[c] = y
    BY <1>2, <2>1, <2>3, Zenon
  <2>5. /\ DOMAIN y = ConnFields
        /\ y.at = x.at /\ y.agent = x.agent /\ y.method = x.method /\ y.host = x.host
        /\ y.names = x.names /\ y.private = x.private /\ y.snapshot = x.snapshot
        /\ y.addrs = x.addrs
    BY <2>2, <2>3, Fields
  <2>6. x.during \subseteq y.during
    BY <2>2, <2>3, Fields
  <2> QED BY <2>2, <2>4, <2>5, <2>6, HistoryGrows, Zenon
<1>4. DOMAIN conn' = Conns
  BY <1>2, Zenon
<1> QED BY <1>3, <1>4, Zenon DEF TunnelInv

\* A task's step keeps every tunnel policed.
LEMMA TaskPolices ==
    ASSUME TunnelInv, NEW c \in Conns, Task(c)
    PROVE  TunnelInv'
<1>1. ASSUME NEW managed \in BOOLEAN, IdentifyPeer(c, managed) PROVE TunnelInv'
  <2>1. CASE ~managed
    BY <1>1, <2>1, UncountPolices, Zenon DEF IdentifyPeer
  <2>2. CASE managed
    <3>1. PICK y : y = [conn[c] EXCEPT !.at = "headers"]
      BY Zenon
    <3>4. DOMAIN conn[c] = ConnFields
      BY Zenon DEF TunnelInv
    <3>5. DOMAIN y = ConnFields /\ y.at = "headers"
      BY <3>1, <3>4, Fields
    <3>6. conn' = [conn EXCEPT ![c] = y]
      BY <1>1, <2>2, <3>1, Zenon DEF IdentifyPeer, Become, TunnelInv
    <3>2. y.at \in {"none", "identify", "headers", "leave"}
      BY <3>5, Zenon
    <3>3. Policed(y)
      BY <3>2, UnjudgedPoliced
    <3> QED BY <3>3, <3>5, <3>6, OneConnection, Zenon
  <2> QED BY <2>1, <2>2, Zenon
<1>2. ASSUME HeadersLost(c) \/ Malformed(c) \/ NotJudged(c) \/ DialFails(c)
             \/ TunnelEnds(c) \/ ExchangeEnds(c)
      PROVE  TunnelInv'
  BY <1>2, UncountPolices, Zenon
     DEF HeadersLost, Malformed, NotJudged, DialFails, TunnelEnds, ExchangeEnds
<1>3. ASSUME NEW r \in Judged, JudgeConnect(c, r) \/ JudgeForward(c, r) PROVE TunnelInv'
  BY <1>3, JudgeConnectPolices, JudgeForwardPolices, Zenon
<1>4. ASSUME NEW s \in SUBSET Targets, ResolveConnect(c, s) \/ Reach(c, s) PROVE TunnelInv'
  BY <1>4, ResolvePolices, ReachPolices, Zenon
<1>5. ASSUME NEW h \in Hellos, ClientHello(c, h) PROVE TunnelInv'
  BY <1>5, ClientHelloPolices, Zenon
<1>6. ASSUME NEW a \in Targets, Dial(c, a) PROVE TunnelInv'
  BY <1>6, DialPolices, Zenon
<1> QED BY <1>1, <1>2, <1>3, <1>4, <1>5, <1>6, Zenon DEF Task

\* A step of the accept loop, of a task or of the shutdown keeps every tunnel
\* policed.
LEMMA ProxyPolices ==
    ASSUME TunnelInv, ProxyNext \/ RefusalOver \/ StopStep
    PROVE  TunnelInv'
<1>1. CASE UNCHANGED conn
  BY <1>1, Zenon DEF TunnelInv
<1>2. ASSUME NEW c \in Conns, NEW a \in Clients, Accept(c, a) PROVE TunnelInv'
  <2>1. PICK y : y = [conn[c] EXCEPT !.at = "identify", !.agent = a]
    BY Zenon
  <2>2. DOMAIN conn[c] = ConnFields
    BY Zenon DEF TunnelInv
  <2>3. DOMAIN y = ConnFields /\ y.at = "identify"
    BY <2>1, <2>2, Fields
  <2>4. conn' = [conn EXCEPT ![c] = y]
    BY <1>2, <2>1, Zenon DEF Accept, TunnelInv
  <2>5. Policed(y)
    <3>1. y.at \in {"none", "identify", "headers", "leave"}
      BY <2>3, Zenon
    <3> QED BY <3>1, UnjudgedPoliced
  <2> QED BY <2>3, <2>4, <2>5, OneConnection, Zenon
<1>3. DOMAIN NoConn = ConnFields /\ Policed(NoConn)
  <2>1. NoConn.at \in {"none", "identify", "headers", "leave"}
    BY Zenon DEF NoConn
  <2> QED BY <2>1, UnjudgedPoliced DEF ConnFields
<1>4. ASSUME NEW c \in Conns, ReleasePermit(c) PROVE TunnelInv'
  BY <1>3, <1>4, OneConnection, Zenon DEF ReleasePermit
<1>5. ASSUME NEW aborted, Stopped(aborted) PROVE TunnelInv'
  BY <1>3, <1>5, Zenon DEF Stopped, TunnelInv
<1>6. ASSUME NEW c \in Conns, Task(c) PROVE TunnelInv'
  BY <1>6, TaskPolices, Zenon
<1>7. CASE ProxyNext
  BY <1>1, <1>2, <1>4, <1>6, <1>7, Zenon DEF ProxyNext, ProxyStart, Refuse, ProxyShutdown
<1>8. CASE RefusalOver
  BY <1>1, <1>8, Zenon DEF RefusalOver, Refused
<1>9. CASE StopStep
  BY <1>1, <1>5, <1>9, Zenon DEF StopStep, SeeShutdown, Drained, Deadline
<1> QED BY <1>7, <1>8, <1>9, Zenon

-----------------------------------------------------------------------------
(* The accept loop: the count of active connections is exact.              *)

\* The sets of connections are finite.
LEMMA FiniteConnections ==
    /\ IsFiniteSet(Holding) /\ Cardinality(Holding) \in Nat
    /\ IsFiniteSet(Counted) /\ Cardinality(Counted) \in Nat
<1>1. Holding \subseteq Conns /\ Counted \subseteq Conns
  BY Zenon DEF Holding, Counted
<1>2. IsFiniteSet(Conns)
  BY Zenon, EgressAssumption
<1>3. IsFiniteSet(Holding) /\ IsFiniteSet(Counted)
  BY <1>1, <1>2, FS_Subset, Zenon
<1> QED BY <1>3, FS_CardinalityType, Zenon

\* What a step of one connection does to the two sets.
LEMMA OneMoves ==
    ASSUME NEW c \in Conns, \A d \in Conns : d # c => conn'[d].at = conn[d].at
    PROVE  /\ conn'[c].at # "none" => Holding' = Holding \cup {c}
           /\ conn'[c].at = "none" => Holding' = Holding \ {c}
           /\ conn'[c].at \notin {"none", "leave"} => Counted' = Counted \cup {c}
           /\ conn'[c].at \in {"none", "leave"} => Counted' = Counted \ {c}
<1>1. conn'[c].at # "none" => Holding' = Holding \cup {c}
  BY Zenon DEF Holding
<1>2. conn'[c].at = "none" => Holding' = Holding \ {c}
  BY Zenon DEF Holding
<1>3. conn'[c].at \notin {"none", "leave"} => Counted' = Counted \cup {c}
  BY Zenon DEF Holding, Counted
<1>4. conn'[c].at \in {"none", "leave"} => Counted' = Counted \ {c}
  BY Zenon DEF Holding, Counted
<1> QED BY <1>1, <1>2, <1>3, <1>4, Zenon

\* A task that ends takes itself out of the count, and keeps its permit.
LEMMA UncountMoves ==
    ASSUME TunnelInv, NEW c \in Conns, Uncount(c)
    PROVE  /\ active' = active - 1
           /\ conn'[c].at = "leave"
           /\ \A d \in Conns : d # c => conn'[d].at = conn[d].at
<1>1. DOMAIN conn = Conns
  BY Zenon DEF TunnelInv
<1>2. [NoConn EXCEPT !.at = "leave"].at = "leave"
  BY DEF NoConn
<1> QED BY <1>1, <1>2, Zenon DEF Uncount, Leave

\* Any other step of a task keeps it counted.
StillCounted(c) ==
    /\ active' = active
    /\ conn'[c].at \notin {"none", "leave"}
    /\ \A d \in Conns : d # c => conn'[d].at = conn[d].at

\* A step of a task is one of a counted connection, and either ends it or
\* keeps it counted.
LEMMA TaskMoves ==
    ASSUME TunnelInv, NEW c \in Conns, Task(c)
    PROVE  /\ conn[c].at \notin {"none", "leave"}
           /\ Uncount(c) \/ StillCounted(c)
           /\ UNCHANGED <<proxy, loop, signal, slow, cut>>
<1>1. DOMAIN conn = Conns /\ DOMAIN conn[c] = ConnFields /\ "at" \in ConnFields
  BY Fields, Zenon DEF TunnelInv
<1>2. ASSUME NEW managed \in BOOLEAN, IdentifyPeer(c, managed)
      PROVE  conn[c].at \notin {"none", "leave"} /\ (Uncount(c) \/ StillCounted(c))
  BY <1>1, <1>2, Zenon DEF IdentifyPeer, Become, StillCounted
<1>3. ASSUME HeadersLost(c) \/ Malformed(c) \/ NotJudged(c) \/ DialFails(c)
             \/ TunnelEnds(c) \/ ExchangeEnds(c)
      PROVE  conn[c].at \notin {"none", "leave"} /\ Uncount(c)
  BY <1>3, Zenon
     DEF HeadersLost, Malformed, NotJudged, DialFails, TunnelEnds, ExchangeEnds
<1>4. ASSUME NEW r \in Judged, JudgeConnect(c, r)
      PROVE  conn[c].at \notin {"none", "leave"} /\ (Uncount(c) \/ StillCounted(c))
  <2> DEFINE verdict == EvaluateWithEgress(rule_set, RequestContext(c, "connect", r.target))
  <2>1. conn[c].at = "headers" /\ (~verdict.allow => Uncount(c))
    BY <1>4, Zenon DEF JudgeConnect
  <2>2. CASE verdict.allow
    <3>1. PICK y : y = [conn[c] EXCEPT !.at = "resolve", !.method = "connect",
                          !.host = r.target, !.private = verdict.egress.private,
                          !.snapshot = rule_set, !.during = {rule_set}]
      BY Zenon
    <3>2. conn' = [conn EXCEPT ![c] = y] /\ UNCHANGED active
      BY <1>4, <2>2, <3>1, Zenon DEF JudgeConnect
    <3>3. y.at = "resolve"
      BY <1>1, <3>1, Fields
    <3> QED BY <1>1, <2>1, <3>2, <3>3, Zenon DEF StillCounted
  <2> QED BY <2>1, <2>2, Zenon
<1>5. ASSUME NEW r \in Judged, JudgeForward(c, r)
      PROVE  conn[c].at \notin {"none", "leave"} /\ (Uncount(c) \/ StillCounted(c))
  <2> DEFINE verdict == EvaluateWithEgress(rule_set, RequestContext(c, "http", r.target))
  <2>1. conn[c].at = "headers" /\ (~verdict.allow => Uncount(c))
    BY <1>5, Zenon DEF JudgeForward
  <2>2. CASE verdict.allow
    <3>1. PICK y : y = [conn[c] EXCEPT !.at = "reach", !.method = "http",
                          !.host = r.target, !.private = verdict.egress.private,
                          !.names = Range(r.hosts), !.during = {rule_set}]
      BY Zenon
    <3>2. conn' = [conn EXCEPT ![c] = y] /\ UNCHANGED active
      BY <1>5, <2>2, <3>1, Zenon DEF JudgeForward
    <3>3. y.at = "reach"
      BY <1>1, <3>1, Fields
    <3> QED BY <1>1, <2>1, <3>2, <3>3, Zenon DEF StillCounted
  <2> QED BY <2>1, <2>2, Zenon
<1>6. ASSUME NEW s \in SUBSET Targets, ResolveConnect(c, s)
      PROVE  conn[c].at \notin {"none", "leave"} /\ (Uncount(c) \/ StillCounted(c))
  BY <1>1, <1>6, Fields DEF ResolveConnect, StillCounted
<1>7. ASSUME NEW s \in SUBSET Targets, Reach(c, s)
      PROVE  conn[c].at \notin {"none", "leave"} /\ (Uncount(c) \/ StillCounted(c))
  BY <1>1, <1>7, Fields DEF Reach, StillCounted
<1>8. ASSUME NEW h \in Hellos, ClientHello(c, h)
      PROVE  conn[c].at \notin {"none", "leave"} /\ (Uncount(c) \/ StillCounted(c))
  BY <1>1, <1>8, Fields DEF ClientHello, StillCounted
<1>9. ASSUME NEW a \in Targets, Dial(c, a)
      PROVE  conn[c].at \notin {"none", "leave"} /\ StillCounted(c)
  BY <1>1, <1>9, Fields DEF Dial, StillCounted
<1> QED BY <1>2, <1>3, <1>4, <1>5, <1>6, <1>7, <1>8, <1>9, Zenon DEF Task

\* Accept takes a free permit and counts the connection.
LEMMA AcceptCounts ==
    ASSUME TunnelInv, CountInv, NEW c \in Conns, NEW a, Accept(c, a)
    PROVE  CountInv'
<1>1. DOMAIN conn = Conns /\ DOMAIN conn[c] = ConnFields
  BY Zenon DEF TunnelInv
<1>2. conn'[c].at = "identify" /\ \A d \in Conns : d # c => conn'[d].at = conn[d].at
  BY <1>1, Fields DEF Accept
<1>3. Holding' = Holding \cup {c} /\ Counted' = Counted \cup {c}
  BY <1>2, OneMoves
<1>4. c \notin Holding /\ c \notin Counted
  BY Zenon DEF Accept, Holding, Counted
<1>5. /\ Cardinality(Holding') = Cardinality(Holding) + 1
      /\ Cardinality(Counted') = Cardinality(Counted) + 1
  BY Zenon, <1>3, <1>4, FiniteConnections, FS_AddElement
<1>6. Cardinality(Holding)' <= MaxConnections
  BY <1>5, FiniteConnections, EgressAssumption DEF Accept, Free
<1>7. proxy = "up" /\ active = Cardinality(Counted)
  BY Zenon DEF Accept, CountInv
<1>8. active' = Cardinality(Counted)' /\ active' \in Nat
  BY <1>5, <1>7, FiniteConnections DEF Accept
<1> QED BY <1>6, <1>7, <1>8 DEF CountInv, Accept

\* A task's step: it stays counted, or leaves the count before its permit.
LEMMA TaskCounts ==
    ASSUME TunnelInv, CountInv, NEW c \in Conns, Task(c)
    PROVE  CountInv'
<1>1. conn[c].at \notin {"none", "leave"} /\ UNCHANGED <<proxy, loop, signal, slow, cut>>
  BY TaskMoves, Zenon
<1>2. c \in Holding /\ c \in Counted
  BY <1>1, Zenon DEF Holding, Counted
<1>3. proxy \notin {"down", "stopped"} /\ active = Cardinality(Counted)
  BY <1>2, Zenon DEF CountInv
<1>4. CASE StillCounted(c)
  <2>1. Holding' = Holding \cup {c} /\ Counted' = Counted \cup {c}
    BY <1>4, OneMoves DEF StillCounted
  <2>2. Holding' = Holding /\ Counted' = Counted /\ active' = active
    BY <1>2, <1>4, <2>1, Zenon DEF StillCounted
  <2> QED BY <1>1, <1>3, <2>2, Zenon DEF CountInv
<1>5. CASE Uncount(c)
  <2>1. /\ active' = active - 1
        /\ conn'[c].at = "leave"
        /\ \A d \in Conns : d # c => conn'[d].at = conn[d].at
    BY <1>5, UncountMoves, Zenon
  <2>2. Holding' = Holding \cup {c} /\ Counted' = Counted \ {c}
    BY <2>1, OneMoves
  <2>3. Holding' = Holding
    BY <1>2, <2>2, Zenon
  <2>4. Cardinality(Counted') = Cardinality(Counted) - 1
    BY Zenon, <1>2, <2>2, FiniteConnections, FS_RemoveElement
  <2>5. Cardinality(Counted') \in Nat
    BY <2>2, FiniteConnections, FS_RemoveElement, FS_CardinalityType
  <2>6. active' = Cardinality(Counted)' /\ active' \in Nat
    BY <1>3, <2>1, <2>4, <2>5
  <2> QED BY <1>1, <1>3, <2>3, <2>6, Zenon DEF CountInv
<1> QED BY <1>4, <1>5, TaskMoves, Zenon

\* The permit goes back when the connection is no longer counted.
LEMMA ReleaseCounts ==
    ASSUME TunnelInv, CountInv, NEW c \in Conns, ReleasePermit(c)
    PROVE  CountInv'
<1>1. conn'[c].at = "none" /\ \A d \in Conns : d # c => conn'[d].at = conn[d].at
  BY Zenon DEF ReleasePermit, TunnelInv, NoConn
<1>2. Holding' = Holding \ {c} /\ Counted' = Counted \ {c}
  BY <1>1, OneMoves
<1>3. c \in Holding /\ c \notin Counted
  BY Zenon DEF ReleasePermit, Holding, Counted
<1>4. Counted' = Counted
  BY <1>2, <1>3, Zenon
<1>5. Cardinality(Holding') = Cardinality(Holding) - 1
  BY Zenon, <1>2, <1>3, FiniteConnections, FS_RemoveElement
<1>6. Cardinality(Holding)' <= MaxConnections
  BY <1>5, FiniteConnections, EgressAssumption DEF CountInv
<1>7. Holding = {} => Holding' = {}
  BY <1>2, Zenon
<1> QED BY <1>4, <1>6, <1>7, Zenon DEF CountInv, ReleasePermit

\* Every connection is gone after a stop; the count is reset only by the loop.
LEMMA StoppedCounts ==
    ASSUME CountInv, NEW aborted \in BOOLEAN, Stopped(aborted),
           active' \in Nat, ~aborted => active' = 0
    PROVE  CountInv'
<1>1. \A c \in Conns : conn'[c].at = "none"
  BY Zenon DEF Stopped, NoConn
<1>2. Holding' = {}
  BY <1>1, Zenon DEF Holding
<1>3. Cardinality(Holding') = 0
  BY <1>2, FS_EmptySet, Zenon
<1>4. Cardinality(Holding)' <= MaxConnections
  BY <1>3, EgressAssumption
<1>5. {signal, slow, cut}' \subseteq BOOLEAN
  BY Zenon DEF Stopped
<1> QED BY <1>2, <1>4, <1>5, Zenon DEF CountInv, Stopped

\* Steps that move no connection keep the two sets.
LEMMA NoneMoves ==
    ASSUME \A c \in Conns : conn'[c].at = conn[c].at
    PROVE  Holding' = Holding /\ Counted' = Counted
<1>1. Holding' = Holding
  BY Zenon DEF Holding
<1> QED BY <1>1, Zenon DEF Counted, Holding

\* The count stays exact in every step of the proxy.
LEMMA ProxyCounts ==
    ASSUME TunnelInv, CountInv, ProxyNext \/ RefusalOver \/ StopStep
    PROVE  CountInv'
<1>1. UNCHANGED conn => Holding' = Holding /\ Counted' = Counted
  BY Zenon DEF Holding, Counted
<1>7. CASE ProxyStart
  BY <1>1, <1>7, Zenon DEF CountInv, ProxyStart
<1>8. CASE Refuse
  BY <1>1, <1>8, Zenon DEF CountInv, Refuse
<1>9. CASE ProxyShutdown
  BY <1>1, <1>9, Zenon DEF CountInv, ProxyShutdown
<1>10. CASE Refused
  BY <1>1, <1>10, Zenon DEF CountInv, Refused
<1>11. CASE SeeShutdown
  BY <1>1, <1>11, Zenon DEF CountInv, SeeShutdown
<1>2. ASSUME NEW c \in Conns, NEW a \in Clients, Accept(c, a) PROVE CountInv'
  BY <1>2, AcceptCounts, Zenon
<1>3. ASSUME NEW c \in Conns, Task(c) PROVE CountInv'
  BY <1>3, TaskCounts, Zenon
<1>4. ASSUME NEW c \in Conns, ReleasePermit(c) PROVE CountInv'
  BY <1>4, ReleaseCounts, Zenon
<1>5. CASE Drained
  <2>1. active' \in Nat /\ active' = 0 /\ Stopped(FALSE)
    BY Zenon, <1>5 DEF Drained
  <2> QED BY <2>1, StoppedCounts, Zenon
<1>6. CASE Deadline
  <2>1. active' \in Nat /\ Stopped(TRUE)
    BY <1>6, Zenon DEF Deadline, CountInv
  <2> QED BY <2>1, StoppedCounts, Zenon
<1>12. CASE ProxyNext
  BY <1>2, <1>3, <1>4, <1>7, <1>8, <1>9, <1>12, Zenon DEF ProxyNext
<1>13. CASE RefusalOver
  BY <1>10, <1>13, Zenon DEF RefusalOver
<1>14. CASE StopStep
  BY <1>5, <1>6, <1>11, <1>14, Zenon DEF StopStep
<1> QED BY <1>12, <1>13, <1>14, Zenon

\* A reload moves no connection.
LEMMA ReloadCounts ==
    ASSUME TunnelInv, CountInv, ReloadPolicy
    PROVE  CountInv'
<1>1. ASSUME NEW c \in Conns PROVE conn'[c].at = conn[c].at
  <2>1. DOMAIN conn[c] = ConnFields /\ "at" \in ConnFields
    BY Fields, Zenon DEF TunnelInv
  <2>2. conn'[c] = [conn[c] EXCEPT !.during =
                      IF conn[c].at \in {"resolve", "hello"} THEN @ \cup {rule_set'} ELSE @]
    BY Zenon DEF ReloadPolicy
  <2> QED BY <2>1, <2>2, Zenon
<1>2. Holding' = Holding /\ Counted' = Counted
  BY <1>1, NoneMoves, Zenon
<1> QED BY <1>2, Zenon DEF CountInv, ReloadPolicy

-----------------------------------------------------------------------------
(* Queries: answers are fresh, and what is leased is allowed.              *)

\* A record that no handler uses is in order.
LEMMA NoQueryOK ==
    ASSUME NEW rules
    PROVE  QueryOK(NoQuery, rules)
<1>1. /\ NoQuery.at = "idle" /\ NoQuery.records = {} /\ NoQuery.todo = {}
      /\ NoQuery.age = 0 /\ NoQuery.held = 0
  BY Zenon DEF NoQuery
<1>2. QueryTyped(NoQuery)
  BY <1>1 DEF QueryTyped, QueryFields
<1>3. QueryFresh(NoQuery)
  BY <1>1, Zenon DEF QueryFresh
<1>4. QueryJudged(NoQuery, rules)
  BY <1>1, Zenon DEF QueryJudged, Leased
<1> QED BY <1>2, <1>3, <1>4, Zenon DEF QueryOK

\* A step that gives one query a record in order.
Ordered(q) ==
    \E y : query' = [query EXCEPT ![q] = y] /\ QueryOK(y, rule_set)

\* Such a step keeps every query in order, as no other record changes.
LEMMA OneQuery ==
    ASSUME QueryInv, NEW q \in Queries, Ordered(q), UNCHANGED <<dns, rule_set>>
    PROVE  QueryInv'
<1>1. PICK y : query' = [query EXCEPT ![q] = y] /\ QueryOK(y, rule_set)
  BY Zenon DEF Ordered
<1>2. DOMAIN query' = Queries
  BY <1>1, Zenon DEF QueryInv
<1>3. ASSUME NEW p \in Queries PROVE QueryOK(query'[p], rule_set')
  <2>1. CASE p = q
    BY <1>1, <2>1, Zenon DEF QueryInv
  <2>2. CASE p # q
    BY <1>1, <2>2, Zenon DEF QueryInv
  <2> QED BY <2>1, <2>2, Zenon
<1> QED BY <1>2, <1>3, Zenon DEF QueryInv

\* A handler that returns.
LEMMA EndQueryOrdered ==
    ASSUME NEW q, EndQuery(q)
    PROVE  Ordered(q)
BY NoQueryOK, Zenon DEF EndQuery, Ordered

\* The record of a query that only moves.
LEMMA MovedRecord ==
    ASSUME QueryInv, NEW q \in Queries, NEW p, MoveTo(q, p),
           NEW x, x = query[q], NEW y, y = [x EXCEPT !.at = p]
    PROVE  /\ query' = [query EXCEPT ![q] = y]
           /\ DOMAIN y = QueryFields
           /\ y.at = p /\ y.host = x.host /\ y.agent = x.agent /\ y.egress = x.egress
           /\ y.records = x.records /\ y.todo = x.todo /\ y.age = x.age /\ y.held = x.held
<1>1. DOMAIN x = QueryFields
  BY Zenon DEF QueryInv, QueryOK, QueryTyped
<1>2. query' = [query EXCEPT ![q] = y]
  BY Zenon DEF MoveTo, QueryInv
<1> QED BY <1>1, <1>2, Fields

\* A query arrives.
LEMMA ReceiveOrdered ==
    ASSUME QueryInv, NEW q \in Queries, NEW name \in RawNames, NEW a, Receive(q, name, a)
    PROVE  Ordered(q)
<1>1. PICK y : y = [NoQuery EXCEPT !.at = "identify", !.host = Canonical(name), !.agent = a]
  BY Zenon
<1>2. query' = [query EXCEPT ![q] = y]
  BY <1>1, Zenon DEF Receive
<1>3. /\ DOMAIN y = QueryFields /\ y.at = "identify" /\ y.host = name.host
      /\ y.records = {} /\ y.todo = {} /\ y.age = 0 /\ y.held = 0
  BY <1>1 DEF NoQuery, QueryFields, Canonical
<1>4. y.host \in Hosts
  BY <1>3 DEF RawNames
<1>5. QueryTyped(y)
  BY <1>3, <1>4 DEF QueryTyped
<1>6. QueryFresh(y) /\ QueryJudged(y, rule_set)
  BY <1>3, Zenon DEF QueryFresh, QueryJudged, Leased
<1> QED BY <1>2, <1>5, <1>6, Zenon DEF Ordered, QueryOK

\* An identified query goes to the rules.
LEMMA IdentifyOrdered ==
    ASSUME QueryInv, NEW q \in Queries, NEW managed, Identify(q, managed)
    PROVE  Ordered(q)
<1>1. CASE EndQuery(q)
  BY <1>1, EndQueryOrdered, Zenon
<1>2. CASE MoveTo(q, "evaluate")
  <2>1. PICK x : x = query[q]
    BY Zenon
  <2>2. PICK y : y = [x EXCEPT !.at = "evaluate"]
    BY Zenon
  <2>3. /\ query' = [query EXCEPT ![q] = y]
        /\ DOMAIN y = QueryFields
        /\ y.at = "evaluate" /\ y.host = x.host /\ y.records = x.records
        /\ y.todo = x.todo /\ y.age = x.age /\ y.held = x.held
    BY <1>2, <2>1, <2>2, MovedRecord
  <2>4. x.at = "identify" /\ QueryTyped(x)
    BY <2>1, Zenon DEF Identify, QueryInv, QueryOK
  <2>5. QueryTyped(y)
    BY <2>3, <2>4, Zenon DEF QueryTyped
  <2>6. QueryFresh(y) /\ QueryJudged(y, rule_set)
    BY <2>3, Zenon DEF QueryFresh, QueryJudged, Leased
  <2> QED BY <2>3, <2>5, <2>6, Zenon DEF Ordered, QueryOK
<1> QED BY <1>1, <1>2, Zenon DEF Identify

\* The lease is taken and the rules of this moment are asked.
LEMMA EvaluateOrdered ==
    ASSUME QueryInv, NEW q \in Queries, Evaluate(q)
    PROVE  Ordered(q)
<1> DEFINE verdict == EvaluateWithEgress(rule_set, QueryContext(q))
<1>1. CASE ~verdict.allow
  <2>1. query' = [query EXCEPT ![q] = NoQuery]
    BY <1>1, Zenon DEF Evaluate
  <2> QED BY <2>1, NoQueryOK, Zenon DEF Ordered
<1>2. CASE verdict.allow
  <2>1. PICK x : x = query[q]
    BY Zenon
  <2>2. PICK y : y = [x EXCEPT !.at = "cache", !.egress = verdict.egress]
    BY Zenon
  <2>3. query' = [query EXCEPT ![q] = y]
    BY <1>2, <2>1, <2>2, Zenon DEF Evaluate
  <2>4. x.at = "evaluate" /\ QueryTyped(x)
    BY <2>1, Zenon DEF Evaluate, QueryInv, QueryOK
  <2>5. /\ DOMAIN y = QueryFields
        /\ y.at = "cache" /\ y.host = x.host /\ y.agent = x.agent
        /\ y.egress = verdict.egress
        /\ y.records = x.records /\ y.todo = x.todo /\ y.age = x.age /\ y.held = x.held
    BY <2>2, <2>4, Fields DEF QueryTyped
  <2>6. QueryTyped(y)
    BY <2>4, <2>5, Zenon DEF QueryTyped
  <2>7. QueryFresh(y)
    BY <2>5, Zenon DEF QueryFresh
  <2>8. verdict = EvaluateWithEgress(rule_set,
                      [via |-> "dns", host |-> y.host, agent |-> y.agent])
    BY <2>1, <2>5, Zenon DEF QueryContext
  <2>9. QueryJudged(y, rule_set)
    BY <1>2, <2>5, <2>8, Zenon DEF QueryJudged
  <2> QED BY <2>3, <2>6, <2>7, <2>9, Zenon DEF Ordered, QueryOK
<1> QED BY <1>1, <1>2, Zenon

\* Integer arithmetic of half seconds.
LEMMA HalfSeconds ==
    ASSUME NEW age \in Nat, NEW ttl \in Nat, NEW up \in Nat, ttl <= up, age \div 2 <= ttl
    PROVE  /\ ttl - age \div 2 \in Nat
           /\ 2 * (ttl - age \div 2) < 2 * up - age + 2
<1>1. PICK half \in Nat : half = age \div 2
  OBVIOUS
<1>2. 2 * half <= age /\ age < 2 * half + 2
  BY <1>1
<1> QED BY <1>1, <1>2

\* DnsCache::get: what an entry hands out is fresh, or has a TTL of zero.
LEMMA CachedFresh ==
    ASSUME NEW e, EntryOK(e)
    PROVE  /\ CachedRecords(e) \subseteq Records
           /\ \A r \in CachedRecords(e) : r.ttl > 0 => 2 * r.ttl < 2 * r.upttl - e.age + 2
<1>1. /\ e.age \in Nat /\ e.ttl \in Nat /\ e.records \subseteq Records
      /\ \A s \in e.records : e.ttl <= s.upttl
  BY DEF EntryOK, Entries
<1>3. SUFFICES ASSUME NEW r \in CachedRecords(e)
               PROVE  r \in Records /\ (r.ttl > 0 => 2 * r.ttl < 2 * r.upttl - e.age + 2)
  BY Zenon
<1>4. PICK s \in e.records : r = [s EXCEPT !.ttl = Remaining(e)]
  BY Zenon DEF CachedRecords
<1>5. s \in Records /\ s.upttl \in Nat /\ e.ttl <= s.upttl
  BY <1>1, <1>4 DEF Records
<1>6. /\ Remaining(e) \in Nat
      /\ Remaining(e) > 0 => 2 * Remaining(e) < 2 * s.upttl - e.age + 2
  <2>1. CASE e.age \div 2 <= e.ttl
    BY <1>1, <1>5, <2>1, HalfSeconds DEF Remaining
  <2>2. CASE ~(e.age \div 2 <= e.ttl)
    BY <2>2 DEF Remaining
  <2> QED BY <2>1, <2>2
<1>7. r \in Records /\ r.ttl = Remaining(e) /\ r.upttl = s.upttl
  BY <1>4, <1>5, <1>6 DEF Records
<1> QED BY <1>6, <1>7

\* Where a query has nothing of the upstream's in hand, its record only moves.
LEMMA CacheGetOrdered ==
    ASSUME QueryInv, NEW q \in Queries, CacheGet(q)
    PROVE  Ordered(q)
<1>1. PICK x : x = query[q]
  BY Zenon
<1>2. x.at = "cache" /\ QueryTyped(x) /\ QueryJudged(x, rule_set)
  BY <1>1, Zenon DEF CacheGet, QueryInv, QueryOK
<1>3. PICK p \in {"read", "lookup"} : MoveTo(q, p)
  BY Zenon DEF CacheGet
<1>4. PICK y : y = [x EXCEPT !.at = p]
  BY Zenon
<1>5. /\ query' = [query EXCEPT ![q] = y]
      /\ DOMAIN y = QueryFields
      /\ y.at = p /\ y.host = x.host /\ y.agent = x.agent /\ y.egress = x.egress
      /\ y.records = x.records /\ y.todo = x.todo /\ y.age = x.age /\ y.held = x.held
  BY <1>1, <1>3, <1>4, MovedRecord
<1>6. QueryTyped(y)
  BY <1>2, <1>3, <1>5, Zenon DEF QueryTyped
<1>7. QueryFresh(y)
  BY <1>3, <1>5, Zenon DEF QueryFresh
<1>8. QueryJudged(y, rule_set)
  BY <1>2, <1>3, <1>5, Zenon DEF QueryJudged, Leased
<1> QED BY <1>5, <1>6, <1>7, <1>8, Zenon DEF Ordered, QueryOK

\* The entry that was found live gives its records.
LEMMA CacheReadOrdered ==
    ASSUME QueryInv, CacheInv, ReadInv, NEW q \in Queries, CacheRead(q)
    PROVE  Ordered(q)
<1>1. PICK x : x = query[q]
  BY Zenon
<1>2. x.at = "read" /\ QueryTyped(x) /\ QueryJudged(x, rule_set)
  BY <1>1, Zenon DEF CacheRead, QueryInv, QueryOK
<1>3. PICK e : e = entries[x.host]
  BY Zenon
<1>4. EntryOK(e)
  BY <1>1, <1>2, <1>3, Zenon DEF CacheInv, ReadInv
<1>5. PICK y : y = [x EXCEPT !.at = "enforce", !.records = CachedRecords(e),
                             !.age = e.held + e.age, !.held = e.held]
  BY Zenon
<1>6. query' = [query EXCEPT ![q].at = "enforce", ![q].records = CachedRecords(e),
                             ![q].age = e.held + e.age, ![q].held = e.held]
  BY <1>1, <1>3, Zenon DEF CacheRead
<1>7. query' = [query EXCEPT ![q] = y]
  BY <1>1, <1>5, <1>6, Zenon DEF QueryInv
<1>8. /\ DOMAIN y = QueryFields
      /\ y.at = "enforce" /\ y.host = x.host /\ y.agent = x.agent /\ y.egress = x.egress
      /\ y.records = CachedRecords(e) /\ y.todo = x.todo
      /\ y.age = e.held + e.age /\ y.held = e.held
  BY <1>2, <1>5, Fields DEF QueryTyped
<1>9. e.age \in Nat /\ e.held \in Nat
  BY <1>4 DEF EntryOK, Entries
<1>10. y.age \in Nat /\ y.held \in Nat
  BY <1>8, <1>9
<1>11. QueryTyped(y)
  BY <1>2, <1>4, <1>8, <1>10, CachedFresh, Zenon DEF QueryTyped
<1>12. Fresh(y)
  <2>1. SUFFICES ASSUME NEW r \in CachedRecords(e), r.ttl > 0
                 PROVE  2 * r.ttl < 2 * r.upttl - y.age + 2 + y.held
    BY <1>8, Zenon DEF Fresh
  <2>2. 2 * r.ttl < 2 * r.upttl - e.age + 2
    BY <1>4, <2>1, CachedFresh, Zenon
  <2>3. r.ttl \in Nat /\ r.upttl \in Nat
    BY <1>4, CachedFresh DEF Records
  <2> QED BY <1>8, <1>9, <2>2, <2>3
<1>13. QueryFresh(y)
  BY <1>8, <1>12, Zenon DEF QueryFresh
<1>14. QueryJudged(y, rule_set)
  BY <1>2, <1>8, Zenon DEF QueryJudged, Leased
<1> QED BY <1>7, <1>11, <1>13, <1>14, Zenon DEF Ordered, QueryOK

\* The upstream answers with the TTLs it gives, or the query fails.
LEMMA LookupOrdered ==
    ASSUME QueryInv, NEW q \in Queries, Lookup(q)
    PROVE  Ordered(q)
<1>1. CASE EndQuery(q)
  BY <1>1, EndQueryOrdered, Zenon
<1>2. ASSUME NEW answer \in Answers,
             query' = [query EXCEPT ![q].at = "store", ![q].records =
                         {[addr |-> r.addr, ttl |-> r.ttl, upttl |-> r.ttl] : r \in answer}]
      PROVE  Ordered(q)
  <2>1. PICK x : x = query[q]
    BY Zenon
  <2>2. PICK records : records = {[addr |-> r.addr, ttl |-> r.ttl, upttl |-> r.ttl]
                                    : r \in answer}
    BY Zenon
  <2>3. PICK y : y = [x EXCEPT !.at = "store", !.records = records]
    BY Zenon
  <2>4. query' = [query EXCEPT ![q] = y]
    BY <1>2, <2>1, <2>2, <2>3, Zenon DEF QueryInv
  <2>5. x.at = "lookup" /\ QueryTyped(x) /\ QueryJudged(x, rule_set)
    BY <2>1, Zenon DEF Lookup, QueryInv, QueryOK
  <2>6. /\ DOMAIN y = QueryFields
        /\ y.at = "store" /\ y.host = x.host /\ y.agent = x.agent /\ y.egress = x.egress
        /\ y.records = records /\ y.todo = x.todo /\ y.age = x.age /\ y.held = x.held
    BY <2>3, <2>5, Fields DEF QueryTyped
  <2>13. x.age = 0 /\ x.held = 0
    BY <2>5, Zenon DEF QueryTyped
  <2>7. answer \subseteq [addr : Addresses \cup {Alias}, ttl : Nat]
    BY EgressAssumption, Zenon
  <2>8. ASSUME NEW s \in records PROVE s \in Records /\ s.ttl = s.upttl
    <3>1. PICK r \in answer : s = [addr |-> r.addr, ttl |-> r.ttl, upttl |-> r.ttl]
      BY <2>2, Zenon
    <3>2. r.addr \in Addresses \cup {Alias} /\ r.ttl \in Nat
      BY <2>7
    <3> QED BY <3>1, <3>2 DEF Records
  <2>9. ASSUME records # {}
        PROVE  \E r \in records : \A s \in records : r.ttl <= s.ttl
    <3>1. answer # {}
      BY <2>2, <2>9, Zenon
    <3>2. PICK r \in answer : \A s \in answer : r.ttl <= s.ttl
      BY <3>1, EgressAssumption, Zenon
    <3>3. PICK least : least = [addr |-> r.addr, ttl |-> r.ttl, upttl |-> r.ttl]
      BY Zenon
    <3>4. least \in records
      BY <2>2, <3>3, Zenon
    <3>5. ASSUME NEW t \in records PROVE least.ttl <= t.ttl
      <4>1. PICK s \in answer : t = [addr |-> s.addr, ttl |-> s.ttl, upttl |-> s.ttl]
        BY <2>2, Zenon
      <4> QED BY <3>2, <3>3, <4>1, Zenon
    <3> QED BY <3>4, <3>5, Zenon
  <2>10. QueryTyped(y)
    <3>1. y.records \subseteq Records
      BY <2>6, <2>8, Zenon
    <3> QED BY <2>5, <2>6, <3>1, Zenon DEF QueryTyped
  <2>11. QueryFresh(y)
    BY <2>6, <2>8, <2>9, <2>13, Zenon DEF QueryFresh
  <2>12. QueryJudged(y, rule_set)
    BY <2>5, <2>6, Zenon DEF QueryJudged, Leased
  <2> QED BY <2>4, <2>10, <2>11, <2>12, Zenon DEF Ordered, QueryOK
<1> QED BY <1>1, <1>2, Zenon DEF Lookup

\* A fresh answer goes on with the TTLs of the upstream.
LEMMA StoreOrdered ==
    ASSUME QueryInv, NEW q \in Queries, Store(q)
    PROVE  Ordered(q)
<1>1. PICK x : x = query[q]
  BY Zenon
<1>2. PICK y : y = [x EXCEPT !.at = "enforce"]
  BY Zenon
<1>3. MoveTo(q, "enforce")
  BY Zenon DEF Store
<1>4. /\ query' = [query EXCEPT ![q] = y]
      /\ DOMAIN y = QueryFields
      /\ y.at = "enforce" /\ y.host = x.host /\ y.agent = x.agent /\ y.egress = x.egress
      /\ y.records = x.records /\ y.todo = x.todo /\ y.age = x.age /\ y.held = x.held
  BY <1>1, <1>2, <1>3, MovedRecord
<1>5. x.at = "store" /\ QueryTyped(x) /\ QueryFresh(x) /\ QueryJudged(x, rule_set)
  BY <1>1, Zenon DEF Store, QueryInv, QueryOK
<1>6. QueryTyped(y)
  BY <1>4, <1>5, Zenon DEF QueryTyped
<1>7. QueryFresh(y)
  <2>1. x.age = x.held /\ \A r \in x.records : r.ttl = r.upttl
    BY <1>5, Zenon DEF QueryFresh
  <2>4. x.held \in Nat
    BY <1>5, Zenon DEF QueryTyped
  <2>2. \A r \in x.records : r.ttl \in Nat /\ r.upttl \in Nat
    BY <1>5 DEF QueryTyped, Records
  <2>3. Fresh(y)
    BY <1>4, <2>1, <2>2, <2>4 DEF Fresh
  <2> QED BY <1>4, <2>3, Zenon DEF QueryFresh
<1>8. QueryJudged(y, rule_set)
  BY <1>4, <1>5, Zenon DEF QueryJudged, Leased
<1> QED BY <1>4, <1>6, <1>7, <1>8, Zenon DEF Ordered, QueryOK

\* What apply_address_policy keeps is part of the answer, and restricted only
\* where the rule allows it.
LEMMA KeptRecords ==
    ASSUME NEW records, NEW egress
    PROVE  LET kept == FilterRestricted(records, egress.private)
           IN  /\ kept \subseteq records
               /\ \A a \in DirectDestinations(kept) : IsRestricted(a) => egress.private
               /\ DirectDestinations(kept) \subseteq Addresses
<1> DEFINE kept == FilterRestricted(records, egress.private)
<1>1. kept \subseteq records
  BY Zenon DEF FilterRestricted
<1>2. ASSUME NEW a \in DirectDestinations(kept), IsRestricted(a) PROVE egress.private
  <2>1. PICK r \in kept : a = r.addr
    BY Zenon DEF DirectDestinations
  <2> QED BY <1>2, <2>1, Zenon DEF FilterRestricted
<1>3. DirectDestinations(kept) \subseteq Addresses
  BY Zenon DEF DirectDestinations, Addresses
<1> QED BY <1>1, <1>2, <1>3, Zenon

\* Only a direct_ip rule leaves destinations to insert, and a restricted one
\* only where the rule allows it.
LEMMA EnforceOrdered ==
    ASSUME QueryInv, NEW q \in Queries, Enforce(q)
    PROVE  Ordered(q)
<1>1. PICK x : x = query[q]
  BY Zenon
<1>2. PICK kept : kept = FilterRestricted(x.records, x.egress.private)
  BY Zenon
<1>3. PICK todo : todo = IF x.egress.mode = "direct" /\ DirectTtl(kept) > 0
                         THEN DirectDestinations(kept) ELSE {}
  BY Zenon
<1>4. x.at = "enforce" /\ QueryTyped(x) /\ QueryFresh(x) /\ QueryJudged(x, rule_set)
  BY <1>1, Zenon DEF Enforce, QueryInv, QueryOK
<1>5. CASE RestrictedOnly(x.records, x.egress.private)
  <2>1. query' = [query EXCEPT ![q] = NoQuery]
    BY <1>1, <1>5, Zenon DEF Enforce
  <2> QED BY <2>1, NoQueryOK, Zenon DEF Ordered
<1>6. CASE ~RestrictedOnly(x.records, x.egress.private)
  <2>1. PICK y : y = [x EXCEPT !.at = "grant", !.records = kept, !.todo = todo]
    BY Zenon
  <2>2. query' = [query EXCEPT ![q] = y]
    BY <1>1, <1>2, <1>3, <1>6, <2>1, Zenon DEF Enforce
  <2>3. /\ DOMAIN y = QueryFields
        /\ y.at = "grant" /\ y.host = x.host /\ y.agent = x.agent /\ y.egress = x.egress
        /\ y.records = kept /\ y.todo = todo /\ y.age = x.age /\ y.held = x.held
    BY <1>4, <2>1, Fields DEF QueryTyped
  <2>4. /\ kept \subseteq x.records /\ todo \subseteq Addresses
        /\ \A a \in todo : IsRestricted(a) => x.egress.private
    BY <1>2, <1>3, KeptRecords, Zenon
  <2>5. \A a \in todo : x.egress.mode = "direct"
    BY <1>3, Zenon
  <2>6. QueryTyped(y)
    BY <1>4, <2>3, <2>4, Zenon DEF QueryTyped
  <2>7. QueryFresh(y)
    BY <1>4, <2>3, <2>4, Zenon DEF QueryFresh, Fresh
  <2>8. QueryJudged(y, rule_set)
    BY <1>4, <2>3, <2>4, <2>5, Zenon DEF QueryJudged, Leased
  <2> QED BY <2>2, <2>6, <2>7, <2>8, Zenon DEF Ordered, QueryOK
<1> QED BY <1>5, <1>6, Zenon

\* insert_direct_rules goes through its destinations.
LEMMA InsertDirectOrdered ==
    ASSUME QueryInv, NEW q \in Queries, NEW addr, NEW inserted,
           InsertDirect(q, addr, inserted)
    PROVE  Ordered(q)
<1>1. PICK x : x = query[q]
  BY Zenon
<1>2. PICK y : y = [x EXCEPT !.todo = x.todo \ {addr}]
  BY Zenon
<1>3. query' = [query EXCEPT ![q] = y]
  BY <1>1, <1>2, Zenon DEF InsertDirect, QueryInv
<1>4. x.at = "grant" /\ QueryTyped(x) /\ QueryFresh(x) /\ QueryJudged(x, rule_set)
  BY <1>1, Zenon DEF InsertDirect, QueryInv, QueryOK
<1>5. /\ DOMAIN y = QueryFields
      /\ y.at = "grant" /\ y.host = x.host /\ y.agent = x.agent /\ y.egress = x.egress
      /\ y.records = x.records /\ y.todo = x.todo \ {addr}
      /\ y.age = x.age /\ y.held = x.held
  BY <1>2, <1>4, Fields DEF QueryTyped
<1>6. QueryTyped(y)
  BY <1>4, <1>5, Zenon DEF QueryTyped
<1>7. QueryFresh(y)
  BY <1>4, <1>5, Zenon DEF QueryFresh, Fresh
<1>8. QueryJudged(y, rule_set)
  BY <1>4, <1>5, Zenon DEF QueryJudged
<1> QED BY <1>3, <1>6, <1>7, <1>8, Zenon DEF Ordered, QueryOK

\* Every step of a handler leaves its query in order.
LEMMA QueryStepOrdered ==
    ASSUME QueryInv, CacheInv, ReadInv, NEW q \in Queries, QueryStep(q)
    PROVE  Ordered(q)
<1>1. CASE Answer(q)
  BY <1>1, EndQueryOrdered, Zenon DEF Answer
<1> QED BY <1>1, IdentifyOrdered, EvaluateOrdered, CacheGetOrdered, CacheReadOrdered, LookupOrdered,
           StoreOrdered, EnforceOrdered, InsertDirectOrdered, Zenon DEF QueryStep

\* A handler comes to hold the mutex of the cache in DnsCache::get only.
LEMMA OnlyGetLocks ==
    ASSUME QueryInv, CacheInv, ReadInv, NEW q \in Queries, QueryStep(q)
    PROVE  /\ \A p \in Queries : p # q => query'[p] = query[p]
           /\ CacheGet(q) \/ query'[q].at # "read"
<1>1. PICK y : query' = [query EXCEPT ![q] = y]
  BY QueryStepOrdered, Zenon DEF Ordered
<1>2. \A p \in Queries : p # q => query'[p] = query[p]
  BY <1>1, Zenon DEF QueryInv
<1>3. "at" \in DOMAIN query[q] /\ DOMAIN query = Queries
  BY Fields, Zenon DEF QueryInv, QueryOK, QueryTyped
<1>4. ASSUME NEW p, MoveTo(q, p) PROVE query'[q].at = p
  BY <1>3, <1>4, Zenon DEF MoveTo
<1>5. ASSUME EndQuery(q) PROVE query'[q].at = "idle"
  BY <1>3, <1>5, Zenon DEF EndQuery, NoQuery
<1>6. ASSUME ~CacheGet(q) PROVE query'[q].at # "read"
  <2>1. ASSUME NEW managed, Identify(q, managed) PROVE query'[q].at # "read"
    <3>1. CASE MoveTo(q, "evaluate")
      <4>1. query'[q].at = "evaluate"
        BY <3>1, <1>4
      <4> QED BY <4>1, Zenon
    <3>2. CASE EndQuery(q)
      BY <3>2, <1>5, Zenon
    <3> QED BY <2>1, <3>1, <3>2, Zenon DEF Identify
  <2>2. CASE Evaluate(q)
    <3>1. query'[q].at \in {"cache", "idle"}
      BY <1>3, <2>2, Zenon DEF Evaluate, NoQuery
    <3> QED BY <3>1, Zenon
  <2>3. CASE CacheRead(q)
    <3>1. query'[q].at = "enforce"
      BY <1>3, <2>3, Fields DEF CacheRead, QueryInv, QueryOK, QueryTyped
    <3> QED BY <3>1, Zenon
  <2>4. CASE Lookup(q)
    <3>1. query'[q].at = "idle" \/ query'[q].at = "store"
      BY <1>3, <1>5, <2>4, Fields DEF Lookup, QueryInv, QueryOK, QueryTyped
    <3> QED BY <3>1, Zenon
  <2>5. CASE Store(q)
    <3>1. query'[q].at = "enforce"
      <4>1. MoveTo(q, "enforce")
        BY <2>5, Zenon DEF Store
      <4> QED BY <4>1, <1>4
    <3> QED BY <3>1, Zenon
  <2>6. CASE Enforce(q)
    <3>1. query'[q].at \in {"grant", "idle"}
      BY <1>3, <2>6, Zenon DEF Enforce, NoQuery
    <3> QED BY <3>1, Zenon
  <2>7. ASSUME NEW addr, NEW inserted, InsertDirect(q, addr, inserted)
        PROVE  query'[q].at # "read"
    <3>1. query'[q].at = "grant"
      BY <1>3, <2>7, Zenon DEF InsertDirect
    <3> QED BY <3>1, Zenon
  <2>8. CASE Answer(q)
    BY <2>8, <1>5, Zenon DEF Answer
  <2> QED BY <1>6, <2>1, <2>2, <2>3, <2>4, <2>5, <2>6, <2>7, <2>8, Zenon DEF QueryStep
<1> QED BY <1>2, <1>6, Zenon

\* Nobody comes to hold the mutex, and what is cached changes only when nobody
\* holds it.
LEMMA ReadersStay ==
    ASSUME ReadInv,
           \A p \in Queries : query'[p].at = "read" =>
               query[p].at = "read" /\ query'[p].host = query[p].host,
           Unlocked \/ DOMAIN entries' = DOMAIN entries
    PROVE  ReadInv'
BY Zenon DEF ReadInv, Unlocked

\* The mutex of the cache does what it is for.
LEMMA QueryStepReads ==
    ASSUME QueryInv, CacheInv, ReadInv, NEW q \in Queries, QueryStep(q)
    PROVE  ReadInv'
<1>1. /\ \A p \in Queries : p # q => query'[p] = query[p]
      /\ CacheGet(q) \/ query'[q].at # "read"
  BY OnlyGetLocks, Zenon
<1>2. CASE ~CacheGet(q)
  <2>1. \A p \in Queries : query'[p].at = "read" =>
            query[p].at = "read" /\ query'[p].host = query[p].host
    BY <1>1, <1>2, Zenon
  <2>2. Unlocked \/ DOMAIN entries' = DOMAIN entries
    BY <1>2, Zenon DEF QueryStep, Identify, Evaluate, CacheRead, Use, Lookup, Store, Enforce,
                       InsertDirect, Answer, cacheVars
  <2> QED BY <2>1, <2>2, ReadersStay, Zenon
<1>3. CASE CacheGet(q)
  <2>1. \A p \in Queries : p # q => query'[p].at # "read"
    BY <1>1, <1>3, Zenon DEF CacheGet, Unlocked
  <2>2. CASE query[q].host \in DOMAIN entries /\ ~Expired(entries[query[q].host])
    <3>1. MoveTo(q, "read") /\ DOMAIN entries' = DOMAIN entries
      BY <1>3, <2>2, Zenon DEF CacheGet, cacheVars
    <3>2. query'[q].host = query[q].host
      <4>1. PICK x : x = query[q]
        BY Zenon
      <4>2. PICK y : y = [x EXCEPT !.at = "read"]
        BY Zenon
      <4>3. query' = [query EXCEPT ![q] = y] /\ y.host = x.host
        BY <3>1, <4>1, <4>2, MovedRecord
      <4> QED BY <4>1, <4>3, Zenon DEF QueryInv
    <3> QED BY <2>1, <2>2, <3>1, <3>2, Zenon DEF ReadInv
  <2>3. CASE ~(query[q].host \in DOMAIN entries /\ ~Expired(entries[query[q].host]))
    <3>1. MoveTo(q, "lookup")
      BY <1>3, <2>3, Zenon DEF CacheGet
    <3>2. query'[q].at = "lookup"
      BY <3>1, Fields, Zenon DEF MoveTo, QueryInv, QueryOK, QueryTyped
    <3>3. query'[q].at # "read"
      BY <3>2, Zenon
    <3> QED BY <2>1, <3>3, Zenon DEF ReadInv
  <2> QED BY <2>2, <2>3, Zenon
<1> QED BY <1>2, <1>3, Zenon

\* Time passes for an answer in hand: it is held as much longer as it is older.
LEMMA OlderOK ==
    ASSUME NEW x, NEW rules, QueryOK(x, rules)
    PROVE  /\ QueryOK(Older(x), rules)
           /\ Older(x).at = x.at /\ Older(x).host = x.host
<1>1. CASE x.at \notin InHand
  BY <1>1, Zenon DEF Older
<1>2. CASE x.at \in InHand
  <2>1. PICK y : y = [x EXCEPT !.age = x.age + 1, !.held = x.held + 1]
    BY Zenon
  <2>2. QueryTyped(x) /\ QueryFresh(x) /\ QueryJudged(x, rules)
    BY Zenon DEF QueryOK
  <2>3. x.age \in Nat /\ x.held \in Nat /\ DOMAIN x = QueryFields
    BY <2>2, Zenon DEF QueryTyped
  <2>4. Older(x) = y
    BY <1>2, <2>1, <2>3, Fields DEF Older
  <2>5. /\ DOMAIN y = QueryFields
        /\ y.at = x.at /\ y.host = x.host /\ y.agent = x.agent /\ y.egress = x.egress
        /\ y.records = x.records /\ y.todo = x.todo
        /\ y.age = x.age + 1 /\ y.held = x.held + 1
    BY <2>1, <2>3, Fields
  <2>6. y.age \in Nat /\ y.held \in Nat
    BY <2>3, <2>5
  <2>7. y.at \notin {"idle", "identify", "evaluate", "cache", "read", "lookup"}
    BY <1>2, <2>5, Zenon DEF InHand
  <2>8. QueryTyped(y)
    BY <2>2, <2>5, <2>6, <2>7, Zenon DEF QueryTyped
  <2>9. QueryFresh(y)
    <3>1. x.age = x.held => y.age = y.held
      BY <2>5, Zenon
    <3>2. Fresh(x) => Fresh(y)
      <4>1. \A r \in x.records : r.ttl \in Nat /\ r.upttl \in Nat
        BY <2>2 DEF QueryTyped, Records
      <4> QED BY <2>3, <2>5, <4>1 DEF Fresh
    <3> QED BY <2>2, <2>5, <3>1, <3>2, Zenon DEF QueryFresh
  <2>10. QueryJudged(y, rules)
    BY <2>2, <2>5, Zenon DEF QueryJudged
  <2> QED BY <2>4, <2>5, <2>8, <2>9, <2>10, Zenon DEF QueryOK
<1> QED BY <1>1, <1>2, Zenon

-----------------------------------------------------------------------------
(* The cache.                                                              *)

\* Entries that are dropped do no harm.
LEMMA PopKeeps ==
    ASSUME CacheInv, NEW hosts, Pop(hosts)
    PROVE  CacheInv'
BY Zenon DEF CacheInv, Pop

\* Nor does the use of one, which only moves it to the front.
LEMMA UseKeeps ==
    ASSUME CacheInv, NEW host, Use(host)
    PROVE  CacheInv'
BY Zenon DEF CacheInv, Use

\* An entry that comes in must be in order; another one may go for it.
LEMMA PutKeeps ==
    ASSUME CacheInv, NEW host \in Hosts, NEW e, EntryOK(e), Put(host, e)
    PROVE  CacheInv'
<1>1. PICK out : entries' = [h \in (DOMAIN entries \ out) \cup {host} |->
                               IF h = host THEN e ELSE entries[h]]
  BY Zenon DEF Put
<1>2. DOMAIN entries' = (DOMAIN entries \ out) \cup {host}
  BY <1>1, Zenon
<1>3. DOMAIN entries' \subseteq Hosts
  BY <1>2, Zenon DEF CacheInv
<1>4. ASSUME NEW h \in DOMAIN entries' PROVE EntryOK(entries'[h])
  <2>1. CASE h = host
    BY <1>1, <1>2, <2>1, Zenon
  <2>2. CASE h # host
    BY <1>1, <1>2, <2>2, Zenon DEF CacheInv
  <2> QED BY <2>1, <2>2, Zenon
<1> QED BY <1>3, <1>4, Zenon DEF CacheInv

\* The smallest TTL of an answer bounds every TTL of it.
LEMMA MinTtlBounds ==
    ASSUME NEW records, records \subseteq Records,
           \E r \in records : \A s \in records : r.ttl <= s.ttl
    PROVE  MinTtl(records) \in Nat /\ \A r \in records : MinTtl(records) <= r.ttl
<1>1. \E t \in {r.ttl : r \in records} : \A r \in records : t <= r.ttl
  BY Zenon
<1>2. PICK t : t = MinTtl(records)
  BY Zenon
<1>3. t \in {r.ttl : r \in records} /\ \A r \in records : t <= r.ttl
  BY <1>1, <1>2, Zenon DEF MinTtl
<1>4. t \in Nat
  BY <1>3 DEF Records
<1> QED BY <1>2, <1>3, <1>4, Zenon

\* DnsCache::insert keeps an answer no longer than its shortest TTL.
LEMMA StoreKeeps ==
    ASSUME QueryInv, CacheInv, NEW q \in Queries, Store(q)
    PROVE  CacheInv'
<1>1. PICK x : x = query[q]
  BY Zenon
<1>2. x.at = "store" /\ QueryTyped(x) /\ QueryFresh(x) /\ Insert(x.host, x.records, x.held)
  BY <1>1, Zenon DEF Store, QueryInv, QueryOK
<1>3. x.host \in Hosts /\ x.records \subseteq Records
  BY <1>2 DEF QueryTyped
<1>4. CASE x.records = {} \/ MinTtl(x.records) = 0
  BY <1>2, <1>4, Zenon DEF Insert, cacheVars, CacheInv
<1>5. CASE ~(x.records = {} \/ MinTtl(x.records) = 0)
  <2>1. PICK min : min = MinTtl(x.records)
    BY Zenon
  <2>2. PICK e : e = [records |-> x.records, age |-> 0, held |-> x.held,
                     ttl |-> LesserOf(min, MaxTtl)]
    BY Zenon
  <2>3. Put(x.host, e)
    BY <1>2, <1>5, <2>1, <2>2, Zenon DEF Insert
  <2>4. /\ \A r \in x.records : r.ttl = r.upttl
        /\ \E r \in x.records : \A s \in x.records : r.ttl <= s.ttl
    BY <1>2, <1>5, Zenon DEF QueryFresh
  <2>5. min \in Nat /\ \A r \in x.records : min <= r.ttl
    BY <1>3, <2>1, <2>4, MinTtlBounds, Zenon
  <2>6. \A r \in x.records : r.upttl \in Nat /\ min <= r.upttl
    BY <1>3, <2>4, <2>5 DEF Records
  <2>7. LesserOf(min, MaxTtl) \in Nat /\ LesserOf(min, MaxTtl) <= min
    BY <2>5, EgressAssumption DEF LesserOf
  <2>8. \A r \in x.records : LesserOf(min, MaxTtl) <= r.upttl
    BY <2>5, <2>6, <2>7
  <2>9. e \in Entries
    <3>1. x.held \in Nat
      BY <1>2, Zenon DEF QueryTyped
    <3> QED BY <1>3, <2>2, <2>7, <3>1 DEF Entries
  <2>10. EntryOK(e)
    BY <2>2, <2>8, <2>9 DEF EntryOK
  <2> QED BY <1>3, <2>3, <2>10, PutKeeps, Zenon
<1> QED BY <1>4, <1>5, Zenon

\* Time passes for the cache.
LEMMA TickAges ==
    ASSUME CacheInv, Tick
    PROVE  CacheInv' /\ DOMAIN entries' = DOMAIN entries
<1>1. entries' = [h \in DOMAIN entries |-> Aged(entries[h])]
  BY Zenon DEF Tick
<1>2. ASSUME NEW h \in DOMAIN entries PROVE EntryOK(entries'[h])
  <2>1. PICK e : e = entries[h]
    BY Zenon
  <2>2. EntryOK(e) /\ entries'[h] = [e EXCEPT !.age = LesserOf(e.age + 1, 2 * e.ttl + 2)]
    BY <1>1, <2>1, Zenon DEF CacheInv, Aged
  <2>3. e \in Entries /\ e.age \in Nat /\ e.ttl \in Nat /\ \A r \in e.records : e.ttl <= r.upttl
    BY <2>2 DEF EntryOK, Entries
  <2>4. LesserOf(e.age + 1, 2 * e.ttl + 2) \in Nat
    BY <2>3 DEF LesserOf
  <2>5. /\ entries'[h] \in Entries /\ entries'[h].ttl = e.ttl
        /\ entries'[h].records = e.records
    BY <2>2, <2>3, <2>4 DEF Entries
  <2> QED BY <2>3, <2>5 DEF EntryOK
<1>3. DOMAIN entries' = DOMAIN entries
  BY <1>1, Zenon
<1> QED BY <1>2, <1>3, Zenon DEF CacheInv

\* Time passes.
LEMMA TickKeeps ==
    ASSUME QueryInv, CacheInv, ReadInv, Tick, UNCHANGED rule_set
    PROVE  QueryInv' /\ CacheInv' /\ ReadInv'
<1>1. query' = [q \in Queries |-> Older(query[q])] /\ dns' = dns
  BY Zenon DEF Tick
<1>2. ASSUME NEW q \in Queries
      PROVE  /\ QueryOK(query'[q], rule_set')
             /\ query'[q].at = query[q].at /\ query'[q].host = query[q].host
  BY <1>1, OlderOK, Zenon DEF QueryInv
<1>3. QueryInv'
  BY <1>1, <1>2, Zenon DEF QueryInv
<1>4. ReadInv'
  BY <1>2, TickAges, ReadersStay, Zenon
<1> QED BY <1>3, <1>4, TickAges, Zenon

-----------------------------------------------------------------------------
(* The grants, and the whole system.                                       *)

\* A destination is inserted while its query holds the lease: the rules in
\* force are the ones that allowed it.
LEMMA InsertDirectAllowed ==
    ASSUME QueryInv, GrantsAllowed, NEW q \in Queries, NEW addr, NEW inserted,
           InsertDirect(q, addr, inserted), UNCHANGED rule_set
    PROVE  GrantsAllowed'
<1>1. PICK x : x = query[q]
  BY Zenon
<1>2. PICK grant : grant = [host |-> x.host, agent |-> x.agent, addr |-> addr]
  BY Zenon
<1>3. grant.host = x.host /\ grant.agent = x.agent /\ grant.addr = addr
  BY <1>2, Zenon
<1>4. direct_rules' \subseteq direct_rules \cup {grant}
  BY <1>1, <1>2, Zenon DEF InsertDirect
<1>5. x.at = "grant" /\ addr \in x.todo /\ QueryJudged(x, rule_set)
  BY <1>1, Zenon DEF InsertDirect, QueryInv, QueryOK
<1>6. LET verdict == EvaluateWithEgress(rule_set,
                        [via |-> "dns", host |-> grant.host, agent |-> grant.agent])
      IN  /\ verdict.allow
          /\ verdict.egress.mode = "direct"
          /\ IsRestricted(grant.addr) => verdict.egress.private
  BY <1>3, <1>5, Zenon DEF QueryJudged, Leased
<1> QED BY <1>4, <1>6, Zenon DEF GrantsAllowed

\* A handler's step.
LEMMA QueryStepKeeps ==
    ASSUME FilterInv, NEW q \in Queries, QueryStep(q), UNCHANGED rule_set
    PROVE  FilterInv'
<1>1. QueryInv /\ CacheInv /\ ReadInv /\ GrantsAllowed
  BY Zenon DEF FilterInv
<1>2. dns' = dns
  BY Zenon DEF QueryStep, Identify, Evaluate, CacheGet, CacheRead, Lookup, Store, Enforce,
               InsertDirect, Answer
<1>3. QueryInv'
  BY <1>1, <1>2, QueryStepOrdered, OneQuery, Zenon
<1>4. CacheInv'
  <2>1. CASE UNCHANGED cacheVars
    BY <1>1, <2>1, Zenon DEF cacheVars, CacheInv
  <2>2. CASE CacheGet(q) \/ CacheRead(q)
    BY <1>1, <2>1, <2>2, PopKeeps, UseKeeps, Zenon DEF CacheGet, CacheRead
  <2>3. CASE Store(q)
    BY <1>1, <2>3, StoreKeeps, Zenon
  <2> QED BY <2>1, <2>2, <2>3, Zenon DEF QueryStep, Identify, Evaluate, Lookup, Enforce,
             InsertDirect, Answer
<1>5. GrantsAllowed'
  <2>1. CASE UNCHANGED direct_rules
    BY <1>1, <2>1, Zenon DEF GrantsAllowed
  <2>2. ASSUME NEW addr \in Addresses, NEW inserted \in BOOLEAN,
               InsertDirect(q, addr, inserted)
        PROVE  GrantsAllowed'
    BY <1>1, <2>2, InsertDirectAllowed, Zenon
  <2> QED BY <2>1, <2>2, Zenon DEF QueryStep, Identify, Evaluate, CacheGet, CacheRead,
             Lookup, Store, Enforce, Answer
<1>6. ReadInv'
  BY <1>1, QueryStepReads, Zenon
<1> QED BY <1>3, <1>4, <1>5, <1>6, Zenon DEF FilterInv

\* A step of the DNS filter.
LEMMA FilterKeeps ==
    ASSUME FilterInv, DnsNext
    PROVE  FilterInv'
<1>1. QueryInv /\ CacheInv /\ ReadInv /\ GrantsAllowed /\ UNCHANGED rule_set
  BY Zenon DEF FilterInv, DnsNext, policyVars
<1>2. CASE DnsStart \/ DnsShutdown
  BY <1>1, <1>2, Zenon DEF FilterInv, QueryInv, CacheInv, ReadInv, GrantsAllowed,
                           cacheVars, DnsStart, DnsShutdown
<1>3. ASSUME NEW q \in Queries, NEW name \in RawNames, NEW a \in Agents, Receive(q, name, a)
      PROVE  FilterInv'
  <2>1. QueryInv'
    BY <1>1, <1>3, ReceiveOrdered, OneQuery, Zenon DEF Receive
  <2>2. ReadInv'
    <3>1. query'[q].at = "identify" /\ \A p \in Queries : p # q => query'[p] = query[p]
      BY <1>1, <1>3 DEF Receive, NoQuery, QueryInv
    <3>2. \A p \in Queries : query'[p].at = "read" =>
              query[p].at = "read" /\ query'[p].host = query[p].host
      BY <3>1, Zenon
    <3> QED BY <1>1, <1>3, <3>2, ReadersStay, Zenon DEF Receive, cacheVars
  <2> QED BY <1>1, <1>3, <2>1, <2>2, Zenon DEF FilterInv, CacheInv, GrantsAllowed, Receive,
                                               cacheVars
<1>4. ASSUME NEW q \in Queries, QueryStep(q) PROVE FilterInv'
  BY <1>1, <1>4, QueryStepKeeps, Zenon
<1>5. CASE FlushCache \/ Prune
  <2>1. CacheInv'
    BY <1>1, <1>5, PopKeeps, Zenon DEF FlushCache, Prune
  <2>2. UNCHANGED <<dns, query, direct_rules>> /\ Unlocked
    BY <1>5, Zenon DEF FlushCache, Prune
  <2>3. ReadInv'
    BY <1>1, <2>2, ReadersStay, Zenon
  <2> QED BY <1>1, <2>1, <2>2, <2>3, Zenon DEF FilterInv, QueryInv, GrantsAllowed
<1>7. CASE Tick
  <2>1. QueryInv' /\ CacheInv' /\ ReadInv'
    BY <1>1, <1>7, TickKeeps, Zenon
  <2> QED BY <1>1, <1>7, <2>1, Zenon DEF FilterInv, GrantsAllowed, Tick
<1>6. CASE DnsStopped
  <2>1. DOMAIN query' = Queries /\ dns' = "stopped"
    BY <1>6, Zenon DEF DnsStopped
  <2>2. ASSUME NEW q \in Queries PROVE QueryOK(query'[q], rule_set')
    BY <1>6, NoQueryOK, Zenon DEF DnsStopped
  <2>3. QueryInv'
    BY <2>1, <2>2, Zenon DEF QueryInv
  <2>4. ReadInv'
    BY <1>6, Zenon DEF DnsStopped, NoQuery, ReadInv
  <2> QED BY <1>1, <1>6, <2>3, <2>4, Zenon DEF FilterInv, CacheInv, GrantsAllowed, DnsStopped,
             cacheVars
<1> QED BY <1>2, <1>3, <1>4, <1>5, <1>6, <1>7, Zenon DEF DnsNext

\* The reload: no query holds the lease, and grants and cache are emptied with
\* the change of the rules.
LEMMA ReloadKeeps ==
    ASSUME FilterInv, ReloadPolicy
    PROVE  FilterInv'
<1>1. entries' = <<>> /\ direct_rules' = {} /\ UNCHANGED <<dns, query>>
  BY Zenon DEF ReloadPolicy
<1>2. DOMAIN entries' = {}
  BY <1>1
<1>3. CacheInv'
  BY <1>2, Zenon DEF CacheInv
<1>4. GrantsAllowed'
  BY <1>1, Zenon DEF GrantsAllowed
<1>5. ASSUME NEW q \in Queries PROVE QueryOK(query'[q], rule_set')
  <2>1. query[q].at \notin Leased /\ QueryOK(query[q], rule_set)
    BY Zenon DEF ReloadPolicy, FilterInv, QueryInv
  <2>2. QueryJudged(query[q], rule_set')
    BY <2>1, Zenon DEF QueryJudged, Leased
  <2> QED BY <1>1, <2>1, <2>2, Zenon DEF QueryOK
<1>6. QueryInv'
  BY <1>1, <1>5, Zenon DEF QueryInv, FilterInv
<1>7. ReadInv'
  BY <1>1, Zenon DEF ReloadPolicy, Leased, ReadInv
<1> QED BY <1>3, <1>4, <1>6, <1>7, Zenon DEF FilterInv

\* The files that a reload reads are files of the rules directory.
LEMMA PolicyStepTyped ==
    ASSUME PolicyTyped, EgressNext
    PROVE  PolicyTyped'
<1>1. CASE PolicyStep
  BY <1>1, Zenon DEF PolicyStep, BeginReload, PrepareReload, ReloadPolicy, CommitReload,
                     ReloadFails, Edit, EditRules, PolicyTyped
<1>2. CASE DnsNext \/ ProxyNext \/ RefusalOver \/ StopStep
  BY <1>2, Zenon DEF DnsNext, ProxyNext, RefusalOver, StopStep, policyVars, PolicyTyped
<1> QED BY <1>1, <1>2, Zenon DEF EgressNext

\* The initial states are in order.
LEMMA EgressInitInv ==
    ASSUME EgressInit
    PROVE  EgressInv
<1>1. PolicyTyped
  BY Zenon DEF EgressInit, PolicyInit, PolicyTyped
<1>2. TunnelInv
  <2>1. NoConn.at \in {"none", "identify", "headers", "leave"}
    BY Zenon DEF NoConn
  <2>2. Policed(NoConn)
    BY <2>1, UnjudgedPoliced
  <2> QED BY <2>2, Zenon DEF EgressInit, ProxyInit, TunnelInv, ConnFields
<1>3. CountInv
  <2>1. \A c \in Conns : conn[c].at = "none"
    BY Zenon DEF EgressInit, ProxyInit, NoConn
  <2>2. Holding = {} /\ Counted = {}
    BY <2>1, Zenon DEF Holding, Counted
  <2>3. Cardinality(Holding) = 0 /\ Cardinality(Counted) = 0
    BY <2>2, FS_EmptySet, Zenon
  <2>4. Cardinality(Holding) <= MaxConnections
    BY <2>3, EgressAssumption
  <2>5. active = 0 /\ active \in Nat
    BY DEF EgressInit, ProxyInit
  <2> QED BY <2>2, <2>3, <2>4, <2>5, Zenon DEF EgressInit, ProxyInit, CountInv
<1>4. QueryInv
  <2>1. \A q \in Queries : QueryOK(query[q], rule_set)
    BY NoQueryOK, Zenon DEF EgressInit, DnsInit
  <2> QED BY <2>1, Zenon DEF EgressInit, DnsInit, QueryInv
<1>5. CacheInv
  <2>1. DOMAIN entries = {}
    BY DEF EgressInit, DnsInit
  <2> QED BY <2>1, Zenon DEF CacheInv
<1>6. GrantsAllowed
  BY Zenon DEF EgressInit, DnsInit, GrantsAllowed
<1>7. ReadInv
  BY Zenon DEF EgressInit, DnsInit, NoQuery, ReadInv
<1> QED BY <1>1, <1>2, <1>3, <1>4, <1>5, <1>6, <1>7, Zenon DEF EgressInv, FilterInv

\* Every step of the system keeps the invariant.
LEMMA EgressNextInv ==
    ASSUME EgressInv, [EgressNext]_evars
    PROVE  EgressInv'
<1>1. PolicyTyped /\ TunnelInv /\ CountInv /\ FilterInv
  BY Zenon DEF EgressInv
<1>2. UNCHANGED proxyVars => TunnelInv' /\ CountInv'
  <2>1. UNCHANGED proxyVars => Holding' = Holding /\ Counted' = Counted
    BY Zenon DEF proxyVars, Holding, Counted
  <2>2. UNCHANGED proxyVars => TunnelInv'
    BY <1>1, Zenon DEF proxyVars, TunnelInv
  <2>3. UNCHANGED proxyVars => CountInv'
    BY <1>1, <2>1 DEF proxyVars, CountInv
  <2> QED BY <2>2, <2>3, Zenon
<1>3. UNCHANGED <<filterVars, rule_set>> => FilterInv'
  BY <1>1, Zenon DEF filterVars, cacheVars, FilterInv, QueryInv, CacheInv, ReadInv,
                    GrantsAllowed
<1>4. CASE UNCHANGED evars
  BY <1>1, <1>2, <1>3, <1>4, Zenon DEF evars, policyVars, PolicyTyped, EgressInv
<1>5. CASE EgressNext
  <2>1. PolicyTyped'
    BY <1>1, <1>5, PolicyStepTyped, Zenon
  <2>2. CASE ReloadPolicy
    BY <1>1, <2>1, <2>2, ReloadPolices, ReloadCounts, ReloadKeeps, Zenon DEF EgressInv
  <2>3. CASE BeginReload \/ ReloadFails \/ Edit
    BY <1>2, <1>3, <2>1, <2>3, Zenon DEF BeginReload, PrepareReload, ReloadFails, Edit,
                                        EditRules, EgressInv
  <2>4. CASE DnsNext
    BY <1>1, <1>2, <2>1, <2>4, FilterKeeps, Zenon DEF DnsNext, EgressInv
  <2>5. CASE ProxyNext \/ RefusalOver \/ StopStep
    <3>1. UNCHANGED <<filterVars, rule_set>>
      BY <2>5, Zenon DEF ProxyNext, RefusalOver, StopStep, policyVars
    <3> QED BY <1>1, <1>3, <2>1, <2>5, <3>1, ProxyPolices, ProxyCounts, Zenon DEF EgressInv
  <2> QED BY <1>5, <2>2, <2>3, <2>4, <2>5, Zenon DEF EgressNext, PolicyStep
<1> QED BY <1>4, <1>5, Zenon

\* The invariant of the egress path holds in every reachable state.
THEOREM EgressInvariant == EgressSpec => []EgressInv
<1>1. EgressInit => EgressInv
  BY EgressInitInv
<1>2. EgressInv /\ [EgressNext]_evars => EgressInv'
  BY EgressNextInv
<1> QED BY <1>1, <1>2, PTL DEF EgressSpec

\* Every variable of the DNS filter and of the proxy has its type, for every
\* set of containers, names, answers, connections and rule files.
THEOREM EgressTyped == EgressSpec => []EgressTypeOK
<1>1. EgressInv => EgressTypeOK
  BY Zenon DEF EgressInv, PolicyTyped, CountInv, FilterInv, QueryInv, QueryOK, QueryTyped,
               CacheInv, EntryOK, EgressTypeOK
<1> QED BY <1>1, EgressInvariant, PTL

\* No TTL that handle_request hands out, from the upstream or from the cache,
\* exceeds what is left of the upstream's by a second or more beyond the time that
\* handlers held the records, whenever the clock moves: while an entry is cached,
\* between the two readings of DnsCache::get, or before the answer is sent.
THEOREM AnswersAreFresh == EgressSpec => []AnswerFresh
<1>1. EgressInv => AnswerFresh
  BY Zenon DEF EgressInv, FilterInv, QueryInv, QueryOK, QueryFresh, Fresh, AnswerFresh
<1> QED BY <1>1, EgressInvariant, PTL

\* No direct_ip grant outlives the rules that gave it: whatever reloads happen
\* between evaluation and insertion, the rules in force allow every grant.
THEOREM GrantsAreAllowed == EgressSpec => []GrantsAllowed
<1>1. EgressInv => GrantsAllowed
  BY Zenon DEF EgressInv, FilterInv
<1> QED BY <1>1, EgressInvariant, PTL

\* Every relayed connection has its target, its names and its address from one
\* rule set, whatever reloads happen while it is judged.
THEOREM TunnelsArePoliced == EgressSpec => []TunnelPoliced
<1>1. ASSUME EgressInv PROVE TunnelPoliced
  <2>1. SUFFICES ASSUME NEW c \in Conns, conn[c].at = "relay"
                 PROVE  \E rules \in conn[c].during :
                            LET ctx(site) == RequestContext(c, conn[c].method, site)
                                target == EvaluateWithEgress(rules, ctx(conn[c].host))
                            IN  /\ target.allow
                                /\ \A n \in conn[c].names :
                                      EvaluateSnapshot(rules, ctx(n)).allow
                                /\ \A a \in conn[c].addrs :
                                      Restricted(a) => target.egress.private
    BY Zenon DEF TunnelPoliced
  <2>2. PICK rules \in conn[c].during :
            /\ AllowedBy(conn[c], rules)
            /\ \A a \in conn[c].addrs :
                  Restricted(a) => Verdict(conn[c], rules, conn[c].host).egress.private
    BY <1>1, <2>1, Zenon DEF EgressInv, TunnelInv, Policed
  <2> QED BY <2>2, Zenon DEF AllowedBy, Verdict, RequestContext
<1> QED BY <1>1, EgressInvariant, PTL

\* The connection count that the proxy reports is exact and within the limit.
THEOREM ActiveIsExact == EgressSpec => []ActiveExact
<1>1. ASSUME EgressInv PROVE ActiveExact
  <2>1. CountInv
    BY <1>1, Zenon DEF EgressInv
  <2>2. Counted \subseteq Holding
    BY Zenon DEF Counted
  <2>3. Cardinality(Counted) <= Cardinality(Holding)
    BY <2>2, FiniteConnections, FS_Subset
  <2>4. Cardinality(Counted) <= MaxConnections
    BY <2>1, <2>3, FiniteConnections, EgressAssumption DEF CountInv
  <2> QED BY <2>1, <2>4, Zenon DEF CountInv, ActiveExact
<1> QED BY <1>1, EgressInvariant, PTL

=============================================================================
