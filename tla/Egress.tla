------------------------------- MODULE Egress -------------------------------
(***************************************************************************)
(* The two ways out of a container, the DNS filter and the HTTP proxy,     *)
(* under one rule engine whose rules are edited and reloaded meanwhile.    *)
(*                                                                         *)
(* The two services share nothing but the rules.  With Apart = TRUE a      *)
(* behaviour starts one of them only, which keeps the instance small       *)
(* without hiding an interaction of either with the rules.                 *)
(***************************************************************************)
EXTENDS DnsFilter, ProxyServer

CONSTANTS Apart,      \* bound: one of the two services is started
          MaxReloads  \* bound: reloads begun

VARIABLE reloads      \* reloads left

evars == <<policyVars, filterVars, proxyVars, reloads>>

ASSUME EgressAssumption ==
    /\ Apart \in BOOLEAN
    /\ MaxReloads \in Nat
    /\ {Capacity, MaxConnections} \subseteq Nat \ {0}
    /\ {MaxTtl, MaxHeld} \subseteq Nat
    /\ IsFiniteSet(Conns)
    /\ Answers \subseteq SUBSET [addr : Addresses \cup {Alias}, ttl : Nat]
    /\ \A a \in Answers : a # {} => \E r \in a : \A s \in a : r.ttl <= s.ttl

EgressInit ==
    /\ PolicyInit
    /\ DnsInit
    /\ ProxyInit
    /\ reloads = MaxReloads

\* The reload takes the write lease: no query holds a read lease.  The grants
\* are revoked, the cache is cleared, and the prepared rules come into force.
ReloadPolicy ==
    /\ \A q \in Queries : query[q].at \notin Leased
    /\ CommitReload
    /\ direct_rules' = {}
    /\ entries' = <<>>
    /\ recent' = <<>>
    /\ conn' = [c \in Conns |-> [conn[c] EXCEPT !.during =
                   IF conn[c].at \in {"resolve", "hello"} THEN @ \cup {rule_set'} ELSE @]]
    /\ UNCHANGED <<dns, query, proxy, loop, signal, slow, active, cut, reloads>>

\* The grants could not be revoked: the reload fails and the old rules stay.
ReloadFails ==
    /\ prepared_files # {}
    /\ prepared_files' = {}
    /\ UNCHANGED <<disk, rule_set, source, filterVars, proxyVars, reloads>>

BeginReload ==
    /\ reloads > 0
    /\ reloads' = reloads - 1
    /\ PrepareReload
    /\ UNCHANGED <<filterVars, proxyVars>>

Edit ==
    /\ reloads > 0
    /\ \E dir \in Dirs : EditRules(dir)
    /\ UNCHANGED <<filterVars, proxyVars, reloads>>

PolicyStep == BeginReload \/ ReloadPolicy \/ ReloadFails \/ Edit

\* Names arrive with or without the trailing dot of a fully qualified name.
RawNames == [host : Hosts, dotted : BOOLEAN]

\* Half a second passes, for what is cached and for the answers in hand: a
\* handler waits for the cache, for Docker and for nft before it answers.
Tick ==
    /\ \A q \in Queries : query[q].at \in InHand => query[q].held < MaxHeld
    /\ entries' = [h \in DOMAIN entries |-> Aged(entries[h])]
    /\ query' = [q \in Queries |-> Older(query[q])]
    /\ UNCHANGED <<dns, recent, direct_rules>>

DnsNext ==
    /\ \/ DnsStart /\ (Apart => proxy = "down")
       \/ \E q \in Queries, name \in RawNames, a \in Agents : Receive(q, name, a)
       \/ \E q \in Queries : QueryStep(q)
       \/ FlushCache
       \/ Prune
       \/ Tick
       \/ DnsShutdown
       \/ DnsStopped
    /\ UNCHANGED <<policyVars, proxyVars, reloads>>

ProxyNext ==
    /\ \/ ProxyStart /\ (Apart => dns = "down")
       \/ \E c \in Conns, a \in Clients : Accept(c, a)
       \/ Refuse
       \/ \E c \in Conns : Task(c) \/ ReleasePermit(c)
       \/ ProxyShutdown
    /\ UNCHANGED <<policyVars, filterVars, reloads>>

\* A refusal is over within a second; the loop, once it sees the signal, stops
\* within the grace period, and shutdown() does not wait beyond its deadline.
RefusalOver == Refused /\ UNCHANGED <<policyVars, filterVars, reloads>>
StopStep ==
    /\ SeeShutdown \/ Drained \/ Deadline
    /\ UNCHANGED <<policyVars, filterVars, reloads>>

EgressNext == PolicyStep \/ DnsNext \/ ProxyNext \/ RefusalOver \/ StopStep

\* The timers and the accept loop run; nothing is assumed of the clients.
EgressFairness == WF_evars(RefusalOver) /\ WF_evars(StopStep)

EgressSpec == EgressInit /\ [][EgressNext]_evars /\ EgressFairness

-----------------------------------------------------------------------------
(* Properties. *)

\* The records of an answer, with the TTL the upstream gave them, and cache entries.
Records == [addr : Addresses \cup {Alias}, ttl : Nat, upttl : Nat]
Entries == [records : SUBSET Records, age : Nat, held : Nat, ttl : Nat]

\* Every variable has its type.
EgressTypeOK ==
    /\ disk \in Dirs
    /\ prepared_files \subseteq Dirs
    /\ dns \in {"down", "up", "stopping", "stopped"}
    /\ \A q \in Queries :
          /\ query[q].at \in {"idle", "identify", "evaluate", "cache", "read", "lookup",
                             "store", "enforce", "grant"}
          /\ query[q].records \subseteq Records
          /\ query[q].todo \subseteq Addresses
          /\ {query[q].age, query[q].held} \subseteq Nat
    /\ DOMAIN entries \subseteq Hosts
    /\ \A h \in DOMAIN entries : entries[h] \in Entries
    /\ proxy \in {"down", "up", "draining", "stopped"}
    /\ loop \in {"off", "accept", "refuse", "drain"}
    /\ {signal, slow, cut} \subseteq BOOLEAN
    /\ active \in Nat

\* The definitions a condition needs, directly or through others.
NeededBy(cond, defs) ==
    LET grow[k \in Nat] == IF k = 0 THEN cond.refs
                           ELSE grow[k-1] \cup UNION {defs[n].refs : n \in grow[k-1]}
    IN  grow[Cardinality(DOMAIN defs)]

\* The reference for evaluation, read off the files without expanding or
\* sorting them: of the rules whose own and needed facts hold, the one with the
\* least priority decides, and among equals the one written first.
Demanded(spec, file) ==
    spec.cond.facts \cup UNION {file.defs[n].facts : n \in NeededBy(spec.cond, file.defs)}
PriorityOf(spec) == IF spec.priority = {} THEN DefaultPriority
                    ELSE CHOOSE p \in spec.priority : TRUE
RulePlaces(dir) ==
    {p \in (1..Len(dir)) \X (1..MaxRules) : p[2] \in DOMAIN dir[p[1]].rules}
Before(dir, a, b) ==
    LET pa == PriorityOf(dir[a[1]].rules[a[2]])
        pb == PriorityOf(dir[b[1]].rules[b[2]])
    IN  \/ pa < pb
        \/ pa = pb /\ (a[1] < b[1] \/ (a[1] = b[1] /\ a[2] <= b[2]))
ReferenceVerdict(dir, ctx) ==
    LET hits == {p \in RulePlaces(dir) :
                   LET need == Demanded(dir[p[1]].rules[p[2]], dir[p[1]])
                   IN  Raises \notin need /\ need \subseteq Facts(ctx)}
        first == CHOOSE p \in hits : \A r \in hits : Before(dir, p, r)
        spec == dir[first[1]].rules[first[2]]
    IN  IF hits = {} THEN [allow |-> FALSE, egress |-> NoEgress]
        ELSE [allow |-> spec.action = "allow", egress |-> spec.egress]

Contexts == [via : {"dns", "connect", "http"}, host : Hosts, agent : Agents]

\* A rule set that comes into force judges every request as the files it came
\* from say: loading, expansion of definitions, the stable sort and the first
\* match together amount to the reference.
FilesDecide ==
    \A ctx \in Contexts : EvaluateWithEgress(rule_set, ctx) = ReferenceVerdict(source, ctx)
VerdictByFiles == [][source' # source => FilesDecide']_evars

\* Up to the moment it is sent, an answer does not outlive what the upstream
\* allowed by more than it must: a TTL that is not zero exceeds what is left of
\* the upstream's by less than the second that the cache rounds off and the time
\* that handlers themselves held the records, this one before it answers and the
\* one that cached them before it did.  Time spent in the cache is never lost,
\* however the two clock readings of a hit and the expiry fall.
AnswerFresh ==
    \A q \in Queries : query[q].at \in {"enforce", "grant"} =>
        \A r \in query[q].records :
            r.ttl > 0 => 2 * r.ttl < 2 * r.upttl - query[q].age + 2 + query[q].held

\* Every direct_ip grant is one that the rules in force would give again: its
\* host is allowed to its container with direct_ip, and its address is not
\* restricted unless the rule says so.  No handler that was evaluated before a
\* reload leaves a grant behind it.
GrantsAllowed ==
    \A g \in direct_rules :
        LET verdict == EvaluateWithEgress(rule_set,
                          [via |-> "dns", host |-> g.host, agent |-> g.agent])
        IN  /\ verdict.allow
            /\ verdict.egress.mode = "direct"
            /\ IsRestricted(g.addr) => verdict.egress.private

\* A connection that reached its target did so under one policy: a single rule
\* set, in force at some moment while the request was judged, allows the
\* target, every host name the upstream is told and the address it goes to.
TunnelPoliced ==
    \A c \in Conns : conn[c].at = "relay" =>
        \E rules \in conn[c].during :
            LET ctx(site) == RequestContext(c, conn[c].method, site)
                target == EvaluateWithEgress(rules, ctx(conn[c].host))
            IN  /\ target.allow
                /\ \A n \in conn[c].names : EvaluateSnapshot(rules, ctx(n)).allow
                /\ \A a \in conn[c].addrs : Restricted(a) => target.egress.private

\* The count that the status reports is the number of connections being
\* handled and never above the limit; after an orderly stop it is zero.
ActiveExact ==
    /\ proxy # "stopped" => /\ active = Cardinality(Counted)
                            /\ active <= MaxConnections
    /\ proxy = "stopped" /\ ~cut => active = 0

\* A shutdown of the proxy ends, whatever the clients do, and leaves no
\* connection behind.
ShutdownEnds ==
    signal ~> (proxy = "stopped" /\ Holding = {})
=============================================================================
