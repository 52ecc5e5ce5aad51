----------------------------- MODULE DnsFilter ------------------------------
(***************************************************************************)
(* The DNS filter: queries of the containers, judged by the rules, answered *)
(* from the cache or from the upstream resolver, stripped of restricted    *)
(* addresses and, for direct_ip rules, turned into dynamic rules.          *)
(*                                                                         *)
(* Time is counted in half seconds, because TTLs are whole seconds and the *)
(* cache rounds.  No clock is needed: cache entries carry their age, and   *)
(* what a handler has in hand carries the time since the upstream answered *)
(* (age) and the part of it that handlers held the records (held), before  *)
(* they were cached and after.  The age of an entry stops a second after   *)
(* it has expired, where it makes no difference any more.                  *)
(*                                                                         *)
(* A dynamic rule inserted here is kept as the set of what was granted;    *)
(* its life in nftables is the subject of DynamicRules, and its expiry     *)
(* that of DynamicLifecycle.                                               *)
(***************************************************************************)
EXTENDS RulePolicy

CONSTANTS Queries,   \* queries handled at the same time
          Agents,    \* managed containers, each with an address of its own
          Hosts,     \* canonical host names
          Local,     \* the ones under .local
          Answers,   \* what the upstream resolver can answer
          Capacity,  \* MAX_ENTRIES
          MaxTtl,    \* MAX_TTL_SECS
          MaxHeld    \* bound: half seconds that handlers hold an answer

VARIABLES dns,       \* the server: "down", "up", "stopping" or "stopped"
          query,     \* the queries being handled
          entries,   \* DnsCache.entries: what is cached of each cached name
          recent,    \* the cached names, most recently used first
          direct_rules \* dynamic rules inserted for direct_ip answers

cacheVars == <<entries, recent>>
filterVars == <<dns, query, cacheVars, direct_rules>>

\* An address record has one of these addresses, any other record an alias.
Addresses == {"public4", "private4", "public6"}
Alias == "alias"
IsRestricted(a) == a = "private4"

NoQuery == [at |-> "idle", host |-> "", agent |-> "", egress |-> NoEgress,
            records |-> {}, todo |-> {}, age |-> 0, held |-> 0]

\* Mutant: the lease is dropped before the grants are inserted.
LeasedShort == {"cache", "read", "lookup", "store"}

\* The states of a handler in which it holds the policy lease.
Leased == {"cache", "read", "lookup", "store", "enforce", "grant"}

\* Those in which it has an answer in hand.
InHand == {"store", "enforce", "grant"}

\* The mutex of the cache is held from one clock reading of DnsCache::get to the
\* next; all other uses of the cache are single steps.
Unlocked == \A q \in Queries : query[q].at # "read"

DnsInit ==
    /\ dns = "down"
    /\ query = [q \in Queries |-> NoQuery]
    /\ entries = <<>>
    /\ recent = <<>>
    /\ direct_rules = {}

\* DnsServer::start, which the daemon calls once.  A failure to bind leaves the
\* server down.
DnsStart ==
    /\ dns = "down"
    /\ dns' = "up"
    /\ UNCHANGED <<query, cacheVars, direct_rules>>

EndQuery(q) == query' = [query EXCEPT ![q] = NoQuery]
MoveTo(q, where) == query' = [query EXCEPT ![q].at = where]

-----------------------------------------------------------------------------
(* The cache. *)

MinTtl(records) == CHOOSE t \in {r.ttl : r \in records} : \A r \in records : t <= r.ttl
LesserOf(a, b) == IF a <= b THEN a ELSE b
Expired(entry) == entry.age >= 2 * entry.ttl

\* LruCache::pop of some names, LruCache::get and LruCache::put of a name: the
\* lru library.  A new name pushes out the least recently used one of a full cache.
Pop(hosts) ==
    /\ entries' = [h \in DOMAIN entries \ hosts |-> entries[h]]
    /\ recent' = SelectSeq(recent, LAMBDA h : h \notin hosts)

Use(host) ==
    /\ recent' = <<host>> \o SelectSeq(recent, LAMBDA h : h # host)
    /\ UNCHANGED entries

Put(host, entry) ==
    LET full == host \notin DOMAIN entries /\ Cardinality(DOMAIN entries) >= Capacity
        out == IF full THEN {recent[Len(recent)]} ELSE {}
    IN  /\ entries' = [h \in (DOMAIN entries \ out) \cup {host} |->
                         IF h = host THEN entry ELSE entries[h]]
        /\ recent' = <<host>> \o SelectSeq(recent, LAMBDA h : h \notin out \cup {host})

\* Mutant: the TTL is not reduced by the time spent in the cache.
RemainingFull(entry) == entry.ttl

\* DnsCache::get on a live entry: every record gets the entry's remaining
\* whole seconds, none if it expired since it was found live.
Remaining(entry) ==
    IF entry.age \div 2 <= entry.ttl THEN entry.ttl - entry.age \div 2 ELSE 0
CachedRecords(entry) == {[r EXCEPT !.ttl = Remaining(entry)] : r \in entry.records}

\* DnsCache::insert: nothing is kept of an empty answer or of one with a zero TTL.
\* Its age starts now, whatever time the handler held it.
Insert(host, records, held) ==
    IF records = {} \/ MinTtl(records) = 0 THEN UNCHANGED cacheVars
    ELSE Put(host, [records |-> records, age |-> 0, held |-> held,
                    ttl |-> LesserOf(MinTtl(records), MaxTtl)])

\* prune_expired, which the status and listing endpoints run.
Prune ==
    LET expired == {h \in DOMAIN entries : Expired(entries[h])} IN
    /\ Unlocked
    /\ expired # {}
    /\ Pop(expired)
    /\ UNCHANGED <<dns, query, direct_rules>>

\* POST /dns/cache/flush.
FlushCache ==
    /\ Unlocked
    /\ DOMAIN entries # {}
    /\ Pop(DOMAIN entries)
    /\ UNCHANGED <<dns, query, direct_rules>>

-----------------------------------------------------------------------------
(* A query. *)

\* The name is used without its trailing dots and in lower case.
Canonical(name) == name.host

Receive(q, name, a) ==
    /\ dns = "up"
    /\ query[q].at = "idle"
    /\ query' = [query EXCEPT ![q] = [NoQuery EXCEPT !.at = "identify",
                                        !.host = Canonical(name), !.agent = a]]
    /\ UNCHANGED <<dns, cacheVars, direct_rules>>

\* The source address is looked up; an unmanaged peer, or a failing lookup, is
\* refused, and a .local name does not exist.
Identify(q, managed) ==
    /\ query[q].at = "identify"
    /\ IF managed /\ query[q].host \notin Local THEN MoveTo(q, "evaluate") ELSE EndQuery(q)
    /\ UNCHANGED <<dns, cacheVars, direct_rules>>

QueryContext(q) == [via |-> "dns", host |-> query[q].host, agent |-> query[q].agent]

\* The policy lease is taken, and the rules are asked.
Evaluate(q) ==
    LET verdict == EvaluateWithEgress(rule_set, QueryContext(q)) IN
    /\ query[q].at = "evaluate"
    /\ query' = [query EXCEPT ![q] =
                   IF verdict.allow THEN [@ EXCEPT !.at = "cache", !.egress = verdict.egress]
                   ELSE NoQuery]
    /\ UNCHANGED <<dns, cacheVars, direct_rules>>

\* DnsCache::get: the clock is read to drop an expired entry.
CacheGet(q) ==
    LET host == query[q].host IN
    /\ query[q].at = "cache"
    /\ Unlocked
    /\ IF host \in DOMAIN entries /\ ~Expired(entries[host])
       THEN MoveTo(q, "read") /\ UNCHANGED cacheVars
       ELSE MoveTo(q, "lookup") /\ Pop({host})
    /\ UNCHANGED <<dns, direct_rules>>

\* It is read again for the TTL of the records that a live one gives.
CacheRead(q) ==
    LET entry == entries[query[q].host] IN
    /\ query[q].at = "read"
    /\ query' = [query EXCEPT ![q].at = "enforce", ![q].records = CachedRecords(entry),
                              ![q].age = entry.held + entry.age, ![q].held = entry.held]
    /\ Use(query[q].host)
    /\ UNCHANGED <<dns, direct_rules>>

\* The upstream resolver answers, or the query fails.  upttl keeps what the
\* upstream said.
Lookup(q) ==
    /\ query[q].at = "lookup"
    /\ \/ EndQuery(q)
       \/ \E answer \in Answers :
             query' = [query EXCEPT ![q].at = "store", ![q].records =
                         {[addr |-> r.addr, ttl |-> r.ttl, upttl |-> r.ttl] : r \in answer}]
    /\ UNCHANGED <<dns, cacheVars, direct_rules>>

Store(q) ==
    /\ query[q].at = "store"
    /\ Unlocked
    /\ MoveTo(q, "enforce")
    /\ Insert(query[q].host, query[q].records, query[q].held)
    /\ UNCHANGED <<dns, direct_rules>>

\* apply_address_policy.
FilterRestricted(records, private) ==
    IF private THEN records ELSE {r \in records : ~IsRestricted(r.addr)}
HasAddress(records) == \E r \in records : r.addr \in Addresses
RestrictedOnly(records, private) ==
    HasAddress(records) /\ ~HasAddress(FilterRestricted(records, private))

\* matching_direct_destinations: containers have IPv4 addresses, and a rule
\* joins addresses of one family.
DirectDestinations(records) == {r.addr : r \in records} \cap {"public4", "private4"}

\* direct_rule_ttl: the smallest TTL of the answer, capped; none when zero.
DirectTtl(records) ==
    IF records = {} THEN 0 ELSE LesserOf(MinTtl(records), MaxTtl)

\* enforce_and_send up to apply_direct_ip_policy: restricted addresses are
\* taken out, and an answer with no other address fails.
Enforce(q) ==
    LET egress == query[q].egress
        kept == FilterRestricted(query[q].records, egress.private)
        todo == IF egress.mode = "direct" /\ DirectTtl(kept) > 0
                THEN DirectDestinations(kept) ELSE {}
    IN
    /\ query[q].at = "enforce"
    /\ query' = [query EXCEPT ![q] =
                   IF RestrictedOnly(@.records, egress.private) THEN NoQuery
                   ELSE [@ EXCEPT !.at = "grant", !.records = kept, !.todo = todo]]
    /\ UNCHANGED <<dns, cacheVars, direct_rules>>

\* insert_direct_rules for one destination.  An insertion that fails is
\* logged and the next destination is tried.
InsertDirect(q, addr, inserted) ==
    /\ query[q].at = "grant"
    /\ addr \in query[q].todo
    /\ query' = [query EXCEPT ![q].todo = @ \ {addr}]
    /\ direct_rules' = IF inserted
                 THEN direct_rules \cup {[host |-> query[q].host, agent |-> query[q].agent,
                                          addr |-> addr]}
                 ELSE direct_rules
    /\ UNCHANGED <<dns, cacheVars>>

\* send_answer; the handler returns and drops its lease.
Answer(q) ==
    /\ query[q].at = "grant"
    /\ query[q].todo = {}
    /\ EndQuery(q)
    /\ UNCHANGED <<dns, cacheVars, direct_rules>>

QueryStep(q) ==
    \/ \E managed \in BOOLEAN : Identify(q, managed)
    \/ Evaluate(q)
    \/ CacheGet(q)
    \/ CacheRead(q)
    \/ Lookup(q)
    \/ Store(q)
    \/ Enforce(q)
    \/ \E addr \in Addresses, inserted \in BOOLEAN : InsertDirect(q, addr, inserted)
    \/ Answer(q)

-----------------------------------------------------------------------------
(* Shutdown. *)

\* The token is cancelled: no query is accepted any more.
DnsShutdown ==
    /\ dns = "up"
    /\ dns' = "stopping"
    /\ UNCHANGED <<query, cacheVars, direct_rules>>

\* The server task ends once its handlers have; after ten seconds it is
\* aborted, and the handlers with it.
DnsStopped ==
    /\ dns = "stopping"
    /\ Unlocked
    /\ dns' = "stopped"
    /\ query' = [q \in Queries |-> NoQuery]
    /\ UNCHANGED <<cacheVars, direct_rules>>

\* Half a second passes for a cached answer, and for the one of a query.
Aged(entry) == [entry EXCEPT !.age = LesserOf(@ + 1, 2 * entry.ttl + 2)]
Older(x) == IF x.at \in InHand THEN [x EXCEPT !.age = @ + 1, !.held = @ + 1] ELSE x
=============================================================================
