------------------------ MODULE AgentSessionsProofs ------------------------
(***************************************************************************)
(* Proofs about ContainerIdentity and AgentSessions: what the identity     *)
(* cache and the session registry say of a container is right, or the      *)
(* correction is on its way, or the exit was one that nobody could see.    *)
(***************************************************************************)
EXTENDS AgentSessions, FiniteSetTheorems, TLAPS

-----------------------------------------------------------------------------
(* Messages in a sequence.                                                 *)

\* No event, and an empty queue.
LEMMA SeqEmpty ==
  ASSUME NEW S
  PROVE  <<>> \in Seq(S) /\ Len(<<>>) = 0
OBVIOUS

\* The events of a stream.
LEMMA SeqLen ==
  ASSUME NEW S, NEW s \in Seq(S)
  PROVE  Len(s) \in Nat /\ (s = <<>> <=> Len(s) = 0) /\ \A i \in 1 .. Len(s) : s[i] \in S
<1>1. Len(s) \in Nat /\ \A i \in 1 .. Len(s) : s[i] \in S OBVIOUS
<1>2. s = <<>> <=> Len(s) = 0 OBVIOUS
<1> QED BY <1>1, <1>2

\* Taking the first one.
LEMMA SeqHeadTail ==
  ASSUME NEW S, NEW s \in Seq(S), s # <<>>
  PROVE  /\ Head(s) = s[1] /\ Head(s) \in S
         /\ Tail(s) \in Seq(S) /\ Len(Tail(s)) = Len(s) - 1
         /\ \A i \in 1 .. Len(s) - 1 : Tail(s)[i] = s[i + 1]
<1>1. Head(s) = s[1] OBVIOUS
<1>2. Head(s) \in S OBVIOUS
<1>3. Tail(s) \in Seq(S) OBVIOUS
<1>4. Len(Tail(s)) = Len(s) - 1 OBVIOUS
<1>5. \A i \in 1 .. Len(s) - 1 : Tail(s)[i] = s[i + 1] OBVIOUS
<1> QED BY <1>1, <1>2, <1>3, <1>4, <1>5

\* Events are added to a stream.
LEMMA SeqConcat ==
  ASSUME NEW S, NEW s \in Seq(S), NEW t \in Seq(S)
  PROVE  /\ s \o t \in Seq(S) /\ Len(s \o t) = Len(s) + Len(t)
         /\ \A i \in 1 .. Len(s) + Len(t) : (s \o t)[i] =
              IF i <= Len(s) THEN s[i] ELSE t[i - Len(s)]
<1>1. s \o t \in Seq(S) OBVIOUS
<1>2. Len(s \o t) = Len(s) + Len(t) OBVIOUS
<1>3. \A i \in 1 .. Len(s) + Len(t) : (s \o t)[i] =
        IF i <= Len(s) THEN s[i] ELSE t[i - Len(s)]
  OBVIOUS
<1> QED BY <1>1, <1>2, <1>3

\* A message is sent to a queue.
LEMMA SeqAppend ==
  ASSUME NEW S, NEW s \in Seq(S), NEW x \in S
  PROVE  /\ Append(s, x) \in Seq(S) /\ Len(Append(s, x)) = Len(s) + 1
         /\ \A i \in 1 .. Len(s) + 1 : Append(s, x)[i] = IF i <= Len(s) THEN s[i] ELSE x
<1>1. Append(s, x) \in Seq(S) OBVIOUS
<1>2. Len(Append(s, x)) = Len(s) + 1 OBVIOUS
<1>3. \A i \in 1 .. Len(s) + 1 : Append(s, x)[i] =
        IF i <= Len(s) THEN s[i] ELSE x
  OBVIOUS
<1> QED BY <1>1, <1>2, <1>3

Has(s, x) == \E i \in 1 .. Len(s) : s[i] = x

\* What was in an event stream, or in a consumer's queue, is in it after more was
\* appended.
LEMMA HasConcat ==
  ASSUME NEW S, NEW s \in Seq(S), NEW e \in Seq(S), NEW x, Has(s, x) \/ Has(e, x)
  PROVE  Has(s \o e, x)
<1>1. Len(s \o e) = Len(s) + Len(e) /\ Len(s) \in Nat /\ Len(e) \in Nat
  BY Zenon, SeqConcat, SeqLen
<1>2. ASSUME NEW i \in 1 .. Len(s) PROVE (s \o e)[i] = s[i] /\ i \in 1 .. Len(s \o e)
  BY <1>1, SeqConcat
<1>3. ASSUME NEW i \in 1 .. Len(e)
      PROVE  (s \o e)[i + Len(s)] = e[i] /\ i + Len(s) \in 1 .. Len(s \o e)
  <2>1. i + Len(s) \in 1 .. Len(s) + Len(e) /\ ~(i + Len(s) <= Len(s))
        /\ i + Len(s) - Len(s) = i
    BY <1>1
  <2> QED BY <1>1, <2>1, SeqConcat
<1> QED BY Zenon, <1>2, <1>3 DEF Has

\* Taking the first message of a queue loses no other.
LEMMA HasTail ==
  ASSUME NEW S, NEW s \in Seq(S), s # <<>>, NEW x, Has(s, x), Head(s) # x
  PROVE  Has(Tail(s), x)
<1>1. PICK i \in 1 .. Len(s) : s[i] = x BY Zenon DEF Has
<1>2. s[1] = Head(s) BY SeqHeadTail
<1>3. i - 1 \in 1 .. Len(Tail(s)) /\ Tail(s)[i - 1] = s[i]
  <2>1. Len(Tail(s)) = Len(s) - 1 /\ Len(s) \in Nat BY Zenon, SeqHeadTail, SeqLen
  <2>2. i # 1 BY Zenon, <1>1, <1>2
  <2>3. i - 1 \in 1 .. Len(Tail(s)) BY <2>1, <2>2
  <2> QED BY <2>3, <2>1, SeqHeadTail
<1> QED BY Zenon, <1>1, <1>3 DEF Has

-----------------------------------------------------------------------------
(* ContainerIdentity: types.  IdTypeOK in groups, with which containers    *)
(* have an address and which tasks work on one.                            *)

Statuses == {"absent", "running", "stopped", "removed"}
Places   == {"start", "list", "install", "subscribe", "listen", "inspect", "record",
             "broken"}

DockerTypes ==
  /\ status \in [Ids -> Statuses]
  /\ addr \in [Ids -> Ips \cup {NoIp}]
  /\ \A id \in Ids : status[id] = "running" <=> addr[id] # NoIp
  /\ live \in BOOLEAN
  /\ stream \in Seq(Event)
  /\ missed \subseteq Ids
  /\ changes \in 0 .. MaxChanges

WatchTypes ==
  /\ wpc \in Places
  /\ wid \in Owner
  /\ wpc \in {"inspect", "record"} <=> wid \in Ids
  /\ wip \in Ips \cup {NoIp}
  /\ wsnap \in Entries

CacheTypes == entries \in Entries /\ healthy \in BOOLEAN /\ fresh \subseteq Lookups

LookupTypes ==
  /\ lpc \in [Lookups -> {"idle", "list", "install"}]
  /\ lip \in [Lookups -> Ips \cup {NoIp}]
  /\ lsnap \in [Lookups -> Entries]

ApiTypes ==
  /\ apc \in [Apis -> {"idle", "inspect", "record", "forget"}]
  /\ aid \in [Apis -> Owner]
  /\ \A t \in Apis : apc[t] # "idle" => aid[t] \in Ids
  /\ aip \in [Apis -> Ips \cup {NoIp}]

CastTypes ==
  /\ queue \in [Consumers -> Seq(Event \cup {Reset})]
  /\ lagged \in [Consumers -> BOOLEAN]

IdTypes ==
  /\ DockerTypes /\ WatchTypes /\ CacheTypes /\ LookupTypes /\ ApiTypes /\ CastTypes
  /\ breaks \in 0 .. MaxBreaks

\* The groups together say what IdTypeOK says.
LEMMA IdTypesSuffice == IdTypes => IdTypeOK
BY Zenon DEF IdTypes, DockerTypes, WatchTypes, CacheTypes, LookupTypes, ApiTypes, CastTypes,
       IdTypeOK, Statuses, Places

\* Docker's changes append events of managed containers to an open stream.
LEMMA ChangeTypes ==
  ASSUME stream \in Seq(Event), changes \in 0 .. MaxChanges, NEW e \in Seq(Event), Change(e)
  PROVE  stream' \in Seq(Event) /\ changes' \in 0 .. MaxChanges
<1>1. MaxChanges \in Nat BY Zenon, IdentityAssumption
<1>2. stream \o e \in Seq(Event) BY Zenon, SeqConcat
<1> QED BY <1>1, <1>2 DEF Change

\* What Docker does, for the API or for anybody else, keeps its state well formed.
LEMMA DockerOpTypes ==
  ASSUME DockerTypes, NEW id \in Ids,
         \/ \E ip \in Ips : DockerRun(id, ip)
         \/ \E to \in {"stopped", "removed"} : DockerExit(id, to)
         \/ DockerRemove(id)
         \/ \E kind \in Signals : DockerSignal(id, kind)
  PROVE  DockerTypes'
<1> USE DEF DockerTypes
<1>n. NoIp \notin Ips BY Zenon, IdentityAssumption
<1>0. \A k \in Kinds : [kind |-> k, id |-> id] \in Event BY Zenon DEF Event
<1>1. \A k \in Kinds : <<[kind |-> k, id |-> id]>> \in Seq(Event)
  BY <1>0
<1>2. <<[kind |-> "die", id |-> id], [kind |-> "destroy", id |-> id]>> \in Seq(Event)
  BY <1>0 DEF Kinds
<1>3. ASSUME NEW ip \in Ips, DockerRun(id, ip) PROVE DockerTypes'
  <2>1. stream' \in Seq(Event) /\ changes' \in 0 .. MaxChanges
    BY Zenon, <1>1, <1>3, ChangeTypes DEF DockerRun, Kinds
  <2> QED BY Zenon, <1>3, <1>n, <2>1 DEF DockerRun, Statuses
<1>4. ASSUME NEW to \in {"stopped", "removed"}, DockerExit(id, to) PROVE DockerTypes'
  <2>1. stream' \in Seq(Event) /\ changes' \in 0 .. MaxChanges
    BY Zenon, <1>1, <1>2, <1>4, ChangeTypes DEF DockerExit, Kinds
  <2> QED BY Zenon, <1>4, <2>1 DEF DockerExit, Statuses
<1>5. CASE DockerRemove(id)
  <2>1. stream' \in Seq(Event) /\ changes' \in 0 .. MaxChanges
    BY Zenon, <1>1, <1>5, ChangeTypes DEF DockerRemove, Kinds
  <2> QED BY Zenon, <1>5, <2>1 DEF DockerRemove, Statuses
<1>6. ASSUME NEW kind \in Signals, DockerSignal(id, kind) PROVE DockerTypes'
  <2>1. stream' \in Seq(Event) /\ changes' \in 0 .. MaxChanges
    BY Zenon, <1>1, <1>6, ChangeTypes DEF DockerSignal, Kinds
  <2> QED BY Zenon, <1>6, <2>1 DEF DockerSignal
<1> QED BY Zenon, <1>3, <1>4, <1>5, <1>6

\* What the cache is replaced by names only containers and the cached addresses.
LEMMA EntriesTypes ==
  /\ NoEntry \in Entries
  /\ Listed \in Entries
  /\ \A e \in Entries, id \in Ids : Forget(e, id) \in Entries
  /\ \A e \in Entries, id \in Ids : \A ip : Recorded(e, id, ip) \in Entries
<1>1. NoEntry \in Entries BY Zenon DEF NoEntry, Entries, Owner
<1>2. Listed \in Entries BY Zenon DEF Listed, Entries, Owner
<1>3. \A e \in Entries, id \in Ids : Forget(e, id) \in Entries
  BY Zenon DEF Forget, Entries, Owner
<1>4. ASSUME NEW e \in Entries, NEW id \in Ids, NEW ip PROVE Recorded(e, id, ip) \in Entries
  BY Zenon, <1>3 DEF Recorded, Entries, Owner
<1> QED BY Zenon, <1>1, <1>2, <1>3, <1>4

\* tx.send delivers to every consumer, and drops what does not fit.
LEMMA SendTypes ==
  ASSUME CastTypes, NEW m \in Event \cup {Reset}, Send(m)
  PROVE  CastTypes'
<1> DEFINE M == Event \cup {Reset}
<1>1. ASSUME NEW c \in Consumers
      PROVE  (IF Len(queue[c]) < Capacity THEN Append(queue[c], m)
              ELSE Append(Tail(queue[c]), m)) \in Seq(M)
  <2>1. queue[c] \in Seq(M) BY Zenon DEF CastTypes
  <2>2. Len(queue[c]) >= Capacity => queue[c] # <<>>
    BY <2>1, IdentityAssumption, SeqEmpty, SeqLen
  <2>3. Len(queue[c]) >= Capacity => Tail(queue[c]) \in Seq(M)
    BY Zenon, <2>1, <2>2, SeqHeadTail
  <2>4. Len(queue[c]) \in Nat /\ Capacity \in Nat BY Zenon, <2>1, SeqLen, IdentityAssumption
  <2> QED BY <2>1, <2>3, <2>4, SeqAppend
<1>2. queue' \in [Consumers -> Seq(M)]
  <2> HIDE DEF M
  <2> QED BY Zenon, <1>1 DEF Send
<1>3. lagged' \in [Consumers -> BOOLEAN] BY Zenon DEF Send, CastTypes
<1> QED BY Zenon, <1>2, <1>3 DEF CastTypes

\* Every action of the watcher keeps the types.
LEMMA WatchTypesStep ==
  ASSUME IdTypes, Watch
  PROVE  IdTypes'
<1> USE DEF IdTypes
<1>0. NoId \notin Ids /\ NoId \in Owner /\ Ids \subseteq Owner /\ NoIp \in Ips \cup {NoIp}
      /\ MaxBreaks \in Nat
  BY Zenon, IdentityAssumption DEF Owner
<1>a. Reset \in Event \cup {Reset} OBVIOUS
<1>c. <<>> \in Seq(Event) BY Zenon, SeqEmpty
<1>b. ASSUME wpc = "listen", stream # <<>>
      PROVE  /\ Head(stream) \in Event /\ Head(stream) \in Event \cup {Reset}
             /\ Head(stream).id \in Ids
             /\ Tail(stream) \in Seq(Event)
  <2>1. stream \in Seq(Event) BY Zenon DEF DockerTypes
  <2>2. Head(stream) \in Event /\ Tail(stream) \in Seq(Event)
    BY Zenon, <1>b, <2>1, SeqHeadTail
  <2>3. Head(stream).id \in Ids BY Zenon, <2>2 DEF Event
  <2> QED BY Zenon, <2>2, <2>3
<1>1. CASE WatchInvalidate
  <2>1. WatchTypes' BY Zenon, <1>1, <1>0 DEF WatchInvalidate, WatchGoto, WatchTypes, Places
  <2>2. CacheTypes' BY Zenon, <1>1, EntriesTypes DEF WatchInvalidate, Replace, CacheTypes
  <2> QED
    BY Zenon, <1>1, <2>1, <2>2 DEF WatchInvalidate, dockerVars, lookupVars, apiVars,
       castVars,
             DockerTypes, LookupTypes, ApiTypes, CastTypes
<1>2. CASE WatchList
  <2>1. WatchTypes'
    BY Zenon, <1>2, <1>0, EntriesTypes DEF WatchList, WatchGoto, WatchTypes, Places
  <2> QED
    BY Zenon, <1>2, <2>1 DEF WatchList, dockerVars, cacheVars, lookupVars, apiVars,
       castVars,
             DockerTypes, CacheTypes, LookupTypes, ApiTypes, CastTypes
<1>3. CASE WatchListFails
  <2>1. WatchTypes' BY Zenon, <1>3, <1>0 DEF WatchListFails, WatchGoto, WatchTypes, Places
  <2>2. CastTypes' BY Zenon, <1>3, <1>a, SendTypes DEF WatchListFails
  <2>3. breaks' \in 0 .. MaxBreaks BY <1>3, <1>0 DEF WatchListFails
  <2> QED
    BY Zenon, <1>3, <2>1, <2>2, <2>3 DEF WatchListFails, dockerVars, cacheVars, lookupVars,
             apiVars, DockerTypes, CacheTypes, LookupTypes, ApiTypes
<1>4. CASE WatchInstall
  <2>1. WatchTypes'
    BY Zenon, <1>4, <1>0, EntriesTypes DEF WatchInstall, WatchGoto, WatchTypes, Places
  <2>2. CacheTypes'
    BY Zenon, <1>4, EntriesTypes DEF WatchInstall, Replace, CacheTypes, WatchTypes
  <2> QED
    BY Zenon, <1>4, <2>1, <2>2 DEF WatchInstall, dockerVars, lookupVars, apiVars, castVars,
             DockerTypes, LookupTypes, ApiTypes, CastTypes
<1>5. CASE WatchSubscribe
  <2>1. WatchTypes' BY Zenon, <1>5, <1>0 DEF WatchSubscribe, WatchGoto, WatchTypes, Places
  <2>2. DockerTypes' BY <1>5 DEF WatchSubscribe, DockerTypes
  <2> QED
    BY Zenon, <1>5, <2>1, <2>2 DEF WatchSubscribe, cacheVars, lookupVars, apiVars, castVars,
             CacheTypes, LookupTypes, ApiTypes, CastTypes
<1>6. CASE WatchStart
  <2>0. wid' \in Ids BY Zenon, <1>6, <1>b DEF WatchStart
  <2>1. WatchTypes'
    <3>1. wpc' = "inspect" /\ wip' = wip /\ wsnap' = wsnap
      BY Zenon, <1>6 DEF WatchStart, WatchGoto
    <3> QED BY Zenon, <1>0, <2>0, <3>1 DEF WatchTypes, Places
  <2>2. DockerTypes' BY Zenon, <1>6, <1>b DEF WatchStart, DockerTypes
  <2> QED
    BY Zenon, <1>6, <2>1, <2>2 DEF WatchStart, cacheVars, lookupVars, apiVars, castVars,
             CacheTypes, LookupTypes, ApiTypes, CastTypes
<1>7. CASE WatchInspect
  <2>1. WatchTypes'
    BY Zenon, <1>7, <1>0 DEF WatchInspect, WatchGoto, WatchTypes, Places, DockerTypes
  <2> QED
    BY Zenon, <1>7, <2>1 DEF WatchInspect, dockerVars, cacheVars, lookupVars, apiVars,
       castVars,
             DockerTypes, CacheTypes, LookupTypes, ApiTypes, CastTypes
<1>8. CASE WatchInspectFails
  <2>1. WatchTypes'
    BY Zenon, <1>8, <1>0 DEF WatchInspectFails, WatchGoto, WatchTypes, Places
  <2>2. DockerTypes'
    <3>1. live' = FALSE /\ stream' = <<>> /\ UNCHANGED <<status, addr, missed, changes>>
      BY Zenon, <1>8 DEF WatchInspectFails
    <3> QED BY Zenon, <1>c, <3>1 DEF DockerTypes
  <2>3. breaks' \in 0 .. MaxBreaks BY <1>8, <1>0 DEF WatchInspectFails
  <2> QED
    BY Zenon, <1>8, <2>1, <2>2, <2>3 DEF WatchInspectFails, cacheVars, lookupVars, apiVars,
       castVars,
             CacheTypes, LookupTypes, ApiTypes, CastTypes
<1>9. CASE WatchRecord
  <2>1. WatchTypes' BY Zenon, <1>9, <1>0 DEF WatchRecord, WatchGoto, WatchTypes, Places
  <2>2. CacheTypes'
    BY Zenon, <1>9, EntriesTypes DEF WatchRecord, Replace, CacheTypes, WatchTypes
  <2> QED
    BY Zenon, <1>9, <2>1, <2>2 DEF WatchRecord, dockerVars, lookupVars, apiVars, castVars,
             DockerTypes, LookupTypes, ApiTypes, CastTypes
<1>10. CASE WatchLifecycle
  <2>1. CacheTypes'
    BY Zenon, <1>10, <1>b, EntriesTypes DEF WatchLifecycle, Replace, CacheTypes
  <2>2. CastTypes' BY Zenon, <1>10, <1>b, SendTypes DEF WatchLifecycle
  <2>3. DockerTypes' BY Zenon, <1>10, <1>b DEF WatchLifecycle, DockerTypes
  <2> QED
    BY Zenon, <1>10, <2>1, <2>2, <2>3 DEF WatchLifecycle, watchVars, lookupVars, apiVars,
             WatchTypes, LookupTypes, ApiTypes
<1>11. CASE WatchStreamEnds
  <2>1. WatchTypes' BY Zenon, <1>11, <1>0 DEF WatchStreamEnds, WatchGoto, WatchTypes, Places
  <2> QED
    BY Zenon, <1>11, <2>1 DEF WatchStreamEnds, dockerVars, cacheVars, lookupVars, apiVars,
             castVars, DockerTypes, CacheTypes, LookupTypes, ApiTypes, CastTypes
<1>12. CASE WatchBroken
  <2>1. WatchTypes' BY Zenon, <1>12, <1>0 DEF WatchBroken, WatchGoto, WatchTypes, Places
  <2>2. CacheTypes' BY Zenon, <1>12, EntriesTypes DEF WatchBroken, Replace, CacheTypes
  <2>3. CastTypes' BY Zenon, <1>12, <1>a, SendTypes DEF WatchBroken
  <2> QED
    BY Zenon, <1>12, <2>1, <2>2, <2>3 DEF WatchBroken, dockerVars, lookupVars, apiVars,
             DockerTypes, LookupTypes, ApiTypes
<1> QED
  BY Zenon, <1>1, <1>2, <1>3, <1>4, <1>5, <1>6, <1>7, <1>8, <1>9, <1>10, <1>11, <1>12
     DEF Watch

\* Every action of a lookup keeps the types.
LEMMA LookupTypesStep ==
  ASSUME IdTypes, NEW t \in Lookups,
         \/ \E ip \in Ips : LookupMiss(t, ip)
         \/ LookupList(t) \/ LookupFails(t) \/ LookupDone(t)
  PROVE  IdTypes'
<1> USE DEF IdTypes
<1>1. ASSUME NEW ip \in Ips, LookupMiss(t, ip) PROVE IdTypes'
  <2>1. LookupTypes' BY Zenon, <1>1 DEF LookupMiss, LookupTypes
  <2>2. CacheTypes' BY Zenon, <1>1 DEF LookupMiss, CacheTypes
  <2> QED
    BY Zenon, <1>1, <2>1, <2>2 DEF LookupMiss, dockerVars, watchVars, apiVars, castVars,
             DockerTypes, WatchTypes, ApiTypes, CastTypes
<1>2. CASE LookupList(t)
  <2>1. LookupTypes' BY Zenon, <1>2, EntriesTypes DEF LookupList, LookupTypes
  <2> QED
    BY Zenon, <1>2, <2>1 DEF LookupList, dockerVars, watchVars, cacheVars, apiVars,
       castVars,
             DockerTypes, WatchTypes, CacheTypes, ApiTypes, CastTypes
<1>3. CASE LookupFails(t)
  <2>1. LookupTypes' BY Zenon, <1>3, EntriesTypes DEF LookupFails, LookupReturn, LookupTypes
  <2>2. CacheTypes' BY Zenon, <1>3 DEF LookupFails, CacheTypes
  <2> QED
    BY Zenon, <1>3, <2>1, <2>2 DEF LookupFails, dockerVars, watchVars, apiVars, castVars,
             DockerTypes, WatchTypes, ApiTypes, CastTypes
<1>4. CASE LookupDone(t)
  <2>1. LookupTypes' BY Zenon, <1>4, EntriesTypes DEF LookupDone, LookupReturn, LookupTypes
  <2>2. CacheTypes' BY Zenon, <1>4 DEF LookupDone, Replace, CacheTypes, LookupTypes
  <2> QED
    BY Zenon, <1>4, <2>1, <2>2 DEF LookupDone, dockerVars, watchVars, apiVars, castVars,
             DockerTypes, WatchTypes, ApiTypes, CastTypes
<1> QED BY Zenon, <1>1, <1>2, <1>3, <1>4

\* Every action of the API keeps the types.
LEMMA ApiTypesStep ==
  ASSUME IdTypes, NEW t \in Apis, Api(t)
  PROVE  IdTypes'
<1> USE DEF IdTypes
<1>0. NoId \in Owner /\ Ids \subseteq Owner /\ NoIp \in Ips \cup {NoIp} BY Zenon DEF Owner
<1>1. ASSUME NEW id \in Ids, NEW ip \in Ips, ApiCreate(t, id, ip) PROVE IdTypes'
  <2>1. DockerTypes' BY Zenon, <1>1, DockerOpTypes DEF ApiCreate
  <2>2. ApiTypes' BY Zenon, <1>1, <1>0 DEF ApiCreate, ApiGoto, ApiTypes
  <2> QED
    BY Zenon, <1>1, <2>1, <2>2 DEF ApiCreate, watchVars, cacheVars, lookupVars, castVars,
             WatchTypes, CacheTypes, LookupTypes, CastTypes
<1>2. CASE ApiInspect(t)
  <2>1. ApiTypes' BY Zenon, <1>2, <1>0 DEF ApiInspect, ApiGoto, ApiTypes, DockerTypes
  <2> QED
    BY Zenon, <1>2, <2>1 DEF ApiInspect, dockerVars, watchVars, cacheVars, lookupVars,
       castVars,
             DockerTypes, WatchTypes, CacheTypes, LookupTypes, CastTypes
<1>3. CASE ApiRollback(t)
  <2>0. aid[t] \in Ids BY Zenon, <1>3 DEF ApiRollback, ApiTypes
  <2>1. DockerTypes'
    <3>1. CASE DockerExit(aid[t], "removed") \/ DockerRemove(aid[t])
      BY Zenon, <2>0, <3>1, DockerOpTypes
    <3>2. CASE UNCHANGED dockerVars BY Zenon, <3>2 DEF dockerVars, DockerTypes
    <3> QED BY Zenon, <1>3, <3>1, <3>2 DEF ApiRollback
  <2>2. ApiTypes' BY Zenon, <1>3, <1>0 DEF ApiRollback, ApiReturn, ApiGoto, ApiTypes
  <2> QED
    BY Zenon, <1>3, <2>1, <2>2 DEF ApiRollback, watchVars, cacheVars, lookupVars, castVars,
             WatchTypes, CacheTypes, LookupTypes, CastTypes
<1>4. CASE ApiRecord(t)
  <2>0. aid[t] \in Ids BY Zenon, <1>4 DEF ApiRecord, ApiTypes
  <2>1. DockerTypes' BY Zenon, <1>4, <2>0 DEF ApiRecord, DockerTypes
  <2>2. ApiTypes' BY Zenon, <1>4, <1>0 DEF ApiRecord, ApiReturn, ApiGoto, ApiTypes
  <2>3. CacheTypes' BY Zenon, <1>4, <2>0, EntriesTypes DEF ApiRecord, Replace, CacheTypes
  <2> QED BY Zenon, <1>4, <2>1, <2>2, <2>3 DEF ApiRecord, watchVars, lookupVars, castVars,
             WatchTypes, LookupTypes, CastTypes
<1>5. ASSUME NEW id \in Ids, ApiEnd(t, id) PROVE IdTypes'
  <2>1. DockerTypes'
    <3>1. CASE (\E to \in {"stopped", "removed"} : DockerExit(id, to)) \/ DockerRemove(id)
      BY Zenon, <3>1, DockerOpTypes
    <3>2. CASE UNCHANGED dockerVars BY Zenon, <3>2 DEF dockerVars, DockerTypes
    <3> QED BY Zenon, <1>5, <3>1, <3>2 DEF ApiEnd
  <2>2. ApiTypes' BY Zenon, <1>5, <1>0 DEF ApiEnd, ApiGoto, ApiTypes
  <2> QED BY Zenon, <1>5, <2>1, <2>2 DEF ApiEnd, watchVars, cacheVars, lookupVars, castVars,
             WatchTypes, CacheTypes, LookupTypes, CastTypes
<1>6. CASE ApiForget(t)
  <2>0. aid[t] \in Ids BY Zenon, <1>6 DEF ApiForget, ApiTypes
  <2>1. ApiTypes' BY Zenon, <1>6, <1>0 DEF ApiForget, ApiReturn, ApiGoto, ApiTypes
  <2>2. CacheTypes' BY Zenon, <1>6, <2>0, EntriesTypes DEF ApiForget, Replace, CacheTypes
  <2> QED
    BY Zenon, <1>6, <2>1, <2>2 DEF ApiForget, dockerVars, watchVars, lookupVars, castVars,
             DockerTypes, WatchTypes, LookupTypes, CastTypes
<1> QED BY Zenon, <1>1, <1>2, <1>3, <1>4, <1>5, <1>6 DEF Api

\* The groups of types are an invariant of the cache, its watcher and its users.
LEMMA IdTypesStep == IdTypes /\ [IdNext]_idVars => IdTypes'
<1> SUFFICES ASSUME IdTypes, [IdNext]_idVars PROVE IdTypes' OBVIOUS
<1>1. CASE Docker
  <2>1. DockerTypes' BY Zenon, <1>1, DockerOpTypes DEF Docker, IdTypes
  <2> QED
    BY Zenon, <1>1, <2>1 DEF Docker, IdTypes, watchVars, cacheVars, lookupVars, apiVars,
       castVars,
             WatchTypes, CacheTypes, LookupTypes, ApiTypes, CastTypes
<1>2. CASE StreamBreak
  <2>1. DockerTypes'
    BY Zenon, <1>2 DEF StreamBreak, DockerBreaksStream, IdTypes, DockerTypes
  <2>2. breaks' \in 0 .. MaxBreaks
    BY <1>2, IdentityAssumption DEF StreamBreak, DockerBreaksStream, IdTypes
  <2> QED
    BY Zenon, <1>2, <2>1, <2>2 DEF StreamBreak, IdTypes, watchVars, cacheVars, lookupVars,
       apiVars,
             castVars, WatchTypes, CacheTypes, LookupTypes, ApiTypes, CastTypes
<1>3. CASE Watch BY Zenon, <1>3, WatchTypesStep
<1>4. CASE \E t \in Lookups : \/ \E ip \in Ips : LookupMiss(t, ip)
                              \/ LookupList(t) \/ LookupFails(t) \/ LookupDone(t)
  BY Zenon, <1>4, LookupTypesStep
<1>5. CASE \E t \in Apis : Api(t) BY Zenon, <1>5, ApiTypesStep
<1>6. ASSUME NEW c \in Consumers, Receive(c) PROVE IdTypes'
  <2>1. CastTypes'
    <3>1. CASE lagged[c] BY Zenon, <1>6, <3>1 DEF Receive, IdTypes, CastTypes
    <3>2. CASE ~lagged[c]
      <4>1. queue[c] \in Seq(Event \cup {Reset}) /\ queue[c] # <<>>
        BY Zenon, <1>6, <3>2 DEF Receive, IdTypes, CastTypes
      <4>2. Tail(queue[c]) \in Seq(Event \cup {Reset}) BY Zenon, <4>1, SeqHeadTail
      <4> QED BY Zenon, <1>6, <3>2, <4>2 DEF Receive, IdTypes, CastTypes
    <3> QED BY Zenon, <3>1, <3>2
  <2> QED
    BY Zenon, <1>6, <2>1 DEF Receive, IdTypes, dockerVars, watchVars, cacheVars,
       lookupVars, apiVars,
             DockerTypes, WatchTypes, CacheTypes, LookupTypes, ApiTypes
<1>7. CASE UNCHANGED idVars
  BY Zenon, <1>7 DEF idVars, IdTypes, dockerVars, watchVars, cacheVars, lookupVars,
     apiVars, castVars,
              DockerTypes, WatchTypes, CacheTypes, LookupTypes, ApiTypes, CastTypes
<1> QED BY Zenon, <1>1, <1>2, <1>3, <1>4, <1>5, <1>6, <1>7 DEF IdNext

\* At the start of the daemon the types hold.
LEMMA IdTypesInit == IdInit => IdTypes
<1> SUFFICES ASSUME IdInit PROVE IdTypes OBVIOUS
<1> USE DEF IdInit
<1>0. NoEntry \in Entries /\ NoId \notin Ids /\ NoId \in Owner
  BY Zenon, EntriesTypes, IdentityAssumption DEF Owner
<1>1. DockerTypes
  <2>1. <<>> \in Seq(Event) BY Zenon, SeqEmpty
  <2>2. 0 \in 0 .. MaxChanges BY IdentityAssumption
  <2> QED BY Zenon, <2>1, <2>2 DEF DockerTypes, Statuses
<1>2. WatchTypes BY Zenon, <1>0 DEF WatchTypes, Places
<1>3. CacheTypes /\ LookupTypes BY Zenon, <1>0 DEF CacheTypes, LookupTypes
<1>4. ApiTypes BY Zenon, <1>0 DEF ApiTypes
<1>5. CastTypes
  <2>1. <<>> \in Seq(Event \cup {Reset}) BY Zenon, SeqEmpty
  <2> QED BY Zenon, <2>1 DEF CastTypes
<1> QED BY <1>1, <1>2, <1>3, <1>4, <1>5, IdentityAssumption DEF IdTypes

-----------------------------------------------------------------------------
(* ContainerIdentity: why a cached identity is right once the watcher has  *)
(* caught up.                                                              *)

\* A message that drops what the cache says of this container's name.
Corrects(m, id) ==
  /\ m.kind \in CleanupKinds \cup {"start"}
  /\ NameOf[m.id] = NameOf[id]

Announced(id) == \E m \in Event : Has(stream, m) /\ Corrects(m, id)

InHand(id) == wid # NoId /\ NameOf[wid] = NameOf[id]

Covered(id) == id \in missed \/ Announced(id) \/ InHand(id)

\* The cache will be replaced by a new list before the watcher has caught up.
Rebuilding ==
  \/ wpc \in {"start", "list", "install", "broken"}
  \/ wpc \in {"listen", "inspect", "record"} /\ ~live

\* What a list, or the cache, says of an address is right, or will be corrected.
Correct(e) ==
  \A ip \in Ips : e[ip] # NoId /\ addr[e[ip]] # ip => Covered(e[ip])

\* Before the stream is open nothing is in it, and until the list is installed no
\* lookup can install one.
WatcherPhase ==
  /\ wpc \in {"start", "list", "install", "subscribe", "broken"} => ~live /\ stream = <<>>
  /\ wpc \in {"start", "list", "install"} => ~healthy /\ fresh = {}

SnapshotFresh ==
  wpc = "install" =>
    \A ip \in Ips : wsnap[ip] # NoId /\ addr[wsnap[ip]] # ip => wsnap[ip] \in missed

RecordFresh ==
  wpc = "record" /\ wip # NoIp /\ addr[wid] # wip => ~live \/ Announced(wid)

CacheFresh ==
  Rebuilding \/ (Correct(entries) /\ \A t \in fresh : lpc[t] = "install" => Correct(lsnap[t]))

IdInv == WatcherPhase /\ SnapshotFresh /\ RecordFresh /\ CacheFresh

\* CorrectionPending, by which ApiRecord tells an exit that nobody could see, is
\* what the invariant calls announced or in the watcher's hands.
LEMMA PendingIs ==
  ASSUME IdTypes, NEW id \in Ids
  PROVE  CorrectionPending(id) <=> Announced(id) \/ InHand(id)
<1>1. stream \in Seq(Event) BY Zenon DEF IdTypes, DockerTypes
<1>2. \A i \in 1 .. Len(stream) : stream[i] \in Event BY Zenon, <1>1, SeqLen
<1> QED BY Zenon, <1>2 DEF CorrectionPending, Announced, InHand, Corrects, Has

\* A list is right when it is taken.
LEMMA ListedRight == \A ip \in Ips : Listed[ip] # NoId => addr[Listed[ip]] = ip
BY Zenon DEF Listed

\* The effect on the cache's invariant of what Docker does: an exit is announced on
\* an open stream, and counted as missed in the watcher's gap.
Told ==
  /\ live' = live /\ missed \subseteq missed'
  /\ ~live => stream' = stream
  /\ \A x \in Ids : Announced(x) => Announced(x)'
  /\ \A x \in Ids : addr[x] # NoIp /\ addr'[x] # addr[x] =>
       /\ live => Announced(x)'
       /\ InGap => x \in missed'

\* What Docker does is appended to the open stream, and nothing leaves it.
LEMMA ChangeAppends ==
  ASSUME stream \in Seq(Event), NEW e \in Seq(Event), Change(e)
  PROVE  /\ ~live => stream' = stream
         /\ \A m \in Event : Has(stream, m) => Has(stream', m)
         /\ \A m \in Event : live /\ Has(e, m) => Has(stream', m)
<1>1. ~live => stream' = stream BY Zenon DEF Change
<1>2. live => stream' = stream \o e BY Zenon DEF Change
<1>3. \A m \in Event : Has(stream, m) => Has(stream', m)
  <2> SUFFICES ASSUME NEW m \in Event, Has(stream, m) PROVE Has(stream', m) OBVIOUS
  <2>1. CASE live BY Zenon, <1>2, <2>1, HasConcat
  <2>2. CASE ~live BY Zenon, <1>1, <2>2
  <2> QED BY Zenon, <2>1, <2>2
<1>4. \A m \in Event : live /\ Has(e, m) => Has(stream', m)
  BY Zenon, <1>2, HasConcat
<1> QED BY Zenon, <1>1, <1>3, <1>4

\* An event appended to the open stream announces its container.
LEMMA ChangeTold ==
  ASSUME stream \in Seq(Event), NEW e \in Seq(Event), Change(e)
  PROVE  /\ ~live => stream' = stream
         /\ \A x \in Ids : Announced(x) => Announced(x)'
         /\ \A x \in Ids, m \in Event : live /\ Has(e, m) /\ Corrects(m, x) => Announced(x)'
BY Zenon, ChangeAppends DEF Announced, Corrects

\* Docker's operations tell what they change.
LEMMA DockerOpTold ==
  ASSUME IdTypes, NEW id \in Ids,
         \/ \E ip \in Ips : DockerRun(id, ip)
         \/ \E to \in {"stopped", "removed"} : DockerExit(id, to)
         \/ DockerRemove(id)
         \/ \E kind \in Signals : DockerSignal(id, kind)
  PROVE  Told
<1>0. stream \in Seq(Event) /\ addr \in [Ids -> Ips \cup {NoIp}] /\ status \in [Ids -> Statuses]
  BY Zenon DEF IdTypes, DockerTypes
<1>e. \A k \in Kinds : [kind |-> k, id |-> id] \in Event BY Zenon DEF Event
<1>1. \A k \in Kinds : <<[kind |-> k, id |-> id]>> \in Seq(Event) BY <1>e
<1>2. <<[kind |-> "die", id |-> id], [kind |-> "destroy", id |-> id]>> \in Seq(Event)
  BY <1>e DEF Kinds
<1>3. ASSUME NEW ip \in Ips, DockerRun(id, ip) PROVE Told
  <2>1. /\ ~live => stream' = stream
        /\ \A x \in Ids : Announced(x) => Announced(x)'
    BY Zenon, <1>0, <1>1, <1>3, ChangeTold DEF DockerRun, Kinds
  <2>2. addr[id] = NoIp BY Zenon, <1>3 DEF DockerRun, IdTypes, DockerTypes
  <2>3. \A x \in Ids \ {id} : addr'[x] = addr[x] BY Zenon, <1>0, <1>3 DEF DockerRun
  <2> QED BY Zenon, <1>3, <2>1, <2>2, <2>3 DEF DockerRun, Told
<1>4. ASSUME NEW to \in {"stopped", "removed"}, DockerExit(id, to) PROVE Told
  <2> DEFINE e == IF to = "removed"
                  THEN <<[kind |-> "die", id |-> id], [kind |-> "destroy", id |-> id]>>
                  ELSE <<[kind |-> "die", id |-> id]>>
             die == [kind |-> "die", id |-> id]
  <2>1. e \in Seq(Event) /\ die \in Event BY Zenon, <1>e, <1>1, <1>2 DEF Kinds
  <2>2. Has(e, die) BY DEF Has
  <2>3. Corrects(die, id) BY Zenon DEF Corrects, CleanupKinds
  <2>4. Change(e) BY Zenon, <1>4 DEF DockerExit
  <2>5. /\ ~live => stream' = stream
        /\ \A x \in Ids : Announced(x) => Announced(x)'
        /\ live => Announced(id)'
    <3> HIDE DEF e, die
    <3> QED BY Zenon, <1>0, <2>1, <2>2, <2>3, <2>4, ChangeTold
  <2>6. \A x \in Ids \ {id} : addr'[x] = addr[x] BY Zenon, <1>0, <1>4 DEF DockerExit
  <2>7. live' = live /\ missed \subseteq missed' /\ (InGap => id \in missed')
    BY Zenon, <1>4 DEF DockerExit
  <2> QED BY Zenon, <2>5, <2>6, <2>7 DEF Told
<1>5. CASE DockerRemove(id)
  <2>1. /\ ~live => stream' = stream
        /\ \A x \in Ids : Announced(x) => Announced(x)'
    BY Zenon, <1>0, <1>1, <1>5, ChangeTold DEF DockerRemove, Kinds
  <2> QED BY Zenon, <1>5, <2>1 DEF DockerRemove, Told
<1>6. ASSUME NEW kind \in Signals, DockerSignal(id, kind) PROVE Told
  <2>1. /\ ~live => stream' = stream
        /\ \A x \in Ids : Announced(x) => Announced(x)'
    BY Zenon, <1>0, <1>1, <1>6, ChangeTold DEF DockerSignal, Kinds
  <2> QED BY Zenon, <1>6, <2>1 DEF DockerSignal, Told
<1> QED BY Zenon, <1>3, <1>4, <1>5, <1>6

\* What Docker does keeps the cache's invariant.
LEMMA ToldKeeps ==
  ASSUME IdTypes, IdInv, Told, UNCHANGED <<watchVars, cacheVars, lookupVars>>
  PROVE  IdInv'
<1> USE DEF watchVars, cacheVars, lookupVars
<1>0. /\ entries \in Entries /\ wsnap \in Entries /\ fresh \subseteq Lookups
      /\ lsnap \in [Lookups -> Entries] /\ wpc \in Places
      /\ wpc = "record" => wid \in Ids
      /\ NoIp \notin Ips
  BY Zenon, IdentityAssumption DEF IdTypes, WatchTypes, CacheTypes, LookupTypes
<1>1. WatcherPhase' BY Zenon DEF IdInv, WatcherPhase, Told
<1>2. \A x \in Ids : Covered(x) => Covered(x)' BY Zenon DEF Told, Covered, InHand
<1>3. \A x \in Ids, ip \in Ips : addr'[x] # ip => addr[x] # ip \/ (addr[x] # NoIp /\ addr'[x] # addr[x])
  BY Zenon, <1>0
<1>4. SnapshotFresh'
  <2> SUFFICES ASSUME wpc = "install", NEW ip \in Ips, wsnap[ip] # NoId, addr'[wsnap[ip]] # ip
               PROVE  wsnap[ip] \in missed'
    BY Zenon DEF SnapshotFresh
  <2>1. wsnap[ip] \in Ids BY Zenon, <1>0 DEF Entries, Owner
  <2>2. CASE addr[wsnap[ip]] # ip BY Zenon, <2>2 DEF IdInv, SnapshotFresh, Told
  <2>3. CASE addr[wsnap[ip]] = ip BY Zenon, <1>0, <2>1, <2>3 DEF Told, InGap
  <2> QED BY Zenon, <2>2, <2>3
<1>5. RecordFresh'
  <2> SUFFICES ASSUME wpc = "record", wip # NoIp, addr'[wid] # wip, live
               PROVE  Announced(wid)'
    BY Zenon DEF RecordFresh, Told
  <2>0. ASSUME NEW x \in Ids, x = wid PROVE Announced(x)'
    <3>1. CASE addr[x] # wip
      <4>1. Announced(x) BY Zenon, <2>0, <3>1 DEF IdInv, RecordFresh
      <4> QED BY Zenon, <4>1 DEF Told
    <3>2. CASE addr[x] = wip BY Zenon, <2>0, <3>2 DEF Told
    <3> QED BY Zenon, <3>1, <3>2
  <2> QED BY Zenon, <1>0, <2>0 DEF Announced
<1>6. ASSUME ~Rebuilding, NEW e \in Entries, Correct(e),
             NEW ip \in Ips, e[ip] # NoId, addr'[e[ip]] # ip
      PROVE  Covered(e[ip])'
  <2>1. e[ip] \in Ids BY Zenon, <1>6 DEF Entries, Owner
  <2>2. CASE addr[e[ip]] # ip BY Zenon, <1>2, <1>6, <2>1, <2>2 DEF Correct
  <2>3. CASE addr[e[ip]] = ip
    <3>1. live \/ InGap BY Zenon, <1>0, <1>6 DEF Rebuilding, InGap, Places
    <3> QED BY Zenon, <1>0, <2>1, <2>3, <1>6, <3>1 DEF Told, Covered
  <2> QED BY Zenon, <2>2, <2>3
<1>7. CacheFresh'
  <2>1. CASE Rebuilding BY Zenon, <2>1 DEF CacheFresh, Rebuilding, Told
  <2>2. CASE ~Rebuilding
    <3>1. Correct(entries) /\ \A t \in fresh : lpc[t] = "install" => Correct(lsnap[t])
      BY Zenon, <2>2 DEF IdInv, CacheFresh
    <3>2. Correct(entries)'
      BY Zenon, <1>0, <1>6, <2>2, <3>1 DEF Correct, Covered, InHand, Announced
    <3>3. ASSUME NEW t \in fresh, lpc[t] = "install" PROVE Correct(lsnap[t])'
      BY Zenon, <1>0, <1>6, <2>2, <3>1, <3>3 DEF Correct, Covered, InHand, Announced
    <3> QED BY Zenon, <3>2, <3>3 DEF CacheFresh
  <2> QED BY Zenon, <2>1, <2>2
<1> QED BY Zenon, <1>1, <1>4, <1>5, <1>7 DEF IdInv

\* A step that leaves Docker alone keeps a list right if it keeps every container
\* that the list is wrong about covered.
LEMMA StaysCorrect ==
  ASSUME NEW e \in Entries, Correct(e), addr' = addr,
         \A x \in Ids : Covered(x) => Covered(x)'
  PROVE  \A ip \in Ips : e[ip] # NoId /\ addr'[e[ip]] # ip => Covered(e[ip])'
<1>1. \A ip \in Ips : e[ip] # NoId => e[ip] \in Ids BY Zenon DEF Entries, Owner
<1> QED BY Zenon, <1>1 DEF Correct

\* The watcher keeps the cache's invariant.
LEMMA WatchKeeps ==
  ASSUME IdTypes, IdInv, Watch
  PROVE  IdInv'
<1>0. /\ entries \in Entries /\ wsnap \in Entries /\ fresh \subseteq Lookups
      /\ lsnap \in [Lookups -> Entries] /\ wpc \in Places
      /\ stream \in Seq(Event) /\ wid \in Owner
      /\ wpc \in {"inspect", "record"} <=> wid \in Ids
      /\ NoIp \notin Ips /\ NoId \notin Ids
  BY Zenon, IdentityAssumption DEF IdTypes, WatchTypes, CacheTypes, LookupTypes, DockerTypes
<1>n. wpc \notin {"inspect", "record"} => wid = NoId BY Zenon, <1>0 DEF Owner
<1>s. stream = <<>> => \A x : ~Announced(x)
  <2>1. stream = <<>> => \A m : ~Has(stream, m) BY DEF Has
  <2> QED BY Zenon, <2>1 DEF Announced
<1>t. ASSUME wpc = "listen", stream # <<>>, stream' = Tail(stream), NEW x \in Ids, Announced(x),
             ~Corrects(Head(stream), x)
      PROVE  Announced(x)'
  <2>1. PICK m \in Event : Has(stream, m) /\ Corrects(m, x) BY Zenon, <1>t DEF Announced
  <2>2. Head(stream) # m BY Zenon, <1>t, <2>1
  <2>3. Has(Tail(stream), m) BY Zenon, <1>0, <1>t, <2>1, <2>2, HasTail
  <2> QED BY Zenon, <1>t, <2>1, <2>3 DEF Announced, Corrects
<1> USE DEF WatchGoto
<1>1. CASE WatchInvalidate
  BY Zenon, <1>1 DEF WatchInvalidate, Replace, dockerVars, IdInv, WatcherPhase,
     SnapshotFresh, RecordFresh,
              CacheFresh, Rebuilding
<1>2. CASE WatchList
  <2>1. SnapshotFresh'
    BY Zenon, <1>2, ListedRight DEF WatchList, dockerVars, SnapshotFresh
  <2> QED
    BY Zenon, <1>2, <2>1 DEF WatchList, dockerVars, cacheVars, IdInv, WatcherPhase,
       RecordFresh,
       CacheFresh, Rebuilding
<1>3. CASE WatchListFails
  BY Zenon, <1>3 DEF WatchListFails, dockerVars, cacheVars, IdInv, WatcherPhase,
     SnapshotFresh,
              RecordFresh, CacheFresh, Rebuilding
<1>4. CASE WatchInstall
  <2>1. CacheFresh'
    <3>1. fresh' = {} /\ entries' = wsnap /\ addr' = addr /\ missed' = missed
      BY Zenon, <1>4 DEF WatchInstall, Replace, dockerVars
    <3>2. Correct(entries)'
      BY Zenon, <1>4, <3>1 DEF WatchInstall, IdInv, SnapshotFresh, Correct, Covered
    <3> QED BY Zenon, <3>1, <3>2 DEF CacheFresh
  <2>2. WatcherPhase' /\ SnapshotFresh' /\ RecordFresh'
    BY Zenon, <1>4 DEF WatchInstall, dockerVars, IdInv, WatcherPhase, SnapshotFresh,
       RecordFresh
  <2> QED BY Zenon, <2>1, <2>2 DEF IdInv
<1>5. CASE WatchSubscribe
  <2>1. /\ wpc = "subscribe" /\ wpc' = "listen" /\ wid' = wid
        /\ addr' = addr /\ missed' = missed
        /\ UNCHANGED <<entries, healthy, fresh, lpc, lip, lsnap>>
    BY Zenon, <1>5 DEF WatchSubscribe, cacheVars, lookupVars
  <2>2. stream = <<>> /\ wid = NoId BY Zenon, <1>n, <2>1 DEF IdInv, WatcherPhase
  <2>3. \A x \in Ids : Covered(x) => Covered(x)'
    BY Zenon, <1>s, <2>1, <2>2 DEF Covered, InHand
  <2>4. Correct(entries) /\ \A t \in fresh : lpc[t] = "install" => Correct(lsnap[t])
    BY Zenon, <2>1 DEF IdInv, CacheFresh, Rebuilding
  <2>5. Correct(entries)'
    BY Zenon, <1>0, <2>1, <2>3, <2>4, StaysCorrect DEF Correct, Covered, InHand, Announced
  <2>6. ASSUME NEW t \in fresh, lpc[t] = "install" PROVE Correct(lsnap[t])'
    BY Zenon, <1>0, <2>1, <2>3, <2>4, <2>6, StaysCorrect
       DEF Correct, Covered, InHand, Announced
  <2>7. CacheFresh' BY Zenon, <2>1, <2>5, <2>6 DEF CacheFresh
  <2> QED BY Zenon, <2>1, <2>7 DEF IdInv, WatcherPhase, SnapshotFresh, RecordFresh
<1>6. CASE WatchStart
  <2>1. /\ wpc = "listen" /\ stream # <<>> /\ wpc' = "inspect" /\ wid' = Head(stream).id
        /\ stream' = Tail(stream) /\ Head(stream).kind = "start"
        /\ UNCHANGED <<addr, missed, live, entries, healthy, fresh, lpc, lip, lsnap>>
    BY Zenon, <1>6 DEF WatchStart, cacheVars, lookupVars
  <2>2. Head(stream).id \in Ids
    <3>1. Head(stream) \in Event BY Zenon, <1>0, <2>1, SeqHeadTail
    <3> QED BY Zenon, <3>1 DEF Event
  <2>3. ASSUME NEW x \in Ids, Covered(x) PROVE Covered(x)'
    <3>1. CASE x \in missed BY Zenon, <2>1, <3>1 DEF Covered
    <3>2. CASE Announced(x) /\ ~Corrects(Head(stream), x)
      BY Zenon, <1>t, <2>1, <3>2 DEF Covered
    <3>3. CASE Corrects(Head(stream), x)
      BY Zenon, <1>0, <2>1, <2>2, <3>3 DEF Corrects, Covered, InHand
    <3> QED BY Zenon, <1>n, <2>1, <2>3, <3>1, <3>2, <3>3 DEF Covered, InHand
  <2>4. CASE ~live
    BY Zenon, <2>1, <2>4 DEF IdInv, WatcherPhase, SnapshotFresh, RecordFresh, CacheFresh,
       Rebuilding
  <2>5. CASE live
    <3>4. Correct(entries) /\ \A t \in fresh : lpc[t] = "install" => Correct(lsnap[t])
      BY Zenon, <2>1, <2>5 DEF IdInv, CacheFresh, Rebuilding
    <3>5. Correct(entries)'
      BY Zenon, <1>0, <2>1, <2>3, <3>4, StaysCorrect DEF Correct, Covered, InHand, Announced
    <3>6. ASSUME NEW t \in fresh, lpc[t] = "install" PROVE Correct(lsnap[t])'
      BY Zenon, <1>0, <2>1, <2>3, <3>4, <3>6, StaysCorrect
         DEF Correct, Covered, InHand, Announced
    <3>7. CacheFresh' BY Zenon, <2>1, <3>5, <3>6 DEF CacheFresh
    <3> QED BY Zenon, <2>1, <3>7 DEF IdInv, WatcherPhase, SnapshotFresh, RecordFresh
  <2> QED BY Zenon, <2>4, <2>5
<1>7. CASE WatchInspect
  <2>1. /\ wpc = "inspect" /\ wpc' = "record" /\ wid' = wid /\ wip' = addr[wid]
        /\ UNCHANGED <<addr, missed, live, stream, entries, healthy, fresh, lpc, lip, lsnap>>
    BY Zenon, <1>7 DEF WatchInspect, dockerVars, cacheVars, lookupVars
  <2>2. CacheFresh'
    BY Zenon, <2>1 DEF IdInv, CacheFresh, Rebuilding, Correct, Covered, InHand, Announced
  <2> QED BY Zenon, <2>1, <2>2 DEF IdInv, WatcherPhase, SnapshotFresh, RecordFresh
<1>8. CASE WatchInspectFails
  BY Zenon, <1>8 DEF WatchInspectFails, cacheVars, IdInv, WatcherPhase, SnapshotFresh,
              RecordFresh, CacheFresh, Rebuilding
<1>9. CASE WatchRecord
  <2>1. /\ wpc = "record" /\ wpc' = "listen" /\ wid' = NoId /\ wid \in Ids
        /\ entries' = Recorded(entries, wid, wip) /\ fresh' = {}
        /\ UNCHANGED <<addr, missed, live, stream, healthy>>
    BY Zenon, <1>0, <1>9 DEF WatchRecord, Replace, dockerVars
  <2>2. CASE ~live
    BY Zenon, <2>1, <2>2 DEF IdInv, WatcherPhase, SnapshotFresh, RecordFresh, CacheFresh,
       Rebuilding
  <2>3. CASE live
    <3>1. Correct(entries) /\ RecordFresh
      BY Zenon, <2>1, <2>3 DEF IdInv, CacheFresh, Rebuilding
    <3>2. ASSUME NEW ip \in Ips, entries'[ip] # NoId, addr[entries'[ip]] # ip
          PROVE  entries'[ip] \in missed \/ Announced(entries'[ip])
      <4>1. CASE ip = wip
        <5>1. entries'[ip] = wid BY Zenon, <2>1, <4>1 DEF Recorded
        <5> QED BY Zenon, <1>0, <2>1, <2>3, <3>1, <3>2, <4>1, <5>1 DEF RecordFresh
      <4>2. CASE ip # wip
        <5>1. entries'[ip] = entries[ip] /\ NameOf[entries[ip]] # NameOf[wid]
          BY Zenon, <2>1, <3>2, <4>2 DEF Recorded, Forget
        <5>2. Covered(entries[ip]) /\ ~InHand(entries[ip])
          BY Zenon, <3>1, <3>2, <5>1 DEF Correct, InHand
        <5> QED BY Zenon, <5>1, <5>2 DEF Covered
      <4> QED BY Zenon, <4>1, <4>2
    <3>4. Correct(entries)'
      <4> SUFFICES ASSUME NEW ip \in Ips, entries'[ip] # NoId, addr[entries'[ip]] # ip
                   PROVE  entries'[ip] \in missed' \/ Announced(entries[ip])'
        BY Zenon, <2>1 DEF Correct, Covered
      <4> QED BY Zenon, <2>1, <3>2 DEF Announced, Corrects
    <3> QED
      BY Zenon, <2>1, <3>4 DEF IdInv, WatcherPhase, SnapshotFresh, RecordFresh, CacheFresh
  <2> QED BY Zenon, <2>2, <2>3
<1>10. CASE WatchLifecycle
  <2>1. /\ wpc = "listen" /\ stream # <<>> /\ wpc' = wpc /\ wid' = wid /\ wid = NoId
        /\ stream' = Tail(stream) /\ Head(stream).kind # "start"
        /\ UNCHANGED <<addr, missed, live, healthy, lpc, lip, lsnap>>
    BY Zenon, <1>10, <1>n DEF WatchLifecycle, watchVars, lookupVars
  <2>2. ASSUME NEW x \in Ids, Covered(x), ~Corrects(Head(stream), x) PROVE Covered(x)'
    BY Zenon, <1>t, <2>1, <2>2 DEF Covered, InHand
  <2>3. CASE ~live
    BY Zenon, <2>1, <2>3 DEF IdInv, WatcherPhase, SnapshotFresh, RecordFresh, CacheFresh,
       Rebuilding
  <2>4. CASE live /\ Head(stream).kind \in CleanupKinds
    <3>1. Correct(entries) BY Zenon, <2>1, <2>4 DEF IdInv, CacheFresh, Rebuilding
    <3>2. entries' = Forget(entries, Head(stream).id) /\ fresh' = {}
      BY Zenon, <1>10, <2>4 DEF WatchLifecycle, Replace
    <3>3. ASSUME NEW ip \in Ips, entries'[ip] # NoId, addr[entries'[ip]] # ip
          PROVE  /\ entries'[ip] = entries[ip] /\ entries[ip] \in Ids
                 /\ Covered(entries[ip]) /\ ~Corrects(Head(stream), entries[ip])
      BY Zenon, <1>0, <3>1, <3>2, <3>3 DEF Forget, Correct, Corrects, Entries, Owner
    <3>4. Correct(entries)'
      <4> SUFFICES ASSUME NEW ip \in Ips, entries'[ip] # NoId, addr[entries'[ip]] # ip
                   PROVE  Covered(entries[ip])'
        BY Zenon, <2>1 DEF Correct
      <4>1. ASSUME NEW x \in Ids, x = entries[ip] PROVE Covered(x)'
        BY Zenon, <2>2, <3>3, <4>1
      <4> QED BY Zenon, <3>3, <4>1 DEF Covered, Announced, InHand, Corrects
    <3> QED
      BY Zenon, <2>1, <3>2, <3>4 DEF IdInv, WatcherPhase, SnapshotFresh, RecordFresh,
         CacheFresh
  <2>5. CASE live /\ Head(stream).kind \notin CleanupKinds
    <3>1. UNCHANGED <<entries, fresh>> BY Zenon, <1>10, <2>5 DEF WatchLifecycle
    <3>3. \A x \in Ids : Covered(x) => Covered(x)'
      BY Zenon, <2>1, <2>2, <2>5 DEF Corrects
    <3>4. Correct(entries) /\ \A t \in fresh : lpc[t] = "install" => Correct(lsnap[t])
      BY Zenon, <2>1, <2>5 DEF IdInv, CacheFresh, Rebuilding
    <3>5. Correct(entries)'
      BY Zenon, <1>0, <2>1, <3>1, <3>3, <3>4, StaysCorrect
         DEF Correct, Covered, InHand, Announced
    <3>6. ASSUME NEW t \in fresh, lpc[t] = "install" PROVE Correct(lsnap[t])'
      BY Zenon, <1>0, <2>1, <3>1, <3>3, <3>4, <3>6, StaysCorrect
         DEF Correct, Covered, InHand, Announced
    <3>7. CacheFresh' BY Zenon, <2>1, <3>1, <3>5, <3>6 DEF CacheFresh
    <3> QED BY Zenon, <2>1, <3>1, <3>7 DEF IdInv, WatcherPhase, SnapshotFresh, RecordFresh
  <2> QED BY Zenon, <2>3, <2>4, <2>5
<1>11. CASE WatchStreamEnds
  BY Zenon, <1>11 DEF WatchStreamEnds, dockerVars, cacheVars, IdInv, WatcherPhase,
     SnapshotFresh,
               RecordFresh, CacheFresh, Rebuilding
<1>12. CASE WatchBroken
  BY Zenon, <1>12 DEF WatchBroken, Replace, dockerVars, IdInv, WatcherPhase, SnapshotFresh,
               RecordFresh, CacheFresh, Rebuilding
<1> QED
  BY Zenon, <1>1, <1>2, <1>3, <1>4, <1>5, <1>6, <1>7, <1>8, <1>9, <1>10, <1>11, <1>12
     DEF Watch

\* Lookups keep the cache's invariant: a list is installed only while nothing that
\* would correct it has been handled since it was taken.
LEMMA LookupKeeps ==
  ASSUME IdTypes, IdInv, NEW l \in Lookups,
         \/ \E ip \in Ips : LookupMiss(l, ip)
         \/ LookupList(l) \/ LookupFails(l) \/ LookupDone(l)
  PROVE  IdInv'
<1>0. /\ entries \in Entries /\ fresh \subseteq Lookups /\ lpc \in [Lookups -> {"idle", "list", "install"}]
      /\ lsnap \in [Lookups -> Entries]
  BY Zenon DEF IdTypes, CacheTypes, LookupTypes
<1>1. /\ UNCHANGED <<status, addr, live, stream, missed, wpc, wid, wip, wsnap, healthy>>
      /\ healthy \/ fresh' \subseteq fresh
  BY Zenon DEF LookupMiss, LookupList, LookupFails, LookupDone, Replace, dockerVars,
     watchVars, cacheVars
<1>2. WatcherPhase' /\ SnapshotFresh' /\ RecordFresh'
  BY Zenon, <1>1 DEF IdInv, WatcherPhase, SnapshotFresh, RecordFresh, Announced
<1>3. CASE Rebuilding BY Zenon, <1>1, <1>2, <1>3 DEF IdInv, CacheFresh, Rebuilding
<1>4. CASE ~Rebuilding
  <2> SUFFICES CacheFresh' BY Zenon, <1>2 DEF IdInv
  <2>1. Correct(entries) /\ \A u \in fresh : lpc[u] = "install" => Correct(lsnap[u])
    BY Zenon, <1>4 DEF IdInv, CacheFresh
  <2>2. \A e \in Entries : Correct(e) =>
          \A ip \in Ips : e[ip] # NoId /\ addr'[e[ip]] # ip => Covered(e[ip])'
    BY Zenon, <1>1 DEF Correct, Covered, InHand, Announced
  <2>3. ASSUME UNCHANGED entries,
               \A u \in fresh' : lpc'[u] = "install" => u \in fresh /\ lpc[u] = "install" /\ lsnap'[u] = lsnap[u]
        PROVE  CacheFresh'
    <3>1. Correct(entries)'
      BY Zenon, <1>0, <2>1, <2>2, <2>3 DEF Correct, Covered, InHand, Announced
    <3>2. ASSUME NEW u \in fresh', lpc'[u] = "install" PROVE Correct(lsnap[u])'
      BY <1>0, <2>1, <2>2, <2>3, <3>2 DEF Correct, Covered, InHand, Announced
    <3> QED BY Zenon, <3>1, <3>2 DEF CacheFresh
  <2>4. ASSUME NEW ip \in Ips, LookupMiss(l, ip) PROVE CacheFresh'
    BY Zenon, <1>0, <2>3, <2>4 DEF LookupMiss
  <2>5. CASE LookupFails(l) BY Zenon, <1>0, <2>3, <2>5 DEF LookupFails, LookupReturn
  <2>6. CASE LookupDone(l) /\ l \notin fresh
    BY Zenon, <1>0, <2>3, <2>6 DEF LookupDone, LookupReturn
  <2>7. CASE LookupDone(l) /\ l \in fresh
    <3>1. entries' = lsnap[l] /\ fresh' = {} /\ lpc[l] = "install"
      BY Zenon, <2>7 DEF LookupDone, Replace
    <3>2. Correct(entries)'
      BY Zenon, <1>0, <2>1, <2>2, <2>7, <3>1 DEF Correct, Covered, InHand, Announced
    <3> QED BY Zenon, <3>1, <3>2 DEF CacheFresh
  <2>8. CASE LookupList(l)
    <3>1. UNCHANGED <<entries, fresh>> /\ lpc' = [lpc EXCEPT ![l] = "install"]
          /\ lsnap' = [lsnap EXCEPT ![l] = Listed]
      BY Zenon, <2>8 DEF LookupList, cacheVars
    <3>2. Correct(entries)'
      BY Zenon, <1>0, <2>1, <2>2, <3>1 DEF Correct, Covered, InHand, Announced
    <3>3. ASSUME NEW u \in fresh, lpc'[u] = "install" PROVE Correct(lsnap[u])'
      <4>1. CASE u = l
        <5>1. lsnap'[u] = Listed BY Zenon, <1>0, <3>1, <4>1
        <5> QED BY Zenon, <1>1, <5>1, ListedRight DEF Correct
      <4>2. CASE u # l
        <5>1. lsnap'[u] = lsnap[u] /\ lpc[u] = "install" /\ lsnap[u] \in Entries
          BY Zenon, <1>0, <3>1, <3>3, <4>2
        <5> QED BY <2>1, <2>2, <5>1 DEF Correct, Covered, InHand, Announced
      <4> QED BY Zenon, <4>1, <4>2
    <3> QED BY Zenon, <3>1, <3>2, <3>3 DEF CacheFresh
  <2> QED BY Zenon, <2>4, <2>5, <2>6, <2>7, <2>8
<1> QED BY Zenon, <1>3, <1>4

\* Registering a created container and forgetting a stopped one keep the cache's
\* invariant.
LEMMA ApiKeeps ==
  ASSUME IdTypes, IdInv, NEW t \in Apis, Api(t)
  PROVE  IdInv'
<1>0. entries \in Entries /\ NoId \notin Ids /\ (apc[t] # "idle" => aid[t] \in Ids)
  BY Zenon, IdentityAssumption DEF IdTypes, CacheTypes, ApiTypes
<1>1. CASE UNCHANGED dockerVars /\ UNCHANGED <<watchVars, cacheVars, lookupVars>>
  BY Zenon, <1>1 DEF dockerVars, watchVars, cacheVars, lookupVars, IdInv, WatcherPhase,
     SnapshotFresh,
     RecordFresh, CacheFresh, Rebuilding, Correct, Covered, InHand, Announced
<1>2. CASE Told /\ UNCHANGED <<watchVars, cacheVars, lookupVars>> BY Zenon, <1>2, ToldKeeps
<1>3. ASSUME NEW id \in Ids, NEW ip \in Ips, ApiCreate(t, id, ip) PROVE IdInv'
  BY Zenon, <1>2, <1>3, DockerOpTold DEF ApiCreate
<1>4. CASE ApiInspect(t) BY Zenon, <1>1, <1>4 DEF ApiInspect
<1>5. CASE ApiRollback(t)
  <2>1. aid[t] \in Ids BY Zenon, <1>0, <1>5 DEF ApiRollback
  <2>2. Told \/ UNCHANGED dockerVars BY Zenon, <1>5, <2>1, DockerOpTold DEF ApiRollback
  <2> QED BY Zenon, <1>1, <1>2, <1>5, <2>2 DEF ApiRollback
<1>6. ASSUME NEW id \in Ids, ApiEnd(t, id) PROVE IdInv'
  <2>1. Told \/ UNCHANGED dockerVars BY Zenon, <1>6, DockerOpTold DEF ApiEnd
  <2> QED BY Zenon, <1>1, <1>2, <1>6, <2>1 DEF ApiEnd
<1>7. CASE ApiForget(t)
  <2>1. /\ entries' = Forget(entries, aid[t]) /\ fresh' = {}
        /\ UNCHANGED <<addr, live, stream, missed, wpc, wid, wip, wsnap, healthy>>
    BY Zenon, <1>7 DEF ApiForget, Replace, dockerVars, watchVars
  <2>2. WatcherPhase' /\ SnapshotFresh' /\ RecordFresh'
    BY Zenon, <2>1 DEF IdInv, WatcherPhase, SnapshotFresh, RecordFresh, Announced
  <2>3. \A ip \in Ips : entries'[ip] # NoId => entries'[ip] = entries[ip]
    BY Zenon, <2>1 DEF Forget
  <2>4. Correct(entries) => Correct(entries)'
    BY Zenon, <2>1, <2>3 DEF Correct, Covered, InHand, Announced, Corrects
  <2>5. CacheFresh' BY Zenon, <2>1, <2>4 DEF IdInv, CacheFresh, Rebuilding
  <2> QED BY Zenon, <2>2, <2>5 DEF IdInv
<1>8. CASE ApiRecord(t)
  <2>0. aid[t] \in Ids BY Zenon, <1>0, <1>8 DEF ApiRecord
  <2>1. /\ entries' = Recorded(entries, aid[t], aip[t]) /\ fresh' = {}
        /\ UNCHANGED <<addr, live, stream, wpc, wid, wip, wsnap, healthy>>
        /\ missed \subseteq missed'
        /\ addr[aid[t]] # aip[t] => aid[t] \in missed' \/ CorrectionPending(aid[t])
    BY Zenon, <1>8 DEF ApiRecord, Replace, watchVars
  <2>2. WatcherPhase' /\ SnapshotFresh' /\ RecordFresh'
    BY Zenon, <2>1 DEF IdInv, WatcherPhase, SnapshotFresh, RecordFresh, Announced
  <2>3. ASSUME Correct(entries), NEW ip \in Ips, entries'[ip] # NoId, addr[entries'[ip]] # ip
        PROVE  entries'[ip] \in missed' \/ Announced(entries'[ip]) \/ InHand(entries'[ip])
    <3>1. CASE ip = aip[t]
      <4>1. entries'[ip] = aid[t] BY Zenon, <2>1, <3>1 DEF Recorded
      <4> QED BY Zenon, <2>0, <2>1, <2>3, <3>1, <4>1, PendingIs
    <3>2. CASE ip # aip[t]
      <4>1. entries'[ip] = entries[ip] BY Zenon, <2>1, <2>3, <3>2 DEF Recorded, Forget
      <4> QED BY Zenon, <2>1, <2>3, <4>1 DEF Correct, Covered
    <3> QED BY Zenon, <3>1, <3>2
  <2>4. Correct(entries) => Correct(entries)'
    BY Zenon, <2>1, <2>3 DEF Correct, Covered, InHand, Announced, Corrects
  <2>5. CacheFresh' BY Zenon, <2>1, <2>4 DEF IdInv, CacheFresh, Rebuilding
  <2> QED BY Zenon, <2>2, <2>5 DEF IdInv
<1> QED BY Zenon, <1>3, <1>4, <1>5, <1>6, <1>7, <1>8 DEF Api

\* The invariant of the cache and its watcher, step by step.
LEMMA IdInvStep == IdTypes /\ IdInv /\ [IdNext]_idVars => IdInv'
<1> SUFFICES ASSUME IdTypes, IdInv, [IdNext]_idVars PROVE IdInv' OBVIOUS
<1>0. CASE UNCHANGED <<dockerVars, watchVars, cacheVars, lookupVars>>
  BY Zenon, <1>0 DEF dockerVars, watchVars, cacheVars, lookupVars, IdInv, WatcherPhase,
     SnapshotFresh,
     RecordFresh, CacheFresh, Rebuilding, Correct, Covered, InHand, Announced
<1>1. CASE Docker BY Zenon, <1>1, DockerOpTold, ToldKeeps DEF Docker
<1>2. CASE StreamBreak
  <2>1. /\ live /\ ~live' /\ UNCHANGED <<stream, addr, missed, wpc, wid, wip, wsnap, healthy, fresh>>
    BY Zenon, <1>2 DEF StreamBreak, DockerBreaksStream, watchVars, cacheVars
  <2>2. wpc \in {"listen", "inspect", "record"}
    BY Zenon, <2>1 DEF IdTypes, WatchTypes, Places, IdInv, WatcherPhase
  <2> QED
    BY Zenon, <2>1, <2>2 DEF IdInv, WatcherPhase, SnapshotFresh, RecordFresh, CacheFresh,
       Rebuilding
<1>3. CASE Watch BY Zenon, <1>3, WatchKeeps
<1>4. CASE \E t \in Lookups : \/ \E ip \in Ips : LookupMiss(t, ip)
                              \/ LookupList(t) \/ LookupFails(t) \/ LookupDone(t)
  BY Zenon, <1>4, LookupKeeps
<1>5. CASE \E t \in Apis : Api(t) BY Zenon, <1>5, ApiKeeps
<1>6. CASE \E c \in Consumers : Receive(c) BY Zenon, <1>0, <1>6 DEF Receive
<1>7. CASE UNCHANGED idVars BY Zenon, <1>0, <1>7 DEF idVars
<1> QED BY Zenon, <1>1, <1>2, <1>3, <1>4, <1>5, <1>6, <1>7 DEF IdNext

\* At the start of the daemon nothing is cached.
LEMMA IdInvInit == IdInit => IdInv
BY Zenon DEF IdInit, IdInv, WatcherPhase, SnapshotFresh, RecordFresh, CacheFresh, Rebuilding

\* events.rs and identity.rs: Docker's, the watcher's and the cache's state are well
\* formed, for any number of containers, addresses, lookups and API tasks.
THEOREM IdentityTyped == IdSpec => []IdTypeOK
<1>1. IdSpec => []IdTypes BY IdTypesInit, IdTypesStep, PTL DEF IdSpec
<1> QED BY <1>1, IdTypesSuffice, PTL

\* events.rs, watch, and identity.rs: once the watcher has caught up with an open
\* event stream, the cache is wrong only about a container whose exit nobody could
\* see, for any number of containers, addresses, lookups, API tasks and failures.
THEOREM StaleEntriesExplained == IdSpec => []StaleEntryExplained
<1>1. IdSpec => [](IdTypes /\ IdInv)
  BY IdTypesInit, IdTypesStep, IdInvInit, IdInvStep, PTL DEF IdSpec
<1>2. IdTypes /\ IdInv => StaleEntryExplained
  <2> SUFFICES ASSUME IdTypes, IdInv, CaughtUp, NEW ip \in Ips, Stale(ip)
               PROVE  entries[ip] \in missed
    BY Zenon DEF StaleEntryExplained
  <2>1. wpc = "listen" /\ live /\ stream = <<>> BY Zenon DEF CaughtUp
  <2>2. wid = NoId BY Zenon, <2>1 DEF IdTypes, WatchTypes, Owner
  <2>3. Covered(entries[ip])
    BY Zenon, <2>1 DEF Stale, IdInv, CacheFresh, Rebuilding, Correct
  <2>4. \A m : ~Has(stream, m) BY <2>1 DEF Has
  <2> QED BY Zenon, <2>2, <2>3, <2>4 DEF Covered, Announced, InHand
<1> QED BY <1>1, <1>2, PTL

-----------------------------------------------------------------------------
(* AgentSessions: who changes what.                                        *)

\* A step of the daemon is a step of the identity cache's specification: the
\* cleanup task is its consumer, and nothing else of the agent API touches it.
LEMMA StepOfIdentity == [Next]_vars => [IdNext]_idVars
<1> SUFFICES ASSUME [Next]_vars PROVE [IdNext]_idVars OBVIOUS
<1>1. CASE Lifecycle BY Zenon, <1>1 DEF Lifecycle, IdNext
<1>2. ASSUME NEW t \in Callers, NEW id \in Ids, NEW o \in Ops, NEW k \in Tokens \cup {NoToken},
             Arrive(t, id, o, k)
      PROVE  UNCHANGED idVars
  BY Zenon, <1>2 DEF Arrive
<1>3. ASSUME NEW t \in Callers, Request(t) \/ HangUp(t) PROVE UNCHANGED idVars
  BY Zenon, <1>3 DEF Request, PeerFound, PeerUnknown, CheckIn, Refused, StatusAnswered,
     Authenticated,
              RateChecked, PermitTaken, Evaluated, EvaluationLate, HangUp
<1>4. CASE CleanReceives BY Zenon, <1>4, AgentAssumption DEF CleanReceives, IdNext
<1>5. CASE CleanSessions \/ CleanRates \/ AbandonedEnds \/ Tick
  BY Zenon, <1>5 DEF CleanSessions, CleanRates, AbandonedEnds, Tick
<1>6. CASE UNCHANGED vars BY Zenon, <1>6 DEF vars
<1> QED BY Zenon, <1>1, <1>2, <1>3, <1>4, <1>5, <1>6 DEF Next, Clean

\* The registry is changed by a check-in and by the cleanup.
LEMMA RegistryChanges ==
  ASSUME [Next]_vars
  PROVE  UNCHANGED registryVars \/ (\E t \in Callers : CheckIn(t)) \/ CleanSessions
<1>1. ASSUME NEW t \in Callers, NEW id \in Ids, NEW o \in Ops, NEW k \in Tokens \cup {NoToken},
             Arrive(t, id, o, k)
      PROVE  UNCHANGED registryVars
  BY Zenon, <1>1 DEF Arrive
<1>2. ASSUME NEW t \in Callers, Request(t) \/ HangUp(t), ~CheckIn(t) PROVE UNCHANGED registryVars
  BY Zenon, <1>2 DEF Request, PeerFound, PeerUnknown, Refused, StatusAnswered,
     Authenticated,
              RateChecked, PermitTaken, Evaluated, EvaluationLate, HangUp
<1>3. CASE Lifecycle \/ CleanReceives \/ CleanRates \/ AbandonedEnds \/ Tick
  BY Zenon, <1>3 DEF Lifecycle, CleanReceives, CleanRates, AbandonedEnds, Tick
<1>4. CASE UNCHANGED vars BY Zenon, <1>4 DEF vars, agentVars
<1> QED BY Zenon, <1>1, <1>2, <1>3, <1>4 DEF Next, Clean

\* The limiters are changed by a request's check and by the cleanup.
LEMMA RateChanges ==
  ASSUME [Next]_vars
  PROVE  UNCHANGED rateVars \/ (\E t \in Callers : RateChecked(t)) \/ CleanRates
<1>1. ASSUME NEW t \in Callers, NEW id \in Ids, NEW o \in Ops, NEW k \in Tokens \cup {NoToken},
             Arrive(t, id, o, k)
      PROVE  UNCHANGED rateVars
  BY Zenon, <1>1 DEF Arrive
<1>2. ASSUME NEW t \in Callers, Request(t) \/ HangUp(t), ~RateChecked(t) PROVE UNCHANGED rateVars
  BY Zenon, <1>2 DEF Request, PeerFound, PeerUnknown, CheckIn, Refused, StatusAnswered,
     Authenticated,
              PermitTaken, Evaluated, EvaluationLate, HangUp
<1>3. CASE Lifecycle \/ CleanReceives \/ CleanSessions \/ AbandonedEnds \/ Tick
  BY Zenon, <1>3 DEF Lifecycle, CleanReceives, CleanSessions, AbandonedEnds, Tick
<1>4. CASE UNCHANGED vars BY Zenon, <1>4 DEF vars, agentVars
<1> QED BY Zenon, <1>1, <1>2, <1>3, <1>4 DEF Next, Clean

\* Time passes by itself.
LEMMA ClockChanges ==
  ASSUME [Next]_vars
  PROVE  UNCHANGED clock \/ Tick
<1>1. ASSUME NEW t \in Callers, NEW id \in Ids, NEW o \in Ops, NEW k \in Tokens \cup {NoToken},
             Arrive(t, id, o, k)
      PROVE  UNCHANGED clock
  BY Zenon, <1>1 DEF Arrive
<1>2. ASSUME NEW t \in Callers, Request(t) \/ HangUp(t) PROVE UNCHANGED clock
  BY Zenon, <1>2 DEF Request, PeerFound, PeerUnknown, CheckIn, Refused, StatusAnswered,
     Authenticated,
              RateChecked, PermitTaken, Evaluated, EvaluationLate, HangUp
<1>3. CASE Lifecycle \/ Clean \/ AbandonedEnds
  BY Zenon, <1>3 DEF Lifecycle, Clean, CleanReceives, CleanSessions, CleanRates,
     AbandonedEnds
<1>4. CASE UNCHANGED vars BY Zenon, <1>4 DEF vars, agentVars
<1> QED BY Zenon, <1>1, <1>2, <1>3, <1>4 DEF Next

\* What a step may do to a request: it arrives, goes on with what it asked for, or
\* ends.
Ended(t) == pc'[t] = "idle" /\ op'[t] = "none" /\ peer'[t] = NoId /\ bearer'[t] = NoToken

GoesOn(t) ==
  /\ op'[t] = op[t] /\ peer'[t] = peer[t] /\ bearer'[t] = bearer[t]
  /\ \/ pc'[t] = pc[t]
     \/ pc[t] = "lookup" /\ pc'[t] = "session"
     \/ pc[t] = "session" /\ pc'[t] = "rate" /\ Accepted(t) /\ op[t] \in {"check", "submit"}
     \/ pc[t] = "rate" /\ pc'[t] = "permit" /\ op[t] = "check"
     \/ pc[t] = "permit" /\ pc'[t] = "evaluate"

Arrives(t) ==
  /\ pc[t] = "idle" /\ pc'[t] = "lookup"
  /\ op'[t] \in Ops /\ peer'[t] \in Ids
  /\ IF op'[t] = "checkin" THEN bearer'[t] = NoToken
     ELSE bearer'[t] \in Tokens /\ issued[bearer'[t]] # NoId

CallTypes ==
  /\ pc \in [Callers -> {"idle", "lookup", "session", "rate", "permit", "evaluate"}]
  /\ op \in [Callers -> Ops \cup {"none"}]
  /\ peer \in [Callers -> Owner] /\ bearer \in [Callers -> Tokens \cup {NoToken}]

\* Every step does one of these to each request, and to at most one of them.
LEMMA CallChanges ==
  ASSUME CallTypes, [Next]_vars
  PROVE  /\ \A t \in Callers : Ended(t) \/ GoesOn(t) \/ Arrives(t)
         /\ CallTypes'
<1> DEFINE Same(t) == pc'[t] = pc[t] /\ op'[t] = op[t] /\ peer'[t] = peer[t] /\ bearer'[t] = bearer[t]
<1>0. NoId \in Owner /\ Ids \subseteq Owner BY Zenon DEF Owner
<1>1. ASSUME NEW t \in Callers, CallReturn(t)
      PROVE  Ended(t) /\ CallTypes' /\ \A u \in Callers \ {t} : Same(u)
  BY Zenon, <1>0, <1>1 DEF CallReturn, CallGoto, CallTypes, Ended
<1>2. ASSUME NEW t \in Callers, NEW l \in {"session", "rate", "permit", "evaluate"},
             CallGoto(t, l), UNCHANGED <<op, peer, bearer>>
      PROVE  /\ CallTypes' /\ pc'[t] = l
             /\ op'[t] = op[t] /\ peer'[t] = peer[t] /\ bearer'[t] = bearer[t]
             /\ \A u \in Callers \ {t} : Same(u)
  BY Zenon, <1>2 DEF CallGoto, CallTypes
<1>3. ASSUME NEW t \in Callers, NEW id \in Ids, NEW o \in Ops, NEW k \in Tokens \cup {NoToken},
             Arrive(t, id, o, k)
      PROVE  Arrives(t) /\ CallTypes' /\ \A u \in Callers \ {t} : Same(u)
  <2>1. CallTypes' /\ \A u \in Callers \ {t} : Same(u)
    BY Zenon, <1>0, <1>3 DEF Arrive, CallGoto, CallTypes
  <2>2. pc'[t] = "lookup" /\ op'[t] = o /\ peer'[t] = id /\ bearer'[t] = k
    BY Zenon, <1>3 DEF Arrive, CallGoto, CallTypes
  <2>3. Arrives(t) BY Zenon, <1>3, <2>2 DEF Arrive, Arrives
  <2> QED BY Zenon, <2>1, <2>3
<1>4. ASSUME NEW t \in Callers, Request(t) \/ HangUp(t)
      PROVE  (Ended(t) \/ GoesOn(t)) /\ CallTypes' /\ \A u \in Callers \ {t} : Same(u)
  <2>1. CASE PeerFound(t) BY Zenon, <1>2, <2>1 DEF PeerFound, GoesOn
  <2>2. CASE Authenticated(t) BY Zenon, <1>2, <2>2 DEF Authenticated, GoesOn
  <2>3. CASE RateChecked(t)
    <3>1. CASE CallGoto(t, "permit") /\ UNCHANGED <<op, peer, bearer>> /\ op[t] = "check"
      BY Zenon, <1>2, <2>3, <3>1 DEF RateChecked, GoesOn
    <3>2. CASE CallReturn(t) BY Zenon, <1>1, <3>2
    <3> QED BY Zenon, <2>3, <3>1, <3>2 DEF RateChecked
  <2>4. CASE PermitTaken(t) BY Zenon, <1>2, <2>4 DEF PermitTaken, GoesOn
  <2>5. CASE CallReturn(t) BY Zenon, <1>1, <2>5
  <2> QED
    BY Zenon, <1>4, <2>1, <2>2, <2>3, <2>4, <2>5 DEF Request, PeerUnknown, CheckIn, Refused,
             StatusAnswered, Evaluated, EvaluationLate, HangUp
<1>5. CASE UNCHANGED callVars BY Zenon, <1>5 DEF callVars, CallTypes, GoesOn
<1>6. CASE Lifecycle \/ Clean \/ AbandonedEnds \/ Tick
  BY Zenon, <1>5, <1>6 DEF Lifecycle, Clean, CleanReceives, CleanSessions, CleanRates,
     AbandonedEnds, Tick
<1>7. CASE UNCHANGED vars BY Zenon, <1>5, <1>7 DEF vars, agentVars
<1> QED BY Zenon, <1>3, <1>4, <1>6, <1>7 DEF Next, GoesOn

-----------------------------------------------------------------------------
(* AgentSessions: types.  AgentTypeOK in groups, with what a request that  *)
(* is under way carries.                                                   *)

RegistryTypes ==
  /\ byContainer \in [Ids -> Tokens \cup {NoToken}]
  /\ byToken \in [Tokens -> Owner] /\ issued \in [Tokens -> Owner]
  /\ excused \subseteq Ids

RateTypes ==
  /\ rates \in [Classes -> [Ids -> [stamps : SUBSET Stamps, seen : -1 .. MaxClock]]]
  /\ admitted \in [Classes -> [Ids -> SUBSET Stamps]]

CallShape ==
  \A t \in Callers :
    /\ pc[t] # "idle" => op[t] \in Ops /\ peer[t] \in Ids
    /\ pc[t] # "idle" /\ op[t] # "checkin" => bearer[t] \in Tokens /\ issued[bearer[t]] # NoId
    /\ pc[t] \in {"rate", "permit", "evaluate"} => op[t] \in {"check", "submit"}

CleanTypes == cpc \in {"idle", "sessions", "rates"} /\ cids \subseteq Ids

AgentTypes ==
  /\ RegistryTypes /\ RateTypes /\ CallTypes /\ CallShape
  /\ CleanTypes /\ clock \in 0 .. MaxClock

\* A check-in and the cleanup leave a well-formed registry, and take no token back
\* from the history.
LEMMA RegistryTypesStep ==
  ASSUME RegistryTypes, CallTypes, CallShape, [Next]_vars
  PROVE  RegistryTypes' /\ \A k \in Tokens : issued[k] # NoId => issued'[k] = issued[k]
<1>0. NoId \in Owner /\ Ids \subseteq Owner BY Zenon DEF Owner
<1>1. excused' \subseteq Ids
  <2>1. ASSUME NEW t \in Callers, CheckIn(t) PROVE excused' \subseteq Ids
    <3>1. peer[t] \in Ids BY Zenon, <2>1 DEF CheckIn, CallShape
    <3> QED BY Zenon, <2>1, <3>1 DEF CheckIn, RegistryTypes
  <2>2. CASE Lifecycle BY Zenon, <2>2 DEF Lifecycle, ExitsUnseen, RegistryTypes
  <2>3. CASE CleanSessions BY Zenon, <2>3 DEF CleanSessions, RegistryTypes
  <2>4. CASE CleanReceives \/ CleanRates \/ AbandonedEnds \/ Tick
    BY Zenon, <2>4 DEF CleanReceives, CleanRates, AbandonedEnds, Tick, RegistryTypes
  <2>5. ASSUME NEW t \in Callers, Request(t) \/ HangUp(t) PROVE excused' \subseteq Ids
    BY Zenon, <2>1, <2>5 DEF Request, PeerFound, PeerUnknown, Refused, StatusAnswered,
       Authenticated,
                RateChecked, PermitTaken, Evaluated, EvaluationLate, HangUp, RegistryTypes
  <2>6. ASSUME NEW t \in Callers, NEW id \in Ids, NEW o \in Ops, NEW k \in Tokens \cup {NoToken},
               Arrive(t, id, o, k)
        PROVE  excused' \subseteq Ids
    BY Zenon, <2>6 DEF Arrive, RegistryTypes
  <2>7. CASE UNCHANGED vars BY Zenon, <2>7 DEF vars, agentVars, RegistryTypes
  <2> QED BY Zenon, <2>2, <2>3, <2>4, <2>5, <2>6, <2>7 DEF Next, Clean
<1>2. CASE UNCHANGED registryVars BY Zenon, <1>1, <1>2 DEF registryVars, RegistryTypes
<1>3. ASSUME NEW t \in Callers, CheckIn(t), ~UNCHANGED registryVars
      PROVE  RegistryTypes' /\ \A k \in Tokens : issued[k] # NoId => issued'[k] = issued[k]
  <2>1. PICK k \in Tokens : issued[k] = NoId /\ Insert(peer[t], k)
    BY Zenon, <1>3 DEF CheckIn, registryVars
  <2>2. peer[t] \in Ids BY Zenon, <1>3 DEF CheckIn, CallShape
  <2>3. byContainer' \in [Ids -> Tokens \cup {NoToken}]
    BY Zenon, <2>1, <2>2 DEF Insert, RegistryTypes
  <2>4. byToken' \in [Tokens -> Owner] BY Zenon, <1>0, <2>1, <2>2 DEF Insert, RegistryTypes
  <2>5. issued' \in [Tokens -> Owner] BY Zenon, <1>0, <2>1, <2>2 DEF Insert, RegistryTypes
  <2>6. \A j \in Tokens : issued[j] # NoId => issued'[j] = issued[j]
    BY Zenon, <2>1 DEF Insert, RegistryTypes
  <2> QED BY Zenon, <1>1, <2>3, <2>4, <2>5, <2>6 DEF RegistryTypes
<1>4. CASE CleanSessions
  BY Zenon, <1>0, <1>1, <1>4 DEF CleanSessions, RemoveSessions, RegistryTypes
<1> QED BY Zenon, <1>2, <1>3, <1>4, RegistryChanges

\* A request that arrives carries what its operation needs, and keeps it.
LEMMA CallShapeStep ==
  ASSUME RegistryTypes, CallTypes, CallShape, [Next]_vars
  PROVE  CallShape'
<1>1. \A k \in Tokens : issued[k] # NoId => issued'[k] = issued[k]
  BY Zenon, RegistryTypesStep
<1> SUFFICES ASSUME NEW t \in Callers
             PROVE  /\ pc'[t] # "idle" => op'[t] \in Ops /\ peer'[t] \in Ids
                    /\ pc'[t] # "idle" /\ op'[t] # "checkin" =>
                         bearer'[t] \in Tokens /\ issued'[bearer'[t]] # NoId
                    /\ pc'[t] \in {"rate", "permit", "evaluate"} => op'[t] \in {"check", "submit"}
  BY Zenon DEF CallShape
<1>2. CASE Ended(t) BY Zenon, <1>2 DEF Ended
<1>3. CASE GoesOn(t)
  <2>1. pc'[t] # "idle" => pc[t] # "idle" BY Zenon, <1>3 DEF GoesOn
  <2>2. pc'[t] \in {"rate", "permit", "evaluate"} =>
          pc[t] \in {"rate", "permit", "evaluate"} \/ op[t] \in {"check", "submit"}
    BY Zenon, <1>3 DEF GoesOn
  <2> QED BY Zenon, <1>1, <1>3, <2>1, <2>2 DEF GoesOn, CallShape
<1>4. CASE Arrives(t) BY Zenon, <1>1, <1>4 DEF Arrives
<1> QED BY Zenon, <1>2, <1>3, <1>4, CallChanges

-----------------------------------------------------------------------------
(* AgentSessions: the rate limits.  A limiter knows every request of the   *)
(* current window that was admitted, no stamp is used twice, and dropping  *)
(* a stale limiter forgets nothing of the window.                          *)

Limiters == [stamps : SUBSET Stamps, seen : -1 .. MaxClock]

LimiterOK(l, a) ==
  /\ IsFiniteSet(l.stamps)
  /\ l.seen <= clock
  /\ \A s \in l.stamps : s.at <= l.seen
  /\ \A s \in l.stamps : s.at = clock => s.n < Cardinality(Recent(l.stamps))
  /\ InWindow(a) = Recent(l.stamps)
  /\ Cardinality(Recent(l.stamps)) <= Limit

RateInv == \A k \in Classes, id \in Ids : LimiterOK(rates[k][id], admitted[k][id])

\* The two ways of writing that a stamp is of the window agree.
LEMMA WindowIsRecent ==
  ASSUME clock \in 0 .. MaxClock, NEW S \in SUBSET Stamps
  PROVE  InWindow(S) = Recent(S)
<1>1. ASSUME NEW s \in S PROVE s.at + Window > clock <=> clock - s.at < Window
  <2>1. s.at \in Int /\ clock \in Int /\ Window \in Int BY AgentAssumption DEF Stamps
  <2> QED BY <2>1
<1> QED BY Zenon, <1>1 DEF InWindow, Recent

\* An empty limiter, of a container with no request in the window.
LEMMA EmptyLimiterOK ==
  ASSUME clock \in 0 .. MaxClock, NEW a, InWindow(a) = {}
  PROVE  NoLimiter \in Limiters /\ LimiterOK(NoLimiter, a)
<1>1. NoLimiter.stamps = {} /\ NoLimiter.seen = -1 BY Zenon DEF NoLimiter
<1>2. NoLimiter \in Limiters
  <2>1. -1 \in -1 .. MaxClock BY AgentAssumption
  <2> QED BY Zenon, <2>1 DEF NoLimiter, Limiters
<1>3. Recent({}) = {} BY Zenon DEF Recent
<1>4. IsFiniteSet({}) /\ Cardinality({}) = 0 BY Zenon, FS_EmptySet
<1>5. 0 <= Limit /\ -1 <= clock BY AgentAssumption
<1> QED BY Zenon, <1>1, <1>2, <1>3, <1>4, <1>5 DEF LimiterOK

\* is_stale and reap_stale: a limiter that was not used for two windows holds no
\* stamp of the current one, so that dropping it forgets nothing.
LEMMA ReapedOK ==
  ASSUME RateTypes, clock \in 0 .. MaxClock, NEW k \in Classes, NEW id \in Ids,
         LimiterOK(rates[k][id], admitted[k][id])
  PROVE  Reaped(k)[id] \in Limiters /\ LimiterOK(Reaped(k)[id], admitted[k][id])
<1>1. rates[k][id] \in Limiters BY Zenon DEF RateTypes, Limiters
<1>2. CASE rates[k][id] # NoLimiter /\ IsStale(rates[k][id])
  <2>1. Reaped(k)[id] = NoLimiter BY Zenon, <1>2 DEF Reaped
  <2>2. ASSUME NEW s \in rates[k][id].stamps PROVE ~(clock - s.at < Window)
    <3>1. s.at \in Int /\ rates[k][id].seen \in Int BY <1>1 DEF Limiters, Stamps
    <3>2. s.at <= rates[k][id].seen BY Zenon DEF LimiterOK
    <3>3. clock - rates[k][id].seen > 2 * Window BY Zenon, <1>2 DEF IsStale
    <3>4. Window \in Nat /\ clock \in Int BY AgentAssumption
    <3> QED BY <3>1, <3>2, <3>3, <3>4
  <2>3. Recent(rates[k][id].stamps) = {} BY Zenon, <2>2 DEF Recent
  <2>4. InWindow(admitted[k][id]) = {} BY Zenon, <2>3 DEF LimiterOK
  <2> QED BY Zenon, <2>1, <2>4, EmptyLimiterOK
<1>3. CASE ~(rates[k][id] # NoLimiter /\ IsStale(rates[k][id]))
  <2>1. Reaped(k)[id] = rates[k][id] BY Zenon, <1>3 DEF Reaped
  <2> QED BY Zenon, <1>1, <2>1
<1> QED BY Zenon, <1>2, <1>3

\* The number of a new stamp is not taken.
LEMMA StampIsNew ==
  ASSUME clock \in 0 .. MaxClock, NEW l \in Limiters, NEW a \in SUBSET Stamps, LimiterOK(l, a)
  PROVE  /\ IsFiniteSet(Recent(l.stamps)) /\ Cardinality(Recent(l.stamps)) \in Nat
         /\ Stamp(Recent(l.stamps)) \in Stamps
         /\ Stamp(Recent(l.stamps)) \notin Recent(l.stamps)
<1> DEFINE kept == Recent(l.stamps)
<1>1. kept \subseteq l.stamps BY Zenon DEF Recent
<1>2. IsFiniteSet(kept) BY Zenon, <1>1, FS_Subset DEF LimiterOK
<1>3. Cardinality(kept) \in Nat BY Zenon, <1>2, FS_CardinalityType
<1>4. Stamp(kept) \in Stamps BY Zenon, <1>3 DEF Stamp, Stamps
<1>5. ASSUME Stamp(kept) \in kept PROVE FALSE
  <2>1. Stamp(kept).at = clock /\ Stamp(kept).n = Cardinality(kept) BY Zenon DEF Stamp
  <2>2. Stamp(kept).n < Cardinality(kept) BY Zenon, <1>1, <1>5, <2>1 DEF LimiterOK
  <2> QED BY <1>3, <2>1, <2>2
<1> QED BY Zenon, <1>2, <1>3, <1>4, <1>5

\* check_rate_limit: the old stamps are dropped, and one is added if there are fewer
\* than `limit'.
LEMMA CheckedOK ==
  ASSUME clock \in 0 .. MaxClock, NEW l \in Limiters, NEW a \in SUBSET Stamps, LimiterOK(l, a)
  PROVE  /\ LimiterOK([stamps |-> Recent(l.stamps), seen |-> clock], a)
         /\ Cardinality(Recent(l.stamps)) < Limit =>
              LimiterOK([stamps |-> Recent(l.stamps) \cup {Stamp(Recent(l.stamps))}, seen |-> clock],
                        InWindow(a) \cup {Stamp(Recent(l.stamps))})
<1> DEFINE kept  == Recent(l.stamps)
           new   == Stamp(kept)
           more  == kept \cup {new}
<1>0. clock \in Nat /\ Window \in Nat \ {0} /\ Limit \in Nat /\ clock <= clock
  BY AgentAssumption
<1>1. IsFiniteSet(kept) /\ Cardinality(kept) \in Nat /\ new \in Stamps /\ new \notin kept
  BY Zenon, StampIsNew
<1>2. new.at = clock /\ new.n = Cardinality(kept) BY Zenon DEF Stamp
<1>3. kept \subseteq l.stamps /\ Recent(kept) = kept BY Zenon DEF Recent
<1>4. \A s \in kept : s.at <= clock
  <2>1. ASSUME NEW s \in kept PROVE s.at <= clock
    <3>1. s \in Stamps /\ l.seen \in Int BY <1>3, <2>1 DEF Limiters
    <3>2. s.at \in Int BY <3>1 DEF Stamps
    <3> QED BY <1>0, <1>3, <3>1, <3>2 DEF LimiterOK
  <2> QED BY Zenon, <2>1
<1>5. \A s \in kept : s.at = clock => s.n < Cardinality(kept) BY Zenon, <1>3 DEF LimiterOK
<1>6. LimiterOK([stamps |-> kept, seen |-> clock], a)
  <2> DEFINE r == [stamps |-> kept, seen |-> clock]
  <2>1. r.stamps = kept /\ r.seen = clock OBVIOUS
  <2> HIDE DEF r
  <2> QED BY Zenon, <1>0, <1>1, <1>3, <1>4, <1>5, <2>1 DEF LimiterOK
<1>7. ASSUME Cardinality(kept) < Limit
      PROVE  LimiterOK([stamps |-> more, seen |-> clock], InWindow(a) \cup {new})
  <2> DEFINE r == [stamps |-> more, seen |-> clock]
  <2>1. r.stamps = more /\ r.seen = clock OBVIOUS
  <2>2. clock - new.at < Window BY <1>0, <1>2
  <2>3. Recent(more) = more BY Zenon, <1>3, <2>2 DEF Recent
  <2>4. IsFiniteSet(more) /\ Cardinality(more) = Cardinality(kept) + 1
    BY Zenon, <1>1, FS_AddElement
  <2>5. InWindow(a) \cup {new} = more BY Zenon DEF LimiterOK
  <2>6. more \in SUBSET Stamps BY Zenon, <1>1, <1>3 DEF Limiters
  <2>7. InWindow(more) = more BY Zenon, <2>3, <2>6, WindowIsRecent
  <2>8. \A s \in more : s.at <= clock BY Zenon, <1>0, <1>2, <1>4
  <2>9. \A s \in more : s.at = clock => s.n < Cardinality(more)
    <3>1. ASSUME NEW s \in kept, s.at = clock PROVE s.n < Cardinality(more)
      <4>1. s.n \in Nat BY Zenon, <1>3, <3>1 DEF Limiters, Stamps
      <4> QED BY <1>1, <1>5, <2>4, <3>1, <4>1
    <3>2. new.n < Cardinality(more) BY <1>1, <1>2, <2>4
    <3> QED BY Zenon, <3>1, <3>2
  <2>10. Cardinality(more) <= Limit BY <1>0, <1>1, <1>7, <2>4
  <2> HIDE DEF r, more
  <2> QED BY Zenon, <1>0, <2>1, <2>3, <2>4, <2>5, <2>7, <2>8, <2>9, <2>10 DEF LimiterOK
<1> QED BY Zenon, <1>6, <1>7

\* Time passes: a limiter and the history lose the same stamps.
LEMMA TickOK ==
  ASSUME clock \in 0 .. MaxClock, clock' = clock + 1, NEW l \in Limiters, NEW a \in SUBSET Stamps,
         LimiterOK(l, a)
  PROVE  LimiterOK(l, a)'

<1>0. clock \in Nat /\ clock' \in Nat /\ Window \in Nat \ {0} /\ Limit \in Nat
  BY AgentAssumption
<1>1. \A s \in l.stamps : s.at \in Nat /\ s.n \in Nat BY DEF Limiters, Stamps
<1>2. l.seen \in Int /\ l.seen <= clock' BY <1>0 DEF LimiterOK, Limiters
<1>3. \A s \in l.stamps : s.at # clock'
  <2>1. ASSUME NEW s \in l.stamps PROVE s.at # clock'
    <3>1. s.at \in Nat /\ s.at <= l.seen /\ l.seen <= clock BY Zenon, <1>1 DEF LimiterOK
    <3> QED BY <1>0, <1>2, <3>1
  <2> QED BY Zenon, <2>1
<1>4. Recent(l.stamps)' = {s \in l.stamps : clock' - s.at < Window} BY Zenon DEF Recent
<1>5. Recent(l.stamps)' \subseteq Recent(l.stamps)
  <2>1. ASSUME NEW s \in l.stamps, clock' - s.at < Window PROVE clock - s.at < Window
    BY <1>0, <1>1, <2>1
  <2> QED BY Zenon, <1>4, <2>1 DEF Recent
<1>6. InWindow(a)' = {s \in a : s.at + Window > clock'} BY Zenon DEF InWindow
<1>7. InWindow(a)' = Recent(l.stamps)'
  <2>1. ASSUME NEW s \in a, s.at + Window > clock' PROVE s \in InWindow(a) /\ clock' - s.at < Window
    <3>1. s.at \in Nat BY DEF Stamps
    <3>2. s.at + Window > clock BY <1>0, <2>1, <3>1
    <3> QED BY <1>0, <2>1, <3>1, <3>2 DEF InWindow
  <2>2. ASSUME NEW s \in l.stamps, clock' - s.at < Window PROVE s \in a /\ s.at + Window > clock'
    <3>1. clock - s.at < Window BY <1>0, <1>1, <2>2
    <3>2. s \in InWindow(a) BY Zenon, <3>1 DEF LimiterOK, Recent
    <3> QED BY <1>0, <1>1, <2>2, <3>2 DEF InWindow
  <2>3. InWindow(a)' \subseteq Recent(l.stamps)'
    BY Zenon, <1>4, <1>6, <2>1 DEF LimiterOK, Recent
  <2>4. Recent(l.stamps)' \subseteq InWindow(a)' BY Zenon, <1>4, <1>6, <2>2
  <2> QED BY Zenon, <2>3, <2>4
<1>8. Cardinality(Recent(l.stamps)') <= Limit
  <2>1. IsFiniteSet(Recent(l.stamps)) /\ Cardinality(Recent(l.stamps)) \in Nat
    BY Zenon, StampIsNew
  <2>2. Cardinality(Recent(l.stamps)') <= Cardinality(Recent(l.stamps))
        /\ IsFiniteSet(Recent(l.stamps)')
    BY Zenon, <1>5, <2>1, FS_Subset
  <2>3. Cardinality(Recent(l.stamps)') \in Nat BY Zenon, <2>2, FS_CardinalityType
  <2> QED BY <1>0, <2>1, <2>2, <2>3 DEF LimiterOK
<1> QED BY Zenon, <1>2, <1>3, <1>7, <1>8 DEF LimiterOK

\* A limiter that is all right stays so while no time passes.
LEMMA SameClockOK ==
  ASSUME clock' = clock, NEW l, NEW a, LimiterOK(l, a)
  PROVE  LimiterOK(l, a)'
BY Zenon DEF LimiterOK, Recent, InWindow

\* The limiters that a step leaves, at the time it leaves.
LEMMA LimitersAfter ==
  ASSUME clock' = clock,
         \A k \in Classes, id \in Ids : LimiterOK(rates'[k][id], admitted'[k][id])
  PROVE  RateInv'
<1> SUFFICES ASSUME NEW k \in Classes, NEW id \in Ids
             PROVE  LimiterOK(rates[k][id], admitted[k][id])'
  BY Zenon DEF RateInv
<1>1. PICK l, a : l = rates'[k][id] /\ a = admitted'[k][id] OBVIOUS
<1>2. LimiterOK(l, a)' BY Zenon, <1>1, SameClockOK
<1> QED BY Zenon, <1>1, <1>2 DEF LimiterOK

\* The limiters, step by step.
LEMMA RateStep ==
  ASSUME RateTypes, RateInv, CallShape, clock \in 0 .. MaxClock, [Next]_vars
  PROVE  RateTypes' /\ RateInv'
<1>0. \A k \in Classes, id \in Ids :
        /\ rates[k][id] \in Limiters /\ admitted[k][id] \in SUBSET Stamps
        /\ LimiterOK(rates[k][id], admitted[k][id])
  BY Zenon DEF RateTypes, RateInv, Limiters
<1>1. CASE UNCHANGED rateVars /\ UNCHANGED clock
  <2>1. rates' = rates /\ admitted' = admitted /\ clock' = clock BY Zenon, <1>1 DEF rateVars
  <2>2. RateInv' BY Zenon, <1>0, <2>1, LimitersAfter
  <2> QED BY Zenon, <2>1, <2>2 DEF RateTypes
<1>2. CASE UNCHANGED rateVars /\ Tick
  <2>1. clock' = clock + 1 /\ rates' = rates /\ admitted' = admitted
    BY Zenon, <1>2 DEF Tick, rateVars
  <2>2. ASSUME NEW k \in Classes, NEW id \in Ids PROVE LimiterOK(rates[k][id], admitted[k][id])'
    <3>1. PICK l \in Limiters, a \in SUBSET Stamps : l = rates[k][id] /\ a = admitted[k][id]
      BY Zenon, <1>0
    <3>2. LimiterOK(l, a)' BY Zenon, <1>0, <2>1, <3>1, TickOK
    <3> QED BY Zenon, <2>1, <3>1, <3>2 DEF LimiterOK
  <2> QED BY Zenon, <2>1, <2>2 DEF RateTypes, RateInv
<1>3. ASSUME NEW t \in Callers, RateChecked(t) PROVE RateTypes' /\ RateInv'
  <2> DEFINE k  == Class(t)
             id == peer[t]
             l  == Reaped(k)[id]
             a  == admitted[k][id]
             kept == Recent(l.stamps)
             on == [stamps |-> kept \cup {Stamp(kept)}, seen |-> clock]
             off == [stamps |-> kept, seen |-> clock]
  <2>1. k \in Classes /\ id \in Ids /\ clock' = clock
    BY Zenon, <1>3 DEF RateChecked, CallShape
  <2>2. l \in Limiters /\ LimiterOK(l, a) BY Zenon, <1>0, <2>1, ReapedOK
  <2>3. /\ Stamp(kept) \in Stamps /\ kept \in SUBSET Stamps /\ Cardinality(kept) \in Nat
        /\ InWindow(a) \in SUBSET Stamps
    BY Zenon, <1>0, <2>1, <2>2, StampIsNew DEF Recent, Limiters, LimiterOK
  <2>4. on \in Limiters /\ off \in Limiters
    <3>1. clock \in -1 .. MaxClock BY AgentAssumption
    <3> QED BY Zenon, <2>3, <3>1 DEF Limiters
  <2>5. LimiterOK(off, a) /\ (Admits(k, id) => LimiterOK(on, InWindow(a) \cup {Stamp(kept)}))
    BY Zenon, <1>0, <2>1, <2>2, CheckedOK DEF Admits
  <2>6. ASSUME NEW i \in Ids \ {id}
        PROVE  Reaped(k)[i] \in Limiters /\ LimiterOK(Reaped(k)[i], admitted[k][i])
    BY Zenon, <1>0, <2>1, ReapedOK
  <2>7. rates' = [rates EXCEPT ![k] = [Reaped(k) EXCEPT ![id] = IF Admits(k, id) THEN on ELSE off]]
    BY Zenon, <1>3 DEF RateChecked, Checked
  <2>8. admitted' = IF Admits(k, id)
                    THEN [admitted EXCEPT ![k][id] = InWindow(a) \cup {Stamp(kept)}] ELSE admitted
    <3>1. InWindow(a) = kept BY Zenon, <2>2 DEF LimiterOK
    <3>2. admitted' = IF Admits(k, id)
                      THEN [admitted EXCEPT ![k][id] = InWindow(a) \cup {Stamp(InWindow(a))}]
                      ELSE admitted
      BY Zenon, <1>3, <2>1 DEF RateChecked, RateTypes
    <3> QED BY Zenon, <3>1, <3>2
  <2>9. DOMAIN Reaped(k) = Ids /\ Reaped(k) = [i \in Ids |-> Reaped(k)[i]]
    BY Zenon DEF Reaped
  <2> HIDE DEF k, id, l, a, kept, on, off
  <2>10. /\ rates'[k][id] = IF Admits(k, id) THEN on ELSE off
         /\ \A i \in Ids \ {id} : rates'[k][i] = Reaped(k)[i]
         /\ \A j \in Classes \ {k} : rates'[j] = rates[j]
    BY Zenon, <2>1, <2>7, <2>9 DEF RateTypes
  <2>11. /\ admitted'[k][id] = IF Admits(k, id) THEN InWindow(a) \cup {Stamp(kept)} ELSE a
         /\ \A i \in Ids \ {id} : admitted'[k][i] = admitted[k][i]
         /\ \A j \in Classes \ {k} : admitted'[j] = admitted[j]
    BY Zenon, <2>1, <2>8 DEF RateTypes, a
  <2>12. ASSUME NEW j \in Classes, NEW i \in Ids
         PROVE  /\ rates'[j][i] \in Limiters /\ admitted'[j][i] \in SUBSET Stamps
                /\ LimiterOK(rates'[j][i], admitted'[j][i])
    <3>1. CASE j # k BY Zenon, <1>0, <2>10, <2>11, <3>1
    <3>2. CASE j = k /\ i # id BY Zenon, <1>0, <2>6, <2>10, <2>11, <3>2
    <3>3. CASE j = k /\ i = id
      <4>1. CASE Admits(k, id) BY Zenon, <2>3, <2>4, <2>5, <2>10, <2>11, <3>3, <4>1
      <4>2. CASE ~Admits(k, id)
        BY Zenon, <1>0, <2>1, <2>4, <2>5, <2>10, <2>11, <3>3, <4>2 DEF a
      <4> QED BY Zenon, <4>1, <4>2
    <3> QED BY Zenon, <3>1, <3>2, <3>3
  <2>13. rates' \in [Classes -> [Ids -> Limiters]]
    <3>1. [Reaped(k) EXCEPT ![id] = IF Admits(k, id) THEN on ELSE off] \in [Ids -> Limiters]
      BY Zenon, <2>2, <2>4, <2>6, <2>9
    <3> QED BY Zenon, <2>7, <3>1 DEF RateTypes, Limiters
  <2>14. admitted' \in [Classes -> [Ids -> SUBSET Stamps]]
    BY Zenon, <2>1, <2>3, <2>8 DEF RateTypes
  <2>15. RateInv' BY Zenon, <2>1, <2>12, LimitersAfter
  <2> QED BY Zenon, <2>13, <2>14, <2>15 DEF RateTypes, Limiters
<1>4. CASE CleanRates
  <2>1. clock' = clock BY Zenon, <1>4 DEF CleanRates
  <2>2. NoLimiter \in Limiters /\ LimiterOK(NoLimiter, {})
    BY Zenon, EmptyLimiterOK DEF InWindow
  <2>3. ASSUME NEW j \in Classes, NEW i \in Ids
        PROVE  /\ rates'[j][i] \in Limiters /\ admitted'[j][i] \in SUBSET Stamps
               /\ LimiterOK(rates'[j][i], admitted'[j][i])
    BY Zenon, <1>0, <1>4, <2>2 DEF CleanRates
  <2>4. RateTypes' BY Zenon, <1>0, <1>4, <2>2 DEF CleanRates, RateTypes, Limiters
  <2>5. RateInv' BY Zenon, <2>1, <2>3, LimitersAfter
  <2> QED BY Zenon, <2>4, <2>5
<1>5. CASE clock' # clock
  <2>1. Tick BY Zenon, <1>5, ClockChanges
  <2> QED BY Zenon, <1>2, <2>1 DEF Tick
<1> QED BY Zenon, <1>1, <1>3, <1>4, <1>5, RateChanges

-----------------------------------------------------------------------------
(* AgentSessions: the types together.                                      *)

\* The cleanup works on containers.
LEMMA CleanTypesStep ==
  ASSUME IdTypes, CleanTypes, [Next]_vars
  PROVE  CleanTypes'
<1>1. CASE UNCHANGED cleanVars BY Zenon, <1>1 DEF cleanVars, CleanTypes
<1>2. CASE CleanReceives
  <2>1. Cleaner \in Consumers BY Zenon, AgentAssumption
  <2>2. queue[Cleaner] \in Seq(Event \cup {Reset}) BY Zenon, <2>1 DEF IdTypes, CastTypes
  <2>3. CASE lagged[Cleaner] \/ Head(queue[Cleaner]) = Reset
    BY Zenon, <1>2, <2>3 DEF CleanReceives, CleanTypes
  <2>4. CASE ~(lagged[Cleaner] \/ Head(queue[Cleaner]) = Reset)
    <3>1. queue[Cleaner] # <<>> BY Zenon, <1>2, <2>4 DEF CleanReceives, Receive
    <3>2. Head(queue[Cleaner]) \in Event \cup {Reset} BY Zenon, <2>2, <3>1, SeqHeadTail
    <3>3. Head(queue[Cleaner]).id \in Ids BY Zenon, <2>4, <3>2 DEF Event
    <3> QED BY Zenon, <1>2, <2>4, <3>3 DEF CleanReceives, CleanTypes, cleanVars
  <2> QED BY Zenon, <2>3, <2>4
<1>3. CASE CleanSessions BY Zenon, <1>3 DEF CleanSessions, CleanTypes
<1>4. CASE CleanRates BY Zenon, <1>4 DEF CleanRates, CleanTypes
<1>5. ASSUME NEW t \in Callers, NEW id \in Ids, NEW o \in Ops, NEW k \in Tokens \cup {NoToken},
             Arrive(t, id, o, k)
      PROVE  UNCHANGED cleanVars
  BY Zenon, <1>5 DEF Arrive
<1>6. ASSUME NEW t \in Callers, Request(t) \/ HangUp(t) PROVE UNCHANGED cleanVars
  BY Zenon, <1>6 DEF Request, PeerFound, PeerUnknown, CheckIn, Refused, StatusAnswered,
     Authenticated,
              RateChecked, PermitTaken, Evaluated, EvaluationLate, HangUp
<1>7. CASE Lifecycle \/ AbandonedEnds \/ Tick
  BY Zenon, <1>1, <1>7 DEF Lifecycle, AbandonedEnds, Tick
<1>8. CASE UNCHANGED vars BY Zenon, <1>1, <1>8 DEF vars, agentVars
<1> QED BY Zenon, <1>1, <1>2, <1>3, <1>4, <1>5, <1>6, <1>7, <1>8 DEF Next, Clean

AgentInv == IdTypes /\ IdInv /\ AgentTypes /\ RateInv

\* What holds at the start of the daemon: no session, no request, no limiter.
LEMMA AgentInvInit == Init => AgentInv
<1> SUFFICES ASSUME Init PROVE AgentInv OBVIOUS
<1>1. IdTypes /\ IdInv BY Zenon, IdTypesInit, IdInvInit DEF Init
<1>2. RegistryTypes BY Zenon DEF Init, RegistryTypes, Owner
<1>3. CallTypes /\ CallShape BY Zenon DEF Init, CallTypes, CallShape, Owner
<1>4. CleanTypes /\ clock \in 0 .. MaxClock BY AgentAssumption DEF Init, CleanTypes
<1>5. InWindow({}) = {} BY Zenon DEF InWindow
<1>6. NoLimiter \in Limiters /\ LimiterOK(NoLimiter, {})
  BY Zenon, <1>4, <1>5, EmptyLimiterOK
<1>7. \A k \in Classes, id \in Ids : rates[k][id] = NoLimiter /\ admitted[k][id] = {}
  BY Zenon DEF Init, NoRates
<1>8. RateTypes BY Zenon, <1>6 DEF Init, NoRates, RateTypes, Limiters
<1>9. RateInv BY Zenon, <1>6, <1>7 DEF RateInv
<1> QED BY Zenon, <1>1, <1>2, <1>3, <1>4, <1>8, <1>9 DEF AgentInv, AgentTypes

\* Every step keeps the types, the identity cache's invariant and the limiters'.
LEMMA AgentInvStep == AgentInv /\ [Next]_vars => AgentInv'
<1> SUFFICES ASSUME AgentInv, [Next]_vars PROVE AgentInv' OBVIOUS
<1> USE DEF AgentInv, AgentTypes
<1>1. IdTypes' /\ IdInv' BY Zenon, StepOfIdentity, IdTypesStep, IdInvStep
<1>2. RegistryTypes' BY Zenon, RegistryTypesStep
<1>3. CallTypes' BY Zenon, CallChanges
<1>4. CallShape' BY Zenon, CallShapeStep
<1>5. RateTypes' /\ RateInv' BY Zenon, RateStep
<1>6. CleanTypes' BY Zenon, CleanTypesStep
<1>7. clock' \in 0 .. MaxClock
  <2>1. CASE UNCHANGED clock BY Zenon, <2>1
  <2>2. CASE Tick BY <2>2, AgentAssumption DEF Tick
  <2> QED BY Zenon, <2>1, <2>2, ClockChanges
<1> QED BY Zenon, <1>1, <1>2, <1>3, <1>4, <1>5, <1>6, <1>7

\* limiter.rs, check_rate_limit: within one window a container passes a limit at
\* most `limit' times unless its limiter was cleared, for every limit and window;
\* is_stale and reap_stale forget no request of the window.
THEOREM RatesHold == Spec => []RateHolds
<1>1. Spec => []AgentInv BY AgentInvInit, AgentInvStep, PTL DEF Spec
<1>2. AgentInv => RateHolds BY Zenon DEF AgentInv, RateInv, LimiterOK, RateHolds
<1> QED BY <1>1, <1>2, PTL

\* The stamp that the next request of a container gets is not among those of the window.
StampsFresh ==
  \A k \in Classes, id \in Ids :
    Stamp(Recent(Reaped(k)[id].stamps)) \notin Recent(Reaped(k)[id].stamps)

\* limiter.rs: every request that is admitted is counted, for no stamp of the window
\* is taken twice.  The set of stamps thus stands for the code's queue of times.
THEOREM EveryRequestCounted == Spec => []StampsFresh
<1>1. Spec => []AgentInv BY AgentInvInit, AgentInvStep, PTL DEF Spec
<1>2. AgentInv => StampsFresh
  <2> SUFFICES ASSUME AgentInv, NEW k \in Classes, NEW id \in Ids
               PROVE  Stamp(Recent(Reaped(k)[id].stamps)) \notin Recent(Reaped(k)[id].stamps)
    BY Zenon DEF StampsFresh
  <2>1. RateTypes /\ clock \in 0 .. MaxClock /\ LimiterOK(rates[k][id], admitted[k][id])
    BY Zenon DEF AgentInv, AgentTypes, RateInv
  <2>2. Reaped(k)[id] \in Limiters /\ LimiterOK(Reaped(k)[id], admitted[k][id])
    BY Zenon, <2>1, ReapedOK
  <2>3. admitted[k][id] \in SUBSET Stamps BY Zenon, <2>1 DEF RateTypes
  <2> QED BY Zenon, <2>1, <2>2, <2>3, StampIsNew
<1> QED BY <1>1, <1>2, PTL

-----------------------------------------------------------------------------
(* AgentSessions: the registry.                                            *)

Live == {k \in Tokens : byToken[k] # NoId}

RegistryInv ==
  /\ \A id \in Ids, k \in Tokens : byContainer[id] = k <=> byToken[k] = id
  /\ \A k \in Live : issued[k] = byToken[k]
  /\ Cardinality(Live) <= MaxSessions

\* insert and remove_container: the maps stay inverse to each other, and the
\* registry within its limit.
LEMMA RegistryStep ==
  ASSUME AgentInv, RegistryInv, [Next]_vars
  PROVE  RegistryInv'
<1>0. /\ RegistryTypes /\ CallShape /\ NoId \notin Ids /\ NoToken \notin Tokens
      /\ IsFiniteSet(Live) /\ Cardinality(Live) \in Nat /\ MaxSessions \in Nat
  <2>1. IsFiniteSet(Live) BY Zenon, AgentAssumption, FS_Subset DEF Live
  <2> QED
    BY Zenon, <2>1, FS_CardinalityType, AgentAssumption, IdentityAssumption
       DEF AgentInv, AgentTypes
<1>1. CASE UNCHANGED registryVars
  <2>1. byContainer' = byContainer /\ byToken' = byToken /\ issued' = issued
    BY Zenon, <1>1 DEF registryVars
  <2> QED BY Zenon, <2>1 DEF RegistryInv, Live
<1>2. ASSUME NEW t \in Callers, CheckIn(t), ~UNCHANGED registryVars PROVE RegistryInv'
  <2>1. PICK k \in Tokens : issued[k] = NoId /\ Insert(peer[t], k)
    BY Zenon, <1>2 DEF CheckIn, registryVars
  <2>2. peer[t] \in Ids BY Zenon, <1>0, <1>2 DEF CheckIn, CallShape
  <2>3. ~HasSession(peer[t]) /\ HasRoom(peer[t]) BY Zenon, <1>2 DEF CheckIn, registryVars
  <2>4. byContainer[peer[t]] = NoToken
    BY <1>0, <2>2, <2>3 DEF HasSession, RegistryInv, RegistryTypes
  <2>5. Cardinality(Live) < MaxSessions BY Zenon, <2>3, <2>4 DEF HasRoom, Live
  <2>6. byToken[k] = NoId BY Zenon, <2>1 DEF RegistryInv, Live
  <2>7. /\ byContainer'[peer[t]] = k /\ \A id \in Ids \ {peer[t]} : byContainer'[id] = byContainer[id]
        /\ byToken'[k] = peer[t] /\ \A j \in Tokens \ {k} : byToken'[j] = byToken[j]
        /\ issued'[k] = peer[t] /\ \A j \in Tokens \ {k} : issued'[j] = issued[j]
    BY Zenon, <1>0, <2>1, <2>2, <2>4 DEF Insert, RegistryTypes
  <2>8. \A id \in Ids, j \in Tokens : byContainer'[id] = j <=> byToken'[j] = id
    <3>1. ASSUME NEW id \in Ids, NEW j \in Tokens PROVE byContainer'[id] = j <=> byToken'[j] = id
      <4>1. byContainer[id] = j <=> byToken[j] = id BY Zenon DEF RegistryInv
      <4>2. byContainer[id] = k <=> byToken[k] = id BY Zenon DEF RegistryInv
      <4>3. byContainer[peer[t]] = j <=> byToken[j] = peer[t] BY Zenon, <2>2 DEF RegistryInv
      <4> QED BY Zenon, <1>0, <2>2, <2>4, <2>6, <2>7, <4>1, <4>2, <4>3
    <3> QED BY Zenon, <3>1
  <2>9. Live' = Live \cup {k} /\ k \notin Live
    <3>1. Live' = {j \in Tokens : byToken'[j] # NoId} BY Zenon DEF Live
    <3>2. peer[t] # NoId BY Zenon, <1>0, <2>2
    <3> QED BY Zenon, <2>6, <2>7, <3>1, <3>2 DEF Live
  <2>10. Cardinality(Live') = Cardinality(Live) + 1 BY Zenon, <1>0, <2>9, FS_AddElement
  <2>11. Cardinality(Live') <= MaxSessions BY <1>0, <2>5, <2>10
  <2>12. \A j \in Live' : issued'[j] = byToken'[j]
    <3>1. Live \subseteq Tokens /\ \A j \in Live : issued[j] = byToken[j]
      BY Zenon DEF Live, RegistryInv
    <3> QED BY Zenon, <2>7, <2>9, <3>1
  <2> QED BY Zenon, <2>8, <2>11, <2>12 DEF RegistryInv
<1>3. CASE CleanSessions
  <2>1. /\ \A id \in Ids : byContainer'[id] = IF id \in cids THEN NoToken ELSE byContainer[id]
        /\ \A k \in Tokens : byToken'[k] = IF byToken[k] \in cids THEN NoId ELSE byToken[k]
        /\ issued' = issued
    BY Zenon, <1>3 DEF CleanSessions, RemoveSessions
  <2>2. Live' \subseteq Live BY Zenon, <2>1 DEF Live
  <2>3. Cardinality(Live') <= Cardinality(Live) /\ Cardinality(Live') \in Nat
    BY Zenon, <1>0, <2>2, FS_Subset, FS_CardinalityType
  <2>4. Cardinality(Live') <= MaxSessions BY <1>0, <2>3 DEF RegistryInv
  <2>5. \A id \in Ids, k \in Tokens : byContainer'[id] = k <=> byToken'[k] = id
    <3>1. ASSUME NEW id \in Ids, NEW k \in Tokens PROVE byContainer'[id] = k <=> byToken'[k] = id
      <4>1. byContainer[id] = k <=> byToken[k] = id BY Zenon DEF RegistryInv
      <4> QED BY Zenon, <1>0, <2>1, <4>1
    <3> QED BY Zenon, <3>1
  <2>6. \A k \in Live' : issued'[k] = byToken'[k] BY Zenon, <2>1, <2>2 DEF RegistryInv, Live
  <2> QED BY Zenon, <2>4, <2>5, <2>6 DEF RegistryInv
<1> QED BY Zenon, <1>1, <1>2, <1>3, RegistryChanges

\* At the start no token is valid.
LEMMA RegistryInit == Init => RegistryInv
<1> SUFFICES ASSUME Init PROVE RegistryInv OBVIOUS
<1>1. Live = {} BY Zenon DEF Init, Live
<1>2. Cardinality(Live) <= MaxSessions BY <1>1, FS_EmptySet, AgentAssumption
<1> QED BY Zenon, <1>1, <1>2, AgentAssumption, IdentityAssumption DEF Init, RegistryInv

\* sessions.rs: by_container and by_token stay inverse to each other and within
\* MAX_SESSIONS, for any number of containers, tokens and concurrent requests.
THEOREM RegistriesConsistent == Spec => []RegistryConsistent
<1>1. Spec => [](AgentInv /\ RegistryInv)
  BY AgentInvInit, AgentInvStep, RegistryInit, RegistryStep, PTL DEF Spec
<1>2. RegistryInv => RegistryConsistent BY Zenon DEF RegistryInv, RegistryConsistent, Live
<1> QED BY <1>1, <1>2, PTL

-----------------------------------------------------------------------------
(* AgentSessions: whom a request acts for.                                 *)

\* resolve_session: what a request was let through for stays its own.
LEMMA OwnSessionStep ==
  ASSUME AgentInv, RegistryInv, ActsForOwnSession, [Next]_vars
  PROVE  ActsForOwnSession'
<1>0. RegistryTypes /\ CallTypes /\ CallShape BY Zenon DEF AgentInv, AgentTypes
<1>1. \A k \in Tokens : issued[k] # NoId => issued'[k] = issued[k]
  BY Zenon, <1>0, RegistryTypesStep
<1> SUFFICES ASSUME NEW t \in Callers, pc'[t] \in {"rate", "permit", "evaluate"}
             PROVE  issued'[bearer'[t]] = peer'[t]
  BY Zenon DEF ActsForOwnSession
<1>2. GoesOn(t) BY Zenon, <1>0, CallChanges DEF Ended, Arrives
<1>3. bearer'[t] = bearer[t] /\ peer'[t] = peer[t] BY Zenon, <1>2 DEF GoesOn
<1>4. pc[t] # "idle" BY Zenon, <1>2 DEF GoesOn
<1>5. op[t] # "checkin"
  <2>1. pc[t] \in {"rate", "permit", "evaluate"} \/ op[t] \in {"check", "submit"}
    BY Zenon, <1>2 DEF GoesOn
  <2> QED BY Zenon, <1>0, <2>1 DEF CallShape
<1>6. bearer[t] \in Tokens /\ issued[bearer[t]] # NoId /\ peer[t] \in Ids
  BY Zenon, <1>0, <1>4, <1>5 DEF CallShape
<1>7. issued[bearer[t]] = peer[t]
  <2>1. CASE pc[t] \in {"rate", "permit", "evaluate"} BY Zenon, <2>1 DEF ActsForOwnSession
  <2>2. CASE Accepted(t)
    <3>1. byToken[bearer[t]] = peer[t] BY Zenon, <2>2 DEF Accepted
    <3>2. bearer[t] \in Live BY Zenon, <1>6, <3>1, IdentityAssumption DEF Live
    <3> QED BY Zenon, <3>1, <3>2 DEF RegistryInv
  <2> QED BY Zenon, <1>2, <2>1, <2>2 DEF GoesOn
<1> QED BY Zenon, <1>1, <1>3, <1>6, <1>7

\* identity.rs, resolve_session: a request past it carries a token that was made for
\* the container it comes from, whatever ended, restarted or was cleaned up since.
THEOREM RequestsActForOwnSession == Spec => []ActsForOwnSession
<1>1. Spec => [](AgentInv /\ RegistryInv)
  BY AgentInvInit, AgentInvStep, RegistryInit, RegistryStep, PTL DEF Spec
<1>2. Init => ActsForOwnSession BY Zenon DEF Init, ActsForOwnSession
<1> QED BY <1>1, <1>2, OwnSessionStep, PTL DEF Spec

-----------------------------------------------------------------------------
(* AgentSessions: the evaluation threads.  Every permit is free, held for  *)
(* a request that waits, or held by a thread that nobody waits for.        *)

EvalInv ==
  /\ permits \in Nat /\ abandoned \in Nat
  /\ permits + Cardinality(Evaluating) + abandoned = EvalPermits

\* The requests that wait for an evaluation are finitely many.
LEMMA EvaluatingFinite == IsFiniteSet(Evaluating) /\ Cardinality(Evaluating) \in Nat
<1>1. IsFiniteSet(Evaluating) BY Zenon, AgentAssumption, FS_Subset DEF Evaluating
<1> QED BY Zenon, <1>1, FS_CardinalityType

\* A request that waited for an evaluation returns: one thread fewer is waited for.
LEMMA EvaluatingLeaves ==
  ASSUME CallTypes, NEW t \in Callers, CallReturn(t)
  PROVE  Cardinality(Evaluating') = IF pc[t] = "evaluate" THEN Cardinality(Evaluating) - 1
                                    ELSE Cardinality(Evaluating)
<1>1. Evaluating' = Evaluating \ {t}
  <2>1. pc' = [pc EXCEPT ![t] = "idle"] BY Zenon DEF CallReturn, CallGoto
  <2>2. Evaluating' = {u \in Callers : pc'[u] = "evaluate"} BY Zenon DEF Evaluating
  <2> QED BY Zenon, <2>1, <2>2 DEF Evaluating, CallTypes
<1>2. CASE pc[t] = "evaluate"
  <2>1. t \in Evaluating BY Zenon, <1>2 DEF Evaluating
  <2> QED BY Zenon, <1>1, <1>2, <2>1, EvaluatingFinite, FS_RemoveElement
<1>3. CASE pc[t] # "evaluate"
  <2>1. Evaluating' = Evaluating BY Zenon, <1>1, <1>3 DEF Evaluating
  <2> QED BY Zenon, <1>3, <2>1
<1> QED BY Zenon, <1>2, <1>3

\* A step that starts or ends no evaluation.
LEMMA EvaluatingStays ==
  ASSUME CallTypes, NEW t \in Callers, NEW l, CallGoto(t, l), l # "evaluate", pc[t] # "evaluate"
  PROVE  Evaluating' = Evaluating
<1>1. pc' = [pc EXCEPT ![t] = l] BY Zenon DEF CallGoto
<1>2. Evaluating' = {u \in Callers : pc'[u] = "evaluate"} BY Zenon DEF Evaluating
<1> QED BY Zenon, <1>1, <1>2 DEF Evaluating, CallTypes

\* EvaluationExecutor: a permit goes with its thread, also when the request times
\* out or its client hangs up.
LEMMA EvalStep ==
  ASSUME CallTypes, EvalInv, [Next]_vars
  PROVE  EvalInv'
<1>0. Cardinality(Evaluating) \in Nat /\ EvalPermits \in Nat
  BY Zenon, EvaluatingFinite, AgentAssumption
<1>1. ASSUME UNCHANGED evalVars, Cardinality(Evaluating') = Cardinality(Evaluating) PROVE EvalInv'
  <2>1. permits' = permits /\ abandoned' = abandoned BY Zenon, <1>1 DEF evalVars
  <2> QED BY Zenon, <1>1, <2>1 DEF EvalInv
<1>2. ASSUME UNCHANGED evalVars, UNCHANGED pc PROVE EvalInv'
  BY Zenon, <1>1, <1>2 DEF Evaluating
<1>3. ASSUME NEW t \in Callers, NEW id \in Ids, NEW o \in Ops, NEW k \in Tokens \cup {NoToken},
             Arrive(t, id, o, k)
      PROVE  EvalInv'
  BY Zenon, <1>1, <1>3, EvaluatingStays DEF Arrive
<1>4. ASSUME NEW t \in Callers, Request(t) \/ HangUp(t) PROVE EvalInv'
  <2>1. CASE PeerFound(t) BY Zenon, <1>1, <2>1, EvaluatingStays DEF PeerFound
  <2>2. CASE Authenticated(t) BY Zenon, <1>1, <2>2, EvaluatingStays DEF Authenticated
  <2>3. CASE UNCHANGED evalVars /\ CallReturn(t) /\ pc[t] # "evaluate"
    BY Zenon, <1>1, <2>3, EvaluatingLeaves
  <2>4. CASE RateChecked(t)
    <3>1. CASE CallGoto(t, "permit")
      BY Zenon, <1>1, <2>4, <3>1, EvaluatingStays DEF RateChecked
    <3>2. CASE CallReturn(t) BY Zenon, <2>3, <2>4, <3>2 DEF RateChecked
    <3> QED BY Zenon, <2>4, <3>1, <3>2 DEF RateChecked
  <2>5. CASE PermitTaken(t)
    <3>1. Evaluating' = Evaluating \cup {t} /\ t \notin Evaluating
      <4>1. pc' = [pc EXCEPT ![t] = "evaluate"] BY Zenon, <2>5 DEF PermitTaken, CallGoto
      <4>2. Evaluating' = {u \in Callers : pc'[u] = "evaluate"} BY Zenon DEF Evaluating
      <4> QED BY Zenon, <2>5, <4>1, <4>2 DEF PermitTaken, Evaluating, CallTypes
    <3>2. Cardinality(Evaluating') = Cardinality(Evaluating) + 1
      BY Zenon, <3>1, EvaluatingFinite, FS_AddElement
    <3>3. permits > 0 /\ permits' = permits - 1 /\ abandoned' = abandoned
      BY Zenon, <2>5 DEF PermitTaken
    <3> QED BY <1>0, <3>2, <3>3 DEF EvalInv
  <2>6. CASE Evaluated(t)
    <3>1. pc[t] = "evaluate" /\ CallReturn(t) /\ permits' = permits + 1 /\ abandoned' = abandoned
      BY Zenon, <2>6 DEF Evaluated
    <3>2. Cardinality(Evaluating') = Cardinality(Evaluating) - 1
      BY Zenon, <3>1, EvaluatingLeaves
    <3> QED BY <1>0, <3>1, <3>2 DEF EvalInv
  <2>7. CASE EvaluationLate(t) \/ HangUp(t)
    <3>1. /\ CallReturn(t) /\ permits' = permits
          /\ abandoned' = IF pc[t] = "evaluate" THEN abandoned + 1 ELSE abandoned
      BY Zenon, <2>7 DEF EvaluationLate, HangUp
    <3>2. Cardinality(Evaluating') = IF pc[t] = "evaluate" THEN Cardinality(Evaluating) - 1
                                     ELSE Cardinality(Evaluating)
      BY Zenon, <3>1, EvaluatingLeaves
    <3> QED BY <1>0, <3>1, <3>2 DEF EvalInv
  <2> QED BY Zenon, <1>4, <2>1, <2>2, <2>3, <2>4, <2>5, <2>6, <2>7
          DEF Request, PeerUnknown, CheckIn, Refused, StatusAnswered
<1>5. CASE AbandonedEnds
  <2>1. abandoned > 0 /\ abandoned' = abandoned - 1 /\ permits' = permits + 1 /\ pc' = pc
    BY Zenon, <1>5 DEF AbandonedEnds, callVars
  <2>2. Evaluating' = Evaluating BY Zenon, <2>1 DEF Evaluating
  <2> QED BY <1>0, <2>1, <2>2 DEF EvalInv
<1>6. CASE Lifecycle \/ Clean \/ Tick
  BY Zenon, <1>2, <1>6 DEF Lifecycle, Clean, CleanReceives, CleanSessions, CleanRates,
     Tick, callVars
<1>7. CASE UNCHANGED vars BY Zenon, <1>2, <1>7 DEF vars, agentVars, callVars
<1> QED BY Zenon, <1>3, <1>4, <1>5, <1>6, <1>7 DEF Next

\* At the start every permit is free.
LEMMA EvalInit == Init => EvalInv
<1> SUFFICES ASSUME Init PROVE EvalInv OBVIOUS
<1>1. Evaluating = {} BY Zenon DEF Init, Evaluating
<1>2. Cardinality(Evaluating) = 0 BY Zenon, <1>1, FS_EmptySet
<1> QED BY <1>2, AgentAssumption DEF Init, EvalInv

\* evaluation.rs: every permit is free or with one evaluation thread, waited for or
\* abandoned, for any number of permits and requests.
THEOREM EvaluationsStayBounded == Spec => []EvaluationsBounded
<1>1. Spec => [](AgentInv /\ EvalInv)
  <2>1. AgentInv /\ EvalInv /\ [Next]_vars => EvalInv'
    BY Zenon, EvalStep DEF AgentInv, AgentTypes
  <2> QED BY <2>1, AgentInvInit, AgentInvStep, EvalInit, PTL DEF Spec
<1>2. EvalInv => EvaluationsBounded
  BY Zenon DEF EvalInv, EvaluationsBounded
<1> QED BY <1>1, <1>2, PTL

\* agent_api: the registry, the limiters, the requests and the cleanup stay well
\* formed.
THEOREM AgentTyped == Spec => []AgentTypeOK
<1>1. Spec => [](AgentInv /\ EvalInv)
  <2>1. AgentInv /\ EvalInv /\ [Next]_vars => EvalInv'
    BY Zenon, EvalStep DEF AgentInv, AgentTypes
  <2> QED BY <2>1, AgentInvInit, AgentInvStep, EvalInit, PTL DEF Spec
<1>2. AgentInv /\ EvalInv => AgentTypeOK
  BY Zenon DEF AgentInv, AgentTypes, RegistryTypes, RateTypes, CallTypes, CleanTypes,
     EvalInv, AgentTypeOK
<1> QED BY <1>1, <1>2, PTL

-----------------------------------------------------------------------------
(* AgentSessions: why no session of a dead container is left.  Until it is *)
(* cleared, the message that clears it is on its way.                      *)

EndIn(id) == \E m \in Event : Has(stream, m) /\ m.kind \in CleanupKinds /\ m.id = id

Clears(m, id) == m = Reset \/ (m.kind \in CleanupKinds /\ m.id = id)

EndQueued(id) == \E m \in Event \cup {Reset} : Has(queue[Cleaner], m) /\ Clears(m, id)

Down == ~live /\ wpc \in {"listen", "inspect", "record", "broken"}

\* EndComing, by the messages that are under way.
LEMMA EndComingHas ==
  ASSUME IdTypes, NEW id \in Ids, EndComing(id)
  PROVE  EndIn(id) \/ EndQueued(id) \/ lagged[Cleaner] \/ (cpc = "sessions" /\ id \in cids) \/ Down
<1>1. stream \in Seq(Event) /\ queue[Cleaner] \in Seq(Event \cup {Reset})
  BY Zenon, AgentAssumption DEF IdTypes, DockerTypes, CastTypes
<1>2. \A i \in 1 .. Len(stream) : stream[i] \in Event BY Zenon, <1>1, SeqLen
<1>3. \A i \in 1 .. Len(queue[Cleaner]) : queue[Cleaner][i] \in Event \cup {Reset}
  BY Zenon, <1>1, SeqLen
<1>4. ASSUME NEW i \in 1 .. Len(stream), stream[i].kind \in CleanupKinds /\ stream[i].id = id
      PROVE  EndIn(id)
  BY Zenon, <1>2, <1>4 DEF EndIn, Has
<1>5. ASSUME NEW i \in 1 .. Len(queue[Cleaner]), Clears(queue[Cleaner][i], id) PROVE EndQueued(id)
  BY Zenon, <1>3, <1>5 DEF EndQueued, Has
<1> QED BY Zenon, <1>4, <1>5 DEF EndComing, Clears, Down

\* And back, before a step and after it.
LEMMA HasEndComing ==
  ASSUME NEW id \in Ids
  PROVE  /\ EndIn(id)' => EndComing(id)'
         /\ EndQueued(id)' => EndComing(id)'
         /\ lagged'[Cleaner] => EndComing(id)'
         /\ cpc' = "sessions" /\ id \in cids' => EndComing(id)'
         /\ Down' => EndComing(id)'
<1>1. EndIn(id)' => EndComing(id)' BY Zenon DEF EndIn, EndComing, Has
<1>2. EndQueued(id)' => EndComing(id)' BY Zenon DEF EndQueued, EndComing, Has, Clears
<1> QED BY Zenon, <1>1, <1>2 DEF EndComing, Down

\* tx.send: the cleanup task will receive the message, and every one it had, or learn
\* that it lost some.
LEMMA SendReaches ==
  ASSUME CastTypes, NEW m \in Event \cup {Reset}, Send(m)
  PROVE  /\ Has(queue'[Cleaner], m)
         /\ \A x \in Event \cup {Reset} :
              Has(queue[Cleaner], x) => Has(queue'[Cleaner], x) \/ lagged'[Cleaner]
         /\ lagged[Cleaner] => lagged'[Cleaner]
<1> DEFINE M == Event \cup {Reset}
           q == queue[Cleaner]
<1>0. Cleaner \in Consumers BY Zenon, AgentAssumption
<1>1. q \in Seq(M) /\ Len(q) \in Nat /\ Capacity \in Nat \ {0}
  BY Zenon, <1>0, SeqLen, IdentityAssumption DEF CastTypes
<1>2. queue'[Cleaner] = IF Len(q) < Capacity THEN Append(q, m) ELSE Append(Tail(q), m)
  BY Zenon, <1>0 DEF Send
<1>3. lagged'[Cleaner] <=> lagged[Cleaner] \/ Len(q) >= Capacity
  BY Zenon, <1>0 DEF Send, CastTypes
<1>4. ASSUME NEW s \in Seq(M)
      PROVE  Has(Append(s, m), m) /\ \A x \in M : Has(s, x) => Has(Append(s, m), x)
  <2>1. /\ Len(s) \in Nat /\ Len(Append(s, m)) = Len(s) + 1 /\ Append(s, m)[Len(s) + 1] = m
        /\ \A i \in 1 .. Len(s) : Append(s, m)[i] = s[i]
    BY <1>4, SeqLen, SeqAppend
  <2>2. Len(s) + 1 \in 1 .. Len(Append(s, m)) /\ \A i \in 1 .. Len(s) : i \in 1 .. Len(Append(s, m))
    BY <2>1
  <2> QED BY Zenon, <2>1, <2>2 DEF Has
<1>5. Len(q) >= Capacity => Tail(q) \in Seq(M)
  <2>1. Len(q) >= Capacity => q # <<>> BY <1>1, SeqEmpty
  <2> QED BY Zenon, <1>1, <2>1, SeqHeadTail
<1> HIDE DEF M, q
<1>6. CASE Len(q) < Capacity
  <2>1. queue'[Cleaner] = Append(q, m) BY Zenon, <1>2, <1>6
  <2> QED BY Zenon, <1>1, <1>3, <1>4, <2>1 DEF q, M
<1>7. CASE Len(q) >= Capacity
  <2>1. queue'[Cleaner] = Append(Tail(q), m) BY <1>1, <1>2, <1>7
  <2> QED BY Zenon, <1>3, <1>4, <1>5, <1>7, <2>1 DEF q
<1> QED BY <1>1, <1>6, <1>7

\* What is on its way to the cleanup task stays on its way while the watcher works.
LEMMA WatchBrings ==
  ASSUME IdTypes, IdInv, Watch, UNCHANGED cleanVars, NEW id \in Ids, EndComing(id)
  PROVE  EndComing(id)'
<1>0. CastTypes /\ stream \in Seq(Event) BY Zenon DEF IdTypes, DockerTypes
<1>1. EndIn(id) \/ EndQueued(id) \/ lagged[Cleaner] \/ (cpc = "sessions" /\ id \in cids) \/ Down
  BY Zenon, EndComingHas
<1>2. ASSUME Send(Reset) PROVE EndComing(id)'
  <2>1. Has(queue'[Cleaner], Reset) BY Zenon, <1>0, <1>2, SendReaches
  <2>2. EndQueued(id)' BY Zenon, <2>1 DEF EndQueued, Clears
  <2> QED BY Zenon, <2>2, HasEndComing
<1>3. CASE cpc = "sessions" /\ id \in cids BY Zenon, <1>3, HasEndComing DEF cleanVars
<1>4. ASSUME UNCHANGED castVars, EndQueued(id) \/ lagged[Cleaner] PROVE EndComing(id)'
  <2>1. queue' = queue /\ lagged' = lagged BY Zenon, <1>4 DEF castVars
  <2>2. EndQueued(id) => EndQueued(id)' BY Zenon, <2>1 DEF EndQueued
  <2> QED BY Zenon, <1>4, <2>1, <2>2, HasEndComing
<1>5. ASSUME UNCHANGED stream, EndIn(id) PROVE EndComing(id)'
  <2>1. EndIn(id)' BY Zenon, <1>5 DEF EndIn
  <2> QED BY Zenon, <2>1, HasEndComing
<1>6. CASE WatchInvalidate \/ WatchList \/ WatchInstall
  <2>1. UNCHANGED castVars /\ UNCHANGED stream /\ wpc \in {"start", "list", "install"}
    BY Zenon, <1>6 DEF WatchInvalidate, WatchList, WatchInstall, dockerVars
  <2>2. ~Down BY Zenon, <2>1 DEF Down
  <2> QED BY Zenon, <1>1, <1>3, <1>4, <1>5, <2>1, <2>2
<1>7. CASE WatchListFails \/ WatchBroken
  BY Zenon, <1>2, <1>7 DEF WatchListFails, WatchBroken
<1>8. CASE WatchSubscribe
  <2>1. UNCHANGED castVars /\ wpc = "subscribe" BY Zenon, <1>8 DEF WatchSubscribe
  <2>2. stream = <<>> BY Zenon, <2>1 DEF IdInv, WatcherPhase
  <2>3. ~EndIn(id) BY <2>2 DEF EndIn, Has
  <2>4. ~Down BY Zenon, <2>1 DEF Down
  <2> QED BY Zenon, <1>1, <1>3, <1>4, <2>1, <2>3, <2>4
<1>9. CASE WatchStart
  <2>1. /\ wpc' = "inspect" /\ live' = live /\ UNCHANGED castVars
        /\ stream # <<>> /\ stream' = Tail(stream) /\ Head(stream).kind = "start"
    BY Zenon, <1>9 DEF WatchStart, WatchGoto
  <2>2. Down => Down' BY Zenon, <2>1 DEF Down
  <2>3. EndIn(id) => EndIn(id)'
    <3>1. ASSUME NEW m \in Event, Has(stream, m), m.kind \in CleanupKinds PROVE Has(stream', m)
      BY Zenon, <1>0, <2>1, <3>1, HasTail DEF CleanupKinds
    <3> QED BY Zenon, <3>1 DEF EndIn
  <2> QED BY Zenon, <1>1, <1>3, <1>4, <2>1, <2>2, <2>3, HasEndComing
<1>10. CASE WatchInspect \/ WatchRecord
  <2>1. /\ wpc' \in {"record", "listen"} /\ UNCHANGED castVars /\ UNCHANGED stream /\ live' = live
    BY Zenon, <1>10 DEF WatchInspect, WatchRecord, WatchGoto, dockerVars
  <2>2. Down => Down' BY Zenon, <2>1 DEF Down
  <2> QED BY Zenon, <1>1, <1>3, <1>4, <1>5, <2>1, <2>2, HasEndComing
<1>11. CASE WatchInspectFails \/ WatchStreamEnds
  <2>1. Down' BY <1>11 DEF WatchInspectFails, WatchStreamEnds, WatchGoto, Down, dockerVars
  <2> QED BY Zenon, <2>1, HasEndComing
<1>12. CASE WatchLifecycle
  <2>1. /\ stream # <<>> /\ stream' = Tail(stream) /\ Send(Head(stream)) /\ live' = live /\ wpc' = wpc
    BY Zenon, <1>12 DEF WatchLifecycle, watchVars
  <2>2. Head(stream) \in Event BY Zenon, <1>0, <2>1, SeqHeadTail
  <2>3. /\ Has(queue'[Cleaner], Head(stream))
        /\ \A x \in Event \cup {Reset} :
              Has(queue[Cleaner], x) => Has(queue'[Cleaner], x) \/ lagged'[Cleaner]
        /\ lagged[Cleaner] => lagged'[Cleaner]
    BY Zenon, <1>0, <2>1, <2>2, SendReaches
  <2>4. EndIn(id) => EndIn(id)' \/ EndQueued(id)'
    <3>1. ASSUME NEW m \in Event, Has(stream, m), m.kind \in CleanupKinds, m.id = id
          PROVE  EndIn(id)' \/ EndQueued(id)'
      <4>1. CASE m = Head(stream) BY Zenon, <2>3, <3>1, <4>1 DEF EndQueued, Clears
      <4>2. CASE m # Head(stream)
        <5>1. Has(stream', m) BY Zenon, <1>0, <2>1, <3>1, <4>2, HasTail
        <5> QED BY Zenon, <3>1, <5>1 DEF EndIn
      <4> QED BY Zenon, <4>1, <4>2
    <3> QED BY Zenon, <3>1 DEF EndIn
  <2>5. EndQueued(id) => EndQueued(id)' \/ lagged'[Cleaner] BY Zenon, <2>3 DEF EndQueued
  <2>6. Down => Down' BY Zenon, <2>1 DEF Down
  <2> QED BY Zenon, <1>1, <1>3, <2>3, <2>4, <2>5, <2>6, HasEndComing
<1> QED BY Zenon, <1>6, <1>7, <1>8, <1>9, <1>10, <1>11, <1>12 DEF Watch

\* Docker tells the end of a container on an open stream, and takes back nothing that
\* it told.
LEMMA DockerBrings ==
  ASSUME IdTypes, Docker, UNCHANGED cleanVars, NEW id \in Ids
  PROVE  /\ EndComing(id) => EndComing(id)'
         /\ live /\ status[id] = "running" /\ status'[id] # "running" => EndComing(id)'
<1>0. stream \in Seq(Event) /\ status \in [Ids -> Statuses]
  BY Zenon DEF IdTypes, DockerTypes
<1>1. UNCHANGED <<castVars, watchVars>> BY Zenon DEF Docker
<1>2. PICK x \in Ids : \/ \E ip \in Ips : DockerRun(x, ip)
                       \/ DockerExit(x, "stopped")
                       \/ DockerRemove(x)
                       \/ \E kind \in Signals : DockerSignal(x, kind)
  BY Zenon DEF Docker
<1>3. live' = live BY Zenon, <1>2 DEF DockerRun, DockerExit, DockerRemove, DockerSignal
<1>4. PICK k \in Kinds : Change(<<[kind |-> k, id |-> x]>>)
  BY Zenon, <1>2 DEF DockerRun, DockerExit, DockerRemove, DockerSignal, Kinds
<1> DEFINE e == <<[kind |-> k, id |-> x]>>
<1>5. e \in Seq(Event)
  <2>1. [kind |-> k, id |-> x] \in Event BY Zenon DEF Event
  <2> QED BY <2>1
<1>6. \A m \in Event : Has(stream, m) => Has(stream', m)
  BY Zenon, <1>0, <1>4, <1>5, ChangeAppends
<1>7. ASSUME EndComing(id) PROVE EndComing(id)'
  <2>1. EndIn(id) \/ EndQueued(id) \/ lagged[Cleaner] \/ (cpc = "sessions" /\ id \in cids) \/ Down
    BY Zenon, <1>7, EndComingHas
  <2>2. EndIn(id) => EndIn(id)' BY Zenon, <1>6 DEF EndIn
  <2>3. EndQueued(id) => EndQueued(id)' BY Zenon, <1>1 DEF EndQueued, castVars
  <2>4. Down => Down' BY Zenon, <1>1, <1>3 DEF Down, watchVars
  <2>5. lagged' = lagged /\ cpc' = cpc /\ cids' = cids
    BY Zenon, <1>1 DEF castVars, cleanVars
  <2> QED BY Zenon, <2>1, <2>2, <2>3, <2>4, <2>5, HasEndComing
<1>8. ASSUME live, status[id] = "running", status'[id] # "running" PROVE EndComing(id)'
  <2>1. DockerExit(id, "stopped")
    <3>1. ASSUME NEW ip \in Ips, DockerRun(x, ip) PROVE FALSE
      BY Zenon, <1>0, <1>8, <3>1 DEF DockerRun
    <3>2. ASSUME DockerRemove(x) PROVE FALSE BY Zenon, <1>0, <1>8, <3>2 DEF DockerRemove
    <3>3. ASSUME NEW kind \in Signals, DockerSignal(x, kind) PROVE FALSE
      BY Zenon, <1>0, <1>8, <3>3 DEF DockerSignal
    <3>4. ASSUME DockerExit(x, "stopped") PROVE x = id
      BY Zenon, <1>0, <1>8, <3>4 DEF DockerExit
    <3> QED BY Zenon, <1>2, <3>1, <3>2, <3>3, <3>4
  <2> DEFINE die == [kind |-> "die", id |-> id]
             d   == <<die>>
  <2>2. Change(d) BY Zenon, <2>1 DEF DockerExit
  <2>3. die \in Event BY Zenon DEF Event, Kinds
  <2>4. d \in Seq(Event) /\ Has(d, die) BY <2>3 DEF Has
  <2>5. die.kind \in CleanupKinds /\ die.id = id BY Zenon DEF CleanupKinds
  <2> HIDE DEF d, die
  <2>6. Has(stream', die) BY Zenon, <1>0, <1>8, <2>2, <2>3, <2>4, ChangeAppends
  <2>7. EndIn(id)' BY Zenon, <2>3, <2>5, <2>6 DEF EndIn
  <2> QED BY Zenon, <2>7, HasEndComing
<1> QED BY Zenon, <1>7, <1>8

\* The stream breaks: the watcher will find it ended, and reset the consumers.
LEMMA BreakBrings ==
  ASSUME IdTypes, IdInv, StreamBreak, NEW id \in Ids
  PROVE  EndComing(id)'
<1>1. live /\ ~live' /\ wpc' = wpc BY Zenon DEF StreamBreak, DockerBreaksStream, watchVars
<1>2. wpc \in {"listen", "inspect", "record"}
  BY Zenon, <1>1 DEF IdTypes, WatchTypes, Places, IdInv, WatcherPhase
<1>3. Down' BY Zenon, <1>1, <1>2 DEF Down
<1> QED BY Zenon, <1>3, HasEndComing

SessionInv ==
  \A id \in Ids : byContainer[id] # NoToken =>
    status[id] = "running" \/ id \in excused \/ EndComing(id)

\* The cleanup task takes a message: it has the containers in its hands.
LEMMA CleanTakes ==
  ASSUME IdTypes, CleanTypes, CleanReceives, NEW id \in Ids, EndComing(id)
  PROVE  EndComing(id)'
<1>0. Cleaner \in Consumers BY Zenon, AgentAssumption
<1> DEFINE q == queue[Cleaner]
<1>1. q \in Seq(Event \cup {Reset}) BY Zenon, <1>0 DEF IdTypes, CastTypes
<1>2. EndIn(id) \/ EndQueued(id) \/ lagged[Cleaner] \/ Down
  BY Zenon, EndComingHas DEF CleanReceives
<1>3. UNCHANGED <<stream, live, wpc>>
  BY Zenon DEF CleanReceives, Receive, dockerVars, watchVars
<1>4. (EndIn(id) => EndIn(id)') /\ (Down => Down') BY Zenon, <1>3 DEF EndIn, Down
<1>5. CASE lagged[Cleaner] \/ Head(q) = Reset
  <2>1. cpc' = "sessions" /\ cids' = Ids BY Zenon, <1>5 DEF CleanReceives
  <2> QED BY Zenon, <2>1, HasEndComing
<1>6. CASE ~(lagged[Cleaner] \/ Head(q) = Reset) /\ EndQueued(id)
  <2>1. q # <<>> /\ queue'[Cleaner] = Tail(q)
    BY Zenon, <1>0, <1>6 DEF CleanReceives, Receive, IdTypes, CastTypes
  <2>2. PICK m \in Event \cup {Reset} : Has(q, m) /\ Clears(m, id)
    BY Zenon, <1>6 DEF EndQueued
  <2>3. CASE m = Head(q)
    <3>1. Head(q).kind \in CleanupKinds /\ Head(q).id = id
      BY Zenon, <1>6, <2>2, <2>3 DEF Clears
    <3>2. cpc' = "sessions" /\ cids' = {id} BY Zenon, <1>6, <3>1 DEF CleanReceives
    <3> QED BY Zenon, <3>2, HasEndComing
  <2>4. CASE m # Head(q)
    <3>1. Has(Tail(q), m) BY Zenon, <1>1, <2>1, <2>2, <2>4, HasTail
    <3>2. EndQueued(id)' BY Zenon, <2>1, <2>2, <3>1 DEF EndQueued
    <3> QED BY Zenon, <3>2, HasEndComing
  <2> QED BY Zenon, <2>3, <2>4
<1> QED BY Zenon, <1>2, <1>4, <1>5, <1>6, HasEndComing

\* Sessions of dead containers, step by step.
LEMMA SessionStep ==
  ASSUME AgentInv, SessionInv, [Next]_vars
  PROVE  SessionInv'
<1>0. IdTypes /\ IdInv /\ RegistryTypes /\ CallShape /\ CleanTypes
  BY Zenon DEF AgentInv, AgentTypes
<1> SUFFICES ASSUME NEW id \in Ids, byContainer'[id] # NoToken
             PROVE  status'[id] = "running" \/ id \in excused' \/ EndComing(id)'
  BY Zenon DEF SessionInv
<1> DEFINE Fine == status'[id] = "running" \/ id \in excused' \/ EndComing(id)'
<1>1. ASSUME UNCHANGED idVars, UNCHANGED cleanVars PROVE EndComing(id)' <=> EndComing(id)
  <2>1. UNCHANGED <<stream, queue, lagged, cpc, cids, live, wpc>>
    BY Zenon, <1>1 DEF idVars, dockerVars, castVars, watchVars, cleanVars
  <2> QED BY Zenon, <2>1 DEF EndComing
<1>2. ASSUME UNCHANGED <<idVars, cleanVars, registryVars, excused>> PROVE Fine
  <2>1. status' = status /\ byContainer' = byContainer /\ excused' = excused
    BY Zenon, <1>2 DEF idVars, dockerVars, registryVars
  <2> QED BY Zenon, <1>1, <1>2, <2>1 DEF SessionInv
<1>3. CASE Lifecycle
  <2>1. UNCHANGED cleanVars /\ byContainer' = byContainer /\ excused' = excused \cup ExitsUnseen
    BY Zenon, <1>3 DEF Lifecycle, registryVars
  <2>2. status[id] = "running" \/ id \in excused \/ EndComing(id)
    BY Zenon, <2>1 DEF SessionInv
  <2>3. EndComing(id) => EndComing(id)'
    BY Zenon, <1>0, <1>3, <2>1, WatchBrings, DockerBrings, BreakBrings DEF Lifecycle
  <2>4. ASSUME status[id] = "running", status'[id] # "running", ~EndComing(id) PROVE Fine
    <3>1. CASE live
      <4>1. Docker
        BY Zenon, <1>3, <2>4 DEF Lifecycle, StreamBreak, DockerBreaksStream, Watch,
           WatchInvalidate,
           WatchList, WatchListFails, WatchInstall, WatchSubscribe, WatchStart, WatchInspect,
           WatchInspectFails, WatchRecord, WatchLifecycle, WatchStreamEnds, WatchBroken, dockerVars
      <4> QED BY <1>0, <2>1, <2>4, <3>1, <4>1, DockerBrings
    <3>2. CASE ~live
      <4>1. id \in ExitsUnseen BY Zenon, <2>4, <3>2 DEF ExitsUnseen
      <4> QED BY Zenon, <2>1, <4>1
    <3> QED BY Zenon, <3>1, <3>2
  <2> QED BY Zenon, <2>1, <2>2, <2>3, <2>4
<1>4. ASSUME NEW t \in Callers, NEW i \in Ids, NEW o \in Ops, NEW k \in Tokens \cup {NoToken},
             Arrive(t, i, o, k)
      PROVE  Fine
  BY Zenon, <1>2, <1>4 DEF Arrive
<1>5. ASSUME NEW t \in Callers, CheckIn(t) PROVE Fine
  <2>1. UNCHANGED <<idVars, cleanVars>> BY Zenon, <1>5 DEF CheckIn
  <2>2. status' = status BY Zenon, <2>1 DEF idVars, dockerVars
  <2>3. CASE UNCHANGED <<registryVars, excused>> BY Zenon, <1>2, <2>1, <2>3
  <2>4. CASE ~UNCHANGED <<registryVars, excused>>
    <3>1. PICK k \in Tokens : Insert(peer[t], k) BY Zenon, <1>5, <2>4 DEF CheckIn
    <3>2. excused' = IF status[peer[t]] # "running" /\ ~EndComing(peer[t])
                     THEN excused \cup {peer[t]} ELSE excused
      BY Zenon, <1>5, <2>4 DEF CheckIn
    <3>3. CASE id = peer[t] BY Zenon, <1>1, <2>1, <2>2, <3>2, <3>3
    <3>4. CASE id # peer[t]
      <4>1. byContainer'[id] = byContainer[id]
        BY Zenon, <1>0, <3>1, <3>4 DEF Insert, RegistryTypes
      <4> QED BY Zenon, <1>1, <2>1, <2>2, <3>2, <4>1 DEF SessionInv
    <3> QED BY Zenon, <3>3, <3>4
  <2> QED BY Zenon, <2>3, <2>4
<1>6. ASSUME NEW t \in Callers, Request(t) \/ HangUp(t), ~CheckIn(t) PROVE Fine
  BY Zenon, <1>2, <1>6 DEF Request, PeerFound, PeerUnknown, Refused, StatusAnswered,
     Authenticated,
              RateChecked, PermitTaken, Evaluated, EvaluationLate, HangUp
<1>7. CASE CleanReceives
  <2>1. status' = status /\ byContainer' = byContainer /\ excused' = excused
    BY Zenon, <1>7 DEF CleanReceives, Receive, registryVars, dockerVars
  <2> QED BY Zenon, <1>0, <1>7, <2>1, CleanTakes DEF SessionInv
<1>8. CASE CleanSessions
  <2>1. id \notin cids /\ byContainer'[id] = byContainer[id]
    BY Zenon, <1>8 DEF CleanSessions, RemoveSessions
  <2>2. excused' = excused \ cids /\ UNCHANGED idVars /\ cids' = cids
    BY Zenon, <1>8 DEF CleanSessions
  <2>3. UNCHANGED <<status, stream, queue, lagged, live, wpc>>
    BY Zenon, <2>2 DEF idVars, dockerVars, castVars, watchVars
  <2>4. EndComing(id) => EndComing(id)' BY Zenon, <2>1, <2>3 DEF EndComing
  <2> QED BY Zenon, <2>1, <2>2, <2>3, <2>4 DEF SessionInv
<1>9. CASE CleanRates
  <2>1. cpc = "rates" /\ UNCHANGED <<idVars, registryVars, excused>>
    BY Zenon, <1>9 DEF CleanRates
  <2>2. UNCHANGED <<status, stream, queue, lagged, live, wpc, byContainer, excused>>
    BY Zenon, <2>1 DEF idVars, dockerVars, castVars, watchVars, registryVars
  <2>3. EndComing(id) => EndComing(id)' BY Zenon, <2>1, <2>2 DEF EndComing
  <2> QED BY Zenon, <2>2, <2>3 DEF SessionInv
<1>10. CASE AbandonedEnds \/ Tick BY Zenon, <1>2, <1>10 DEF AbandonedEnds, Tick
<1>11. CASE UNCHANGED vars BY Zenon, <1>2, <1>11 DEF vars, agentVars
<1> QED BY <1>3, <1>4, <1>5, <1>6, <1>7, <1>8, <1>9, <1>10, <1>11 DEF Next, Clean

\* events.rs, watch, and agent_api/mod.rs, spawn_session_cleanup: once everything
\* settled, a session of a dead container is left only by an exit that no stream
\* could tell, or by a check-in that the end of its container overtook, for any number
\* of containers, requests, failures and lost messages.
THEOREM DeadSessionsExplained == Spec => []DeadSessionExplained
<1>1. Init => SessionInv BY DEF Init, SessionInv
<1>2. Spec => [](AgentInv /\ SessionInv)
  BY <1>1, AgentInvInit, AgentInvStep, SessionStep, PTL DEF Spec
<1>3. AgentInv /\ SessionInv => DeadSessionExplained
  <2> SUFFICES ASSUME AgentInv, SessionInv, Settled, NEW id \in Ids, EndComing(id) PROVE FALSE
    BY Zenon DEF DeadSessionExplained, SessionInv
  <2>1. stream = <<>> /\ live /\ queue[Cleaner] = <<>> /\ ~lagged[Cleaner] /\ cpc = "idle"
    BY Zenon DEF Settled, CaughtUp
  <2>2. ~EndIn(id) /\ ~EndQueued(id) BY <2>1 DEF EndIn, EndQueued, Has
  <2> QED BY Zenon, <2>1, <2>2, EndComingHas DEF AgentInv, Down
<1> QED BY <1>2, <1>3, PTL

=============================================================================
