-------------------------- MODULE LifecycleProofs --------------------------
(***************************************************************************)
(* Proofs about DynamicLifecycle, for any containers, addresses, requests, *)
(* tasks and bounds: the composition is one of the rule manager and of the *)
(* identity cache, and no rule outlives its container unexplained.         *)
(***************************************************************************)
EXTENDS DynamicLifecycle, DynamicRulesProofs

-----------------------------------------------------------------------------
(* Messages.                                                               *)

\* A message of the event stream or of the broadcast channel ends a
\* container's name when the event task cleans up after it.
Ends(m, c) == m = Reset \/ (m.kind \in CleanupKinds /\ NameOf[m.id] = c)

Carries(s, c) == \E i \in 1 .. Len(s) : Ends(s[i], c)

\* An empty stream or queue ends nothing.
LEMMA NothingCarried == \A c : ~Carries(<<>>, c)
BY DEF Carries

\* What a message says, it says behind others.
LEMMA CarriesConcat ==
  ASSUME NEW S, NEW s \in Seq(S), NEW e \in Seq(S), NEW c,
         Carries(s, c) \/ Carries(e, c)
  PROVE  Carries(s \o e, c)
<1>1. Len(s \o e) = Len(s) + Len(e) /\ Len(s) \in Nat /\ Len(e) \in Nat OBVIOUS
<1>2. ASSUME NEW i \in 1 .. Len(s)
      PROVE  (s \o e)[i] = s[i] /\ i \in 1 .. Len(s \o e)
  BY <1>1
<1>3. ASSUME NEW i \in 1 .. Len(e)
      PROVE  (s \o e)[i + Len(s)] = e[i] /\ i + Len(s) \in 1 .. Len(s \o e)
  <2>1. i + Len(s) \in 1 .. Len(s) + Len(e) /\ ~(i + Len(s) <= Len(s))
        /\ i + Len(s) - Len(s) = i
    BY <1>1
  <2> QED BY <1>1, <2>1
<1> QED BY Zenon, <1>2, <1>3 DEF Carries

\* What is sent is in the queue, with what was there.
LEMMA CarriesAppend ==
  ASSUME NEW S, NEW s \in Seq(S), NEW m \in S, NEW c,
         Carries(s, c) \/ Ends(m, c)
  PROVE  Carries(Append(s, m), c)
<1>1. Len(Append(s, m)) = Len(s) + 1 /\ Len(s) \in Nat OBVIOUS
<1>2. ASSUME NEW i \in 1 .. Len(s)
      PROVE  Append(s, m)[i] = s[i] /\ i \in 1 .. Len(Append(s, m))
  BY <1>1
<1>3. Append(s, m)[Len(s) + 1] = m /\ Len(s) + 1 \in 1 .. Len(Append(s, m))
  BY <1>1
<1> QED BY Zenon, <1>2, <1>3 DEF Carries

\* Taking a message loses only what that one says.
LEMMA CarriesTail ==
  ASSUME NEW S, NEW s \in Seq(S), s # <<>>, NEW c, Carries(s, c), ~Ends(Head(s), c)
  PROVE  Carries(Tail(s), c)
<1>1. PICK i \in 1 .. Len(s) : Ends(s[i], c) BY Zenon DEF Carries
<1>2. s[1] = Head(s) OBVIOUS
<1>3. i - 1 \in 1 .. Len(Tail(s)) /\ Tail(s)[i - 1] = s[i]
  <2>1. Len(Tail(s)) = Len(s) - 1 /\ Len(s) \in Nat OBVIOUS
  <2>2. i # 1 BY Zenon, <1>1, <1>2
  <2>3. i - 1 \in 1 .. Len(Tail(s)) BY <2>1, <2>2
  <2> QED BY <2>3, <2>1
<1> QED BY Zenon, <1>1, <1>3 DEF Carries

\* The first message, and the others.
LEMMA HeadTail ==
  ASSUME NEW S, NEW s \in Seq(S), s # <<>>
  PROVE  Head(s) \in S /\ Tail(s) \in Seq(S)
<1>1. Head(s) \in S OBVIOUS
<1>2. Tail(s) \in Seq(S) OBVIOUS
<1> QED BY Zenon, <1>1, <1>2

-----------------------------------------------------------------------------
(* What the argument needs to know of Docker, of the watcher and of the    *)
(* tasks that ask or tell the cache.                                       *)

Listening == {"listen", "inspect", "record"}

DockerKnown ==
  /\ status \in [Ids -> {"absent", "running", "stopped", "removed"}]
  /\ addr \in [Ids -> Ips \cup {NoIp}]
  /\ \A id \in Ids : status[id] # "running" => addr[id] = NoIp
  /\ stream \in Seq(Event)

WatchKnown ==
  /\ wpc \notin Listening => ~live /\ stream = <<>>
  /\ wpc \in {"inspect", "record"} => wid \in Ids

TasksKnown ==
  /\ lpc \in [Lookups -> {"idle", "list", "install"}]
  /\ DOMAIN lip = Lookups /\ DOMAIN lsnap = Lookups
  /\ apc \in [Apis -> {"idle", "inspect", "record", "forget"}]
  /\ DOMAIN aid = Apis /\ DOMAIN aip = Apis
  /\ \A t \in Apis : apc[t] # "idle" => aid[t] \in Ids

CastKnown ==
  /\ queue \in [Consumers -> Seq(Event \cup {Reset})]
  /\ lagged \in [Consumers -> BOOLEAN]

World == DockerKnown /\ WatchKnown /\ TasksKnown /\ CastKnown

\* Something Docker does to a container, for the API or for anybody else.
DockerOp(id) ==
  \/ \E ip \in Ips : DockerRun(id, ip)
  \/ \E to \in {"stopped", "removed"} : DockerExit(id, to)
  \/ DockerRemove(id)
  \/ \E kind \in Signals : DockerSignal(id, kind)

\* An open stream gets the events of a change behind those it has.
LEMMA ChangeTold ==
  ASSUME stream \in Seq(Event), NEW e \in Seq(Event), Change(e)
  PROVE  /\ stream' \in Seq(Event)
         /\ ~live => stream' = stream
         /\ \A c : Carries(stream, c) => Carries(stream', c)
         /\ \A c : live /\ Carries(e, c) => Carries(stream', c)
<1>1. stream \o e \in Seq(Event) OBVIOUS
<1>2. stream' = IF live THEN stream \o e ELSE stream BY Zenon DEF Change
<1>3. \A c : Carries(stream, c) \/ Carries(e, c) => Carries(stream \o e, c)
  BY Zenon, CarriesConcat
<1> QED BY Zenon, <1>1, <1>2, <1>3

\* Whatever Docker does to a container, an address is lost only by an exit, and
\* an open stream tells it.
LEMMA DockerTells ==
  ASSUME DockerKnown, NEW id \in Ids, DockerOp(id)
  PROVE  /\ DockerKnown'
         /\ live' = live
         /\ ~live => stream' = stream
         /\ \A c : Carries(stream, c) => Carries(stream', c)
         /\ \A i \in Ids : addr[i] # NoIp /\ addr'[i] # addr[i]
              => addr'[i] = NoIp /\ (live => Carries(stream', NameOf[i]))
<1> DEFINE One(k) == <<[kind |-> k, id |-> id]>>
           Two == <<[kind |-> "die", id |-> id], [kind |-> "destroy", id |-> id]>>
<1>0. \A k \in Kinds : [kind |-> k, id |-> id] \in Event BY Zenon DEF Event
<1>1. \A k \in Kinds : One(k) \in Seq(Event) BY <1>0
<1>2. Two \in Seq(Event) BY <1>0 DEF Kinds
<1>3. Carries(One("die"), NameOf[id]) /\ Carries(Two, NameOf[id])
  BY DEF Carries, Ends, CleanupKinds
<1>4. "start" \in Kinds /\ "die" \in Kinds /\ "destroy" \in Kinds /\ Signals \subseteq Kinds
  BY Zenon DEF Kinds
<1> HIDE DEF One, Two
<1>5. stream \in Seq(Event) BY Zenon DEF DockerKnown
<1>6. ASSUME NEW ip \in Ips, DockerRun(id, ip)
      PROVE  /\ DockerKnown' /\ live' = live /\ Change(One("start"))
             /\ \A i \in Ids : addr[i] # NoIp => addr'[i] = addr[i]
  <2>1. Change(One("start")) /\ live' = live BY Zenon, <1>6 DEF DockerRun, One
  <2>2. stream' \in Seq(Event) BY Zenon, <2>1, <1>1, <1>4, <1>5, ChangeTold
  <2> QED BY Zenon, <1>6, <2>1, <2>2 DEF DockerRun, DockerKnown
<1>7. ASSUME NEW to \in {"stopped", "removed"}, DockerExit(id, to)
      PROVE  /\ DockerKnown' /\ live' = live /\ (Change(One("die")) \/ Change(Two))
             /\ \A i \in Ids : addr'[i] = IF i = id THEN NoIp ELSE addr[i]
  <2>1. (Change(One("die")) \/ Change(Two)) /\ live' = live
    BY Zenon, <1>7 DEF DockerExit, One, Two
  <2>2. stream' \in Seq(Event) BY Zenon, <2>1, <1>1, <1>2, <1>4, <1>5, ChangeTold
  <2>3. /\ status' = [status EXCEPT ![id] = to]
        /\ addr' = [addr EXCEPT ![id] = NoIp]
    BY Zenon, <1>7 DEF DockerExit
  <2>4. \A i \in Ids : addr'[i] = IF i = id THEN NoIp ELSE addr[i]
    BY Zenon, <2>3 DEF DockerKnown
  <2> QED BY Zenon, <2>1, <2>2, <2>3, <2>4 DEF DockerKnown
<1>8. CASE DockerRemove(id)
  <2>1. Change(One("destroy")) /\ live' = live /\ addr' = addr
    BY Zenon, <1>8 DEF DockerRemove, One
  <2>2. stream' \in Seq(Event) BY Zenon, <2>1, <1>1, <1>4, <1>5, ChangeTold
  <2>3. DockerKnown' BY Zenon, <1>8, <2>1, <2>2 DEF DockerRemove, DockerKnown
  <2> QED BY Zenon, <2>1, <2>3, <1>1, <1>4, <1>5, ChangeTold
<1>9. ASSUME NEW kind \in Signals, DockerSignal(id, kind)
      PROVE  DockerKnown' /\ live' = live /\ Change(One(kind)) /\ addr' = addr
  <2>1. Change(One(kind)) /\ live' = live /\ UNCHANGED <<addr, status>>
    BY Zenon, <1>9 DEF DockerSignal, One
  <2>2. stream' \in Seq(Event) BY Zenon, <2>1, <1>1, <1>4, <1>5, ChangeTold
  <2> QED BY Zenon, <2>1, <2>2 DEF DockerKnown
<1>10. CASE \E ip \in Ips : DockerRun(id, ip)
  BY Zenon, <1>10, <1>6, <1>1, <1>4, <1>5, ChangeTold
<1>11. CASE \E to \in {"stopped", "removed"} : DockerExit(id, to)
  <2>1. /\ DockerKnown' /\ live' = live /\ (Change(One("die")) \/ Change(Two))
        /\ \A i \in Ids : addr'[i] = IF i = id THEN NoIp ELSE addr[i]
    BY Zenon, <1>11, <1>7
  <2>2. /\ ~live => stream' = stream
        /\ \A c : Carries(stream, c) => Carries(stream', c)
        /\ live => Carries(stream', NameOf[id])
    BY Zenon, <2>1, <1>1, <1>2, <1>3, <1>4, <1>5, ChangeTold
  <2> QED BY Zenon, <2>1, <2>2
<1>12. CASE \E kind \in Signals : DockerSignal(id, kind)
  BY Zenon, <1>12, <1>9, <1>1, <1>4, <1>5, ChangeTold
<1> QED BY Zenon, <1>8, <1>10, <1>11, <1>12 DEF DockerOp

-----------------------------------------------------------------------------
(* What still speaks for a rule, or against it.                            *)

Owned(c, ip)  == \E id \in Ids : NameOf[id] = c /\ addr[id] = ip
Overlooked(c) == \E id \in unseen : NameOf[id] = c

\* The stream is lost, and the watcher will find out and reset its consumers.
Breaking == wpc = "broken" \/ (~live /\ wpc \in Listening)

\* The container has the address, or the watcher is still to see its end, or
\* nobody will.
Vouched(c, ip) ==
  Owned(c, ip) \/ Overlooked(c) \/ Carries(stream, c) \/ Breaking

Covers(j, c) == j = FlushJob \/ j = RemoveJob(c)

\* The event task is still to hear of the container's end, or waits for the
\* lock to clean up after it.
Told(c) ==
  \/ lagged[EventTask]
  \/ Carries(queue[EventTask], c)
  \/ pc[EventTask] = "waitlock" /\ Covers(job[EventTask], c)

Standing(c, ip) == Vouched(c, ip) \/ Told(c)

\* The API, in one of its steps, has Docker act or leaves Docker as it is.
LEMMA ApiMoves ==
  ASSUME World, NEW t \in Apis, Api(t)
  PROVE  /\ TasksKnown'
         /\ UNCHANGED <<watchVars, castVars>>
         /\ (\E id \in Ids : DockerOp(id)) \/ UNCHANGED <<status, addr, live, stream>>
<1> USE DEF World
<1>1. ASSUME NEW id \in Ids, NEW ip \in Ips, ApiCreate(t, id, ip)
      PROVE  TasksKnown' /\ UNCHANGED <<watchVars, castVars>> /\ DockerOp(id)
  BY Zenon, <1>1 DEF ApiCreate, ApiGoto, TasksKnown, lookupVars, DockerOp
<1>2. CASE ApiInspect(t)
  BY Zenon, <1>2 DEF ApiInspect, ApiGoto, TasksKnown, lookupVars, dockerVars
<1>3. CASE ApiRollback(t)
  <2>1. aid[t] \in Ids BY Zenon, <1>3 DEF ApiRollback, TasksKnown
  <2>2. TasksKnown' BY Zenon, <1>3 DEF ApiRollback, ApiReturn, ApiGoto, TasksKnown, lookupVars
  <2> QED BY Zenon, <1>3, <2>1, <2>2 DEF ApiRollback, DockerOp, dockerVars
<1>4. CASE ApiRecord(t)
  BY Zenon, <1>4 DEF ApiRecord, ApiReturn, ApiGoto, TasksKnown, lookupVars
<1>5. ASSUME NEW id \in Ids, ApiEnd(t, id)
      PROVE  /\ TasksKnown' /\ UNCHANGED <<watchVars, castVars>>
             /\ DockerOp(id) \/ UNCHANGED <<status, addr, live, stream>>
  <2>1. TasksKnown' BY Zenon, <1>5 DEF ApiEnd, ApiGoto, TasksKnown, lookupVars
  <2> QED BY Zenon, <1>5, <2>1 DEF ApiEnd, DockerOp, dockerVars
<1>6. CASE ApiForget(t)
  BY Zenon, <1>6 DEF ApiForget, ApiReturn, ApiGoto, TasksKnown, lookupVars, dockerVars
<1> QED BY Zenon, <1>1, <1>2, <1>3, <1>4, <1>5, <1>6 DEF Api

\* The watcher's broadcast: the event task is told, or will learn that it lost
\* messages.
LEMMA SendTold ==
  ASSUME CastKnown, NEW m \in Event \cup {Reset}, Send(m)
  PROVE  /\ CastKnown'
         /\ \A c : lagged[EventTask] \/ Carries(queue[EventTask], c) \/ Ends(m, c)
              => lagged'[EventTask] \/ Carries(queue'[EventTask], c)
<1> DEFINE M == Event \cup {Reset}
           q == queue[EventTask]
<1>1. EventTask \in Consumers /\ Consumers = {EventTask} /\ Capacity \in Nat \ {0}
  BY Zenon, CompositionAssumption, IdentityAssumption
<1>2. q \in Seq(M) /\ m \in M BY Zenon, <1>1 DEF CastKnown
<1> HIDE DEF M
<1>3. Len(q) \in Nat BY <1>2
<1>4. Len(q) >= Capacity => q # <<>>
  <2>1. Len(<<>>) = 0 OBVIOUS
  <2>2. Len(q) >= Capacity => Len(q) # 0 BY <1>1, <1>3
  <2> QED BY Zenon, <2>1, <2>2
<1>5. Len(q) >= Capacity => Tail(q) \in Seq(M) BY Zenon, <1>2, <1>4, HeadTail
<1>6. /\ queue'[EventTask] = IF Len(q) < Capacity THEN Append(q, m) ELSE Append(Tail(q), m)
      /\ lagged'[EventTask] = (lagged[EventTask] \/ Len(q) >= Capacity)
      /\ queue' = [c \in Consumers |-> queue'[c]]
      /\ lagged' = [c \in Consumers |-> lagged'[c]]
  BY Zenon, <1>1 DEF Send
<1> HIDE DEF q
<1>7. Len(q) < Capacity \/ Len(q) >= Capacity BY <1>1, <1>3
<1>8. queue'[EventTask] \in Seq(M) BY <1>2, <1>5, <1>6, <1>7
<1>9. lagged'[EventTask] \in BOOLEAN BY Zenon, <1>6
<1>10. CastKnown' BY Zenon, <1>1, <1>6, <1>8, <1>9 DEF CastKnown, M
<1>11. ASSUME NEW c, lagged[EventTask] \/ Carries(q, c) \/ Ends(m, c)
       PROVE  lagged'[EventTask] \/ Carries(queue'[EventTask], c)
  <2>1. CASE Len(q) >= Capacity BY Zenon, <1>6, <2>1
  <2>2. CASE Len(q) < Capacity /\ ~lagged[EventTask]
    <3>1. queue'[EventTask] = Append(q, m) BY Zenon, <1>6, <2>2
    <3>2. Carries(q, c) \/ Ends(m, c) BY Zenon, <1>11, <2>2
    <3>3. Carries(Append(q, m), c) BY Zenon, <1>2, <3>2, CarriesAppend
    <3> QED BY Zenon, <3>1, <3>3
  <2> QED BY Zenon, <1>6, <1>7, <2>1, <2>2
<1> QED BY Zenon, <1>10, <1>11 DEF q

\* The watcher, in one of its steps, keeps what is known; what its stream
\* carried stays there, or is broadcast, or the stream is lost.
LEMMA WatchMoves ==
  ASSUME World, Watch
  PROVE  /\ World'
         /\ UNCHANGED <<status, addr, lookupVars, apiVars>>
         /\ \A c : lagged[EventTask] \/ Carries(queue[EventTask], c)
              => lagged'[EventTask] \/ Carries(queue'[EventTask], c)
         /\ \A c : Carries(stream, c) \/ Breaking
              => \/ Carries(stream', c) \/ Breaking'
                 \/ /\ WatchBroken \/ (WatchLifecycle /\ Ends(Head(stream), c))
                    /\ lagged'[EventTask] \/ Carries(queue'[EventTask], c)
<1> USE DEF World
<1> DEFINE Same == UNCHANGED <<status, addr, lookupVars, apiVars>>
<1>0. Reset \in Event \cup {Reset} /\ \A c : Ends(Reset, c) BY Zenon DEF Ends
<1>e. <<>> \in Seq(Event) OBVIOUS
<1>s. Same => TasksKnown' /\ (stream' \in Seq(Event) => DockerKnown')
  BY Zenon DEF lookupVars, apiVars, TasksKnown, DockerKnown
<1>q. UNCHANGED castVars => CastKnown' /\ UNCHANGED <<queue, lagged>>
  BY Zenon DEF castVars, CastKnown
<1>b. stream \in Seq(Event) BY Zenon DEF DockerKnown
<1>h. ASSUME stream # <<>>
      PROVE  /\ Head(stream) \in Event /\ Head(stream).id \in Ids
             /\ Tail(stream) \in Seq(Event)
             /\ \A c : Carries(stream, c) => Carries(Tail(stream), c) \/ Ends(Head(stream), c)
  <2>1. Head(stream) \in Event /\ Tail(stream) \in Seq(Event) BY Zenon, <1>b, <1>h, HeadTail
  <2>2. Head(stream).id \in Ids BY Zenon, <2>1 DEF Event
  <2> QED BY Zenon, <2>1, <2>2, <1>b, <1>h, CarriesTail
<1> HIDE DEF Same
<1>1. CASE WatchInvalidate \/ WatchList \/ WatchInstall
  <2>1. /\ wpc' \notin Listening /\ wpc \notin Listening /\ wpc # "broken"
        /\ Same /\ UNCHANGED <<live, stream, castVars>>
    BY Zenon, <1>1 DEF WatchInvalidate, WatchList, WatchInstall, WatchGoto, Listening,
       dockerVars, Same
  <2>2. World' BY Zenon, <1>b, <1>s, <1>q, <2>1 DEF WatchKnown, Listening
  <2> QED BY Zenon, <1>q, <2>1, <2>2 DEF Breaking, Same
<1>2. CASE WatchListFails
  <2>1. /\ wpc' = "start" /\ wpc = "list" /\ Send(Reset)
        /\ Same /\ UNCHANGED <<live, stream>>
    BY Zenon, <1>2 DEF WatchListFails, WatchGoto, dockerVars, Same
  <2>2. /\ CastKnown'
        /\ \A c : lagged'[EventTask] \/ Carries(queue'[EventTask], c)
    BY Zenon, <1>0, <2>1, SendTold
  <2>3. World' BY Zenon, <1>b, <1>s, <2>1, <2>2 DEF WatchKnown, Listening
  <2> QED BY Zenon, <2>1, <2>2, <2>3 DEF Breaking, Listening, Same
<1>3. CASE WatchSubscribe
  <2>1. /\ wpc' = "listen" /\ wpc = "subscribe" /\ stream' = <<>>
        /\ Same /\ UNCHANGED castVars
    BY Zenon, <1>3 DEF WatchSubscribe, WatchGoto, dockerVars, Same
  <2>2. stream = <<>> /\ ~Breaking BY Zenon, <2>1 DEF WatchKnown, Listening, Breaking
  <2>3. World' BY Zenon, <1>e, <1>s, <1>q, <2>1 DEF WatchKnown, Listening
  <2> QED BY Zenon, <1>q, <2>1, <2>2, <2>3, NothingCarried DEF Same
<1>4. CASE WatchStart
  <2>1. /\ wpc = "listen" /\ wpc' = "inspect" /\ stream # <<>> /\ Head(stream).kind = "start"
        /\ stream' = Tail(stream) /\ wid' = Head(stream).id
        /\ Same /\ UNCHANGED <<live, castVars>>
    BY Zenon, <1>4 DEF WatchStart, WatchGoto, Same
  <2>2. \A c : ~Ends(Head(stream), c) BY <2>1 DEF Ends, CleanupKinds, Reset
  <2>3. World' BY Zenon, <1>h, <1>s, <1>q, <2>1 DEF WatchKnown, Listening
  <2> QED BY Zenon, <1>h, <1>q, <2>1, <2>2, <2>3 DEF Breaking, Listening, Same
<1>5. CASE WatchInspect
  <2>1. /\ wpc = "inspect" /\ wpc' = "record" /\ wid' = wid
        /\ Same /\ UNCHANGED <<live, stream, castVars>>
    BY Zenon, <1>5 DEF WatchInspect, WatchGoto, dockerVars, Same
  <2>2. World' BY Zenon, <1>b, <1>s, <1>q, <2>1 DEF WatchKnown, Listening
  <2> QED BY Zenon, <1>q, <2>1, <2>2 DEF Breaking, Listening, Same
<1>6. CASE WatchInspectFails
  <2>1. /\ wpc' = "broken" /\ live' = FALSE /\ stream' = <<>> /\ Same /\ UNCHANGED castVars
    BY Zenon, <1>6 DEF WatchInspectFails, WatchGoto, Same
  <2>2. World' BY Zenon, <1>e, <1>s, <1>q, <2>1 DEF WatchKnown, Listening
  <2> QED BY Zenon, <1>q, <2>1, <2>2 DEF Breaking, Same
<1>7. CASE WatchRecord
  <2>1. /\ wpc = "record" /\ wpc' = "listen" /\ Same /\ UNCHANGED <<live, stream, castVars>>
    BY Zenon, <1>7 DEF WatchRecord, WatchGoto, dockerVars, Same
  <2>2. World' BY Zenon, <1>b, <1>s, <1>q, <2>1 DEF WatchKnown, Listening
  <2> QED BY Zenon, <1>q, <2>1, <2>2 DEF Breaking, Listening, Same
<1>8. CASE WatchLifecycle
  <2>1. /\ wpc = "listen" /\ wpc' = wpc /\ wid' = wid /\ stream # <<>>
        /\ stream' = Tail(stream) /\ Send(Head(stream)) /\ Same /\ UNCHANGED live
    BY Zenon, <1>8 DEF WatchLifecycle, watchVars, Same
  <2>2. /\ CastKnown'
        /\ \A c : lagged[EventTask] \/ Carries(queue[EventTask], c) \/ Ends(Head(stream), c)
              => lagged'[EventTask] \/ Carries(queue'[EventTask], c)
    BY Zenon, <1>h, <2>1, SendTold
  <2>3. World' BY Zenon, <1>h, <1>s, <2>1, <2>2 DEF WatchKnown, Listening
  <2> QED BY Zenon, <1>8, <1>h, <2>1, <2>2, <2>3 DEF Breaking, Listening, Same
<1>9. CASE WatchStreamEnds
  <2>1. /\ wpc' = "broken" /\ ~live /\ stream = <<>> /\ Same /\ UNCHANGED <<live, stream, castVars>>
    BY Zenon, <1>9 DEF WatchStreamEnds, WatchGoto, dockerVars, Same
  <2>2. World' BY Zenon, <1>b, <1>s, <1>q, <2>1 DEF WatchKnown, Listening
  <2> QED BY Zenon, <1>q, <2>1, <2>2 DEF Breaking, Same
<1>10. CASE WatchBroken
  <2>1. /\ wpc' = "start" /\ wpc = "broken" /\ Send(Reset)
        /\ Same /\ UNCHANGED <<live, stream>>
    BY Zenon, <1>10 DEF WatchBroken, WatchGoto, dockerVars, Same
  <2>2. /\ CastKnown'
        /\ \A c : lagged'[EventTask] \/ Carries(queue'[EventTask], c)
    BY Zenon, <1>0, <2>1, SendTold
  <2>3. World' BY Zenon, <1>b, <1>s, <2>1, <2>2 DEF WatchKnown, Listening
  <2> QED BY Zenon, <1>10, <2>1, <2>2, <2>3 DEF Same
<1> QED
  BY Zenon, <1>1, <1>2, <1>3, <1>4, <1>5, <1>6, <1>7, <1>8, <1>9, <1>10 DEF Watch

\* Nothing Docker, its users and the watcher do takes away what speaks for a
\* rule without telling the event task; and only two steps of the watcher hand
\* it over, a broken stream and the end of the container.
LEMMA LifeMoves ==
  ASSUME World, Lifecycle
  PROVE  /\ World'
         /\ UNCHANGED <<lookupVars, vars>>
         /\ unseen \subseteq unseen'
         /\ \A c : \A ip \in Ips : Vouched(c, ip)
              => \/ Vouched(c, ip)'
                 \/ /\ WatchBroken \/ (WatchLifecycle /\ Ends(Head(stream), c))
                    /\ lagged'[EventTask] \/ Carries(queue'[EventTask], c)
         /\ \A c : Told(c) => Told(c)'
<1> USE DEF World
<1>0. UNCHANGED <<vars, lookupVars>> /\ unseen \subseteq unseen' /\ ExitsUnseen \subseteq unseen'
      /\ UNCHANGED <<pc, job>>
  <2>1. UNCHANGED vars /\ unseen \subseteq unseen' /\ ExitsUnseen \subseteq unseen'
    BY Zenon DEF Lifecycle
  <2>2. UNCHANGED lookupVars
    <3>1. Watch => UNCHANGED lookupVars BY Zenon, WatchMoves DEF World
    <3>2. ASSUME NEW t \in Apis, Api(t) PROVE UNCHANGED lookupVars
      BY Zenon, <3>2 DEF Api, ApiCreate, ApiInspect, ApiRollback, ApiRecord, ApiEnd, ApiForget
    <3> QED BY Zenon, <3>1, <3>2 DEF Lifecycle, Docker, StreamBreak
  <2>3. UNCHANGED <<pc, job>> BY Zenon, <2>1 DEF vars
  <2> QED BY Zenon, <2>1, <2>2, <2>3
<1>1. \A c : Overlooked(c) => Overlooked(c)' BY Zenon, <1>0 DEF Overlooked
<1>2. NoIp \notin Ips BY Zenon, IdentityAssumption
<1>3. \A c : (lagged[EventTask] \/ Carries(queue[EventTask], c)
               => lagged'[EventTask] \/ Carries(queue'[EventTask], c))
             => (Told(c) => Told(c)')
  BY Zenon, <1>0 DEF Told
<1>4. UNCHANGED castVars => CastKnown' /\ \A c : Told(c) => Told(c)'
  <2>1. UNCHANGED castVars => UNCHANGED <<queue, lagged>> BY Zenon DEF castVars
  <2> QED BY Zenon, <2>1, <1>3 DEF CastKnown
<1>5. ASSUME NEW id \in Ids, DockerOp(id), UNCHANGED <<watchVars, castVars>>, TasksKnown'
      PROVE  World' /\ \A c : \A ip \in Ips : Vouched(c, ip) => Vouched(c, ip)'
  <2>1. /\ DockerKnown' /\ live' = live /\ (~live => stream' = stream)
        /\ \A c : Carries(stream, c) => Carries(stream', c)
        /\ \A i \in Ids : addr[i] # NoIp /\ addr'[i] # addr[i]
              => addr'[i] = NoIp /\ (live => Carries(stream', NameOf[i]))
    BY Zenon, <1>5, DockerTells
  <2>2. wpc' = wpc /\ wid' = wid BY Zenon, <1>5 DEF watchVars
  <2>3. World' BY Zenon, <1>4, <1>5, <2>1, <2>2 DEF WatchKnown
  <2>4. Breaking => Breaking' BY Zenon, <2>1, <2>2 DEF Breaking
  <2>5. ASSUME NEW c, NEW ip \in Ips, Owned(c, ip) PROVE Vouched(c, ip)'
    <3>1. PICK i \in Ids : NameOf[i] = c /\ addr[i] = ip BY Zenon, <2>5 DEF Owned
    <3>2. CASE addr'[i] = ip BY Zenon, <3>1, <3>2 DEF Vouched, Owned
    <3>3. CASE addr'[i] # ip
      <4>1. addr[i] # NoIp BY Zenon, <1>2, <3>1
      <4>2. addr'[i] = NoIp /\ (live => Carries(stream', NameOf[i]))
        BY Zenon, <2>1, <3>1, <3>3, <4>1
      <4>3. ~live => i \in unseen' BY Zenon, <1>0, <4>1, <4>2 DEF ExitsUnseen
      <4> QED BY Zenon, <3>1, <4>2, <4>3 DEF Vouched, Overlooked
    <3> QED BY Zenon, <3>2, <3>3
  <2> QED BY Zenon, <1>1, <2>1, <2>3, <2>4, <2>5 DEF Vouched
<1>6. CASE StreamBreak
  <2>1. /\ live /\ live' = FALSE /\ wpc' = wpc /\ wid' = wid /\ UNCHANGED castVars
        /\ UNCHANGED <<status, addr, stream, lookupVars, apiVars>>
    BY Zenon, <1>6 DEF StreamBreak, DockerBreaksStream, watchVars
  <2>2. wpc \in Listening /\ Breaking' BY Zenon, <2>1 DEF WatchKnown, Breaking
  <2>3. World'
    BY Zenon, <1>4, <2>1, <2>2 DEF DockerKnown, WatchKnown, TasksKnown, lookupVars, apiVars
  <2> QED BY Zenon, <1>0, <1>4, <2>1, <2>2, <2>3 DEF Vouched
<1>7. CASE Watch
  <2>1. /\ World'
        /\ addr' = addr
        /\ \A c : lagged[EventTask] \/ Carries(queue[EventTask], c)
              => lagged'[EventTask] \/ Carries(queue'[EventTask], c)
        /\ \A c : Carries(stream, c) \/ Breaking
              => \/ Carries(stream', c) \/ Breaking'
                 \/ /\ WatchBroken \/ (WatchLifecycle /\ Ends(Head(stream), c))
                    /\ lagged'[EventTask] \/ Carries(queue'[EventTask], c)
    BY Zenon, <1>7, WatchMoves DEF World
  <2>2. \A c, ip : Owned(c, ip) => Owned(c, ip)' BY Zenon, <2>1 DEF Owned
  <2>3. ASSUME NEW c, NEW ip \in Ips, Vouched(c, ip)
        PROVE  \/ Vouched(c, ip)'
               \/ /\ WatchBroken \/ (WatchLifecycle /\ Ends(Head(stream), c))
                  /\ lagged'[EventTask] \/ Carries(queue'[EventTask], c)
    BY Zenon, <1>1, <2>1, <2>2, <2>3 DEF Vouched
  <2>4. \A c : Told(c) => Told(c)' BY Zenon, <1>3, <2>1
  <2> QED BY Zenon, <1>0, <2>1, <2>3, <2>4
<1>8. ASSUME UNCHANGED <<status, addr, live, stream>>, UNCHANGED <<watchVars, castVars>>,
             TasksKnown'
      PROVE  World' /\ \A c : \A ip \in Ips : Vouched(c, ip) => Vouched(c, ip)'
  <2>1. wpc' = wpc /\ wid' = wid BY Zenon, <1>8 DEF watchVars
  <2>2. World' BY Zenon, <1>4, <1>8, <2>1 DEF DockerKnown, WatchKnown
  <2> QED BY Zenon, <1>1, <1>8, <2>1, <2>2 DEF Vouched, Owned, Breaking
<1>9. CASE Docker
  <2>1. \E id \in Ids : DockerOp(id) BY Zenon, <1>9 DEF Docker, DockerOp
  <2>2. UNCHANGED <<watchVars, castVars>> /\ TasksKnown'
    BY Zenon, <1>9 DEF Docker, lookupVars, apiVars, TasksKnown
  <2> QED BY Zenon, <1>0, <1>4, <1>5, <2>1, <2>2
<1>10. CASE \E t \in Apis : Api(t)
  <2>1. /\ TasksKnown' /\ UNCHANGED <<watchVars, castVars>>
        /\ (\E id \in Ids : DockerOp(id)) \/ UNCHANGED <<status, addr, live, stream>>
    BY Zenon, <1>10, ApiMoves DEF World
  <2> QED BY Zenon, <1>0, <1>4, <1>5, <1>8, <2>1
<1> QED BY Zenon, <1>6, <1>7, <1>9, <1>10 DEF Lifecycle

-----------------------------------------------------------------------------
(* The cache, and the lists on their way to it, name only containers that  *)
(* something speaks for.                                                   *)

Says(e, ip, c) == e[ip] # NoId /\ NameOf[e[ip]] = c

AllVouched(e) == \A ip \in Ips : \A c : Says(e, ip, c) => Vouched(c, ip)

CacheInv ==
  /\ healthy => AllVouched(entries)
  /\ wpc = "install" => AllVouched(wsnap)
  /\ wpc = "record" => \A ip \in Ips : \A c : ip = wip /\ c = NameOf[wid] => Vouched(c, ip)
  /\ \A t \in Lookups : t \in fresh /\ lpc[t] = "install" => AllVouched(lsnap[t])

\* A list of the containers, at the moment it is made, has their owners.
LEMMA ListedVouched == AllVouched(Listed)
<1> SUFFICES ASSUME NEW ip \in Ips, NEW c, Says(Listed, ip, c)
             PROVE  Vouched(c, ip)
  BY Zenon DEF AllVouched
<1>0. \A a \in Ips : Listed[a] # NoId => addr[Listed[a]] = a BY Zenon DEF Listed
<1>1. \A a \in Ips : Listed[a] # NoId => Listed[a] \in Ids BY Zenon DEF Listed
<1>2. Listed[ip] # NoId /\ NameOf[Listed[ip]] = c BY Zenon DEF Says
<1>3. Listed[ip] \in Ids /\ addr[Listed[ip]] = ip BY Zenon, <1>0, <1>1, <1>2
<1> QED BY Zenon, <1>2, <1>3 DEF Vouched, Owned

\* Nothing Docker, its users and the watcher do leaves the cache with a name
\* that nothing speaks for: the entries of a container go when its end is
\* broadcast, all of them when the stream is found broken, and the lists that
\* were made before are not installed.
LEMMA CacheLife ==
  ASSUME World, CacheInv, Lifecycle
  PROVE  CacheInv'
<1> DEFINE Over(c) == WatchBroken \/ (WatchLifecycle /\ Ends(Head(stream), c))
           Then(e) == \A ip \in Ips : \A c : Says(e, ip, c) => Vouched(c, ip)'
           Seen == \A ip \in Ips : \A c : ip = wip' /\ c = NameOf[wid'] => Vouched(c, ip)'
<1>0. /\ \A c : \A ip \in Ips : Vouched(c, ip) => Vouched(c, ip)' \/ Over(c)
      /\ UNCHANGED <<lpc, lsnap>> /\ World'
  BY Zenon, LifeMoves DEF lookupVars
<1>k. \A e : AllVouched(e) /\ (\A c : ~Over(c)) => Then(e)
  BY Zenon, <1>0 DEF AllVouched
<1>n. ASSUME healthy' => Then(entries'),
             wpc' = "install" => Then(wsnap'),
             wpc' = "record" => Seen,
             \A t \in Lookups : t \in fresh' /\ lpc'[t] = "install" => Then(lsnap'[t])
      PROVE  CacheInv'
  BY Zenon, <1>n DEF CacheInv, AllVouched, Says
<1> HIDE DEF Over, Then, Seen
<1>a. ASSUME \A c : ~Over(c),
             healthy' => Then(entries') \/ UNCHANGED <<entries, healthy>>,
             fresh' \subseteq fresh,
             UNCHANGED watchVars \/ wpc' \notin {"install", "record"}
      PROVE  CacheInv'
  <2>1. healthy' => Then(entries') BY Zenon, <1>a, <1>k DEF CacheInv
  <2>2. wpc' = "install" => Then(wsnap') BY Zenon, <1>a, <1>k DEF CacheInv, watchVars
  <2>3. wpc' = "record" => Seen BY Zenon, <1>a, <1>0 DEF CacheInv, Seen, watchVars
  <2>4. \A t \in Lookups : t \in fresh' /\ lpc'[t] = "install" => Then(lsnap'[t])
    BY Zenon, <1>0, <1>a, <1>k DEF CacheInv
  <2> QED BY Zenon, <1>n, <2>1, <2>2, <2>3, <2>4
<1>f. \A e : \A id, ip, c : ip \in Ips /\ Says(Forget(e, id), ip, c)
        => Says(e, ip, c) /\ c # NameOf[id]
  BY Zenon DEF Forget, Says
<1>r. \A e : \A id, a, ip, c : ip \in Ips /\ Says(Recorded(e, id, a), ip, c)
        => (ip = a /\ c = NameOf[id]) \/ (Says(e, ip, c) /\ c # NameOf[id])
  <2>2. ASSUME NEW e, NEW id, NEW a, NEW ip \in Ips, NEW c, Says(Recorded(e, id, a), ip, c)
        PROVE  (ip = a /\ c = NameOf[id]) \/ (Says(e, ip, c) /\ c # NameOf[id])
    <3>1. CASE ip = a
      <4>1. Recorded(e, id, a)[ip] = id BY Zenon, <3>1 DEF Recorded
      <4> QED BY Zenon, <2>2, <3>1, <4>1 DEF Says
    <3>2. CASE ip # a
      <4>0. Recorded(e, id, a)[ip] = Forget(e, id)[ip] BY Zenon, <3>2 DEF Recorded
      <4>1. Says(Forget(e, id), ip, c) BY Zenon, <2>2, <4>0 DEF Says
      <4> QED BY Zenon, <1>f, <4>1
    <3> QED BY Zenon, <3>1, <3>2
  <2> QED BY Zenon, <2>2
<1>1. CASE WatchInvalidate
  BY Zenon, <1>1, <1>n DEF WatchInvalidate, WatchGoto, Replace
<1>2. CASE WatchBroken
  BY Zenon, <1>2, <1>n DEF WatchBroken, WatchGoto, Replace
<1>3. CASE WatchLifecycle
  <2>1. UNCHANGED <<watchVars, healthy>> /\ wpc = "listen" /\ stream # <<>>
    BY Zenon, <1>3 DEF WatchLifecycle
  <2>2. wpc' = "listen" BY Zenon, <2>1 DEF watchVars
  <2>3. Head(stream) # Reset
    <3>1. Head(stream) \in Event BY Zenon, <2>1, HeadTail DEF World, DockerKnown
    <3>2. Head(stream).id \in Ids BY Zenon, <3>1 DEF Event
    <3>3. Reset.id \notin Ids BY Zenon, IdentityAssumption DEF Reset
    <3> QED BY Zenon, <3>2, <3>3
  <2>4. ~WatchBroken BY Zenon, <2>1 DEF WatchBroken
  <2>5. CASE Head(stream).kind \in CleanupKinds
    <3>1. entries' = Forget(entries, Head(stream).id) /\ fresh' = {}
      BY Zenon, <1>3, <2>5 DEF WatchLifecycle, Replace
    <3>2. ASSUME healthy, NEW ip \in Ips, NEW c, Says(entries', ip, c) PROVE Vouched(c, ip)'
      <4>1. Says(entries, ip, c) /\ c # NameOf[Head(stream).id] BY Zenon, <1>f, <3>1, <3>2
      <4>2. ~Over(c) BY Zenon, <2>3, <2>4, <4>1 DEF Over, Ends
      <4> QED BY Zenon, <1>0, <3>2, <4>1, <4>2 DEF CacheInv, AllVouched
    <3>3. healthy' => Then(entries') BY Zenon, <2>1, <3>2 DEF Then
    <3> QED BY Zenon, <1>n, <2>2, <3>1, <3>3
  <2>6. CASE Head(stream).kind \notin CleanupKinds
    <3>1. UNCHANGED <<entries, fresh>> BY Zenon, <1>3, <2>6 DEF WatchLifecycle
    <3>2. \A c : ~Over(c) BY Zenon, <2>3, <2>4, <2>6 DEF Over, Ends
    <3> QED BY Zenon, <1>a, <2>1, <3>1, <3>2
  <2> QED BY Zenon, <2>5, <2>6
<1>4. CASE WatchInstall
  <2>1. wpc = "install" /\ wpc' = "subscribe" /\ entries' = wsnap /\ fresh' = {}
    BY Zenon, <1>4 DEF WatchInstall, WatchGoto, Replace
  <2>2. \A c : ~Over(c) BY Zenon, <2>1 DEF Over, WatchBroken, WatchLifecycle
  <2>3. Then(entries') BY Zenon, <1>k, <2>1, <2>2 DEF CacheInv
  <2> QED BY Zenon, <1>n, <2>1, <2>3
<1>5. CASE WatchList
  <2>0. wpc = "list" /\ wpc' = "install" /\ wsnap' = Listed /\ UNCHANGED cacheVars
    BY Zenon, <1>5 DEF WatchList, WatchGoto
  <2>1. UNCHANGED <<entries, healthy, fresh>> BY Zenon, <2>0 DEF cacheVars
  <2>2. \A c : ~Over(c) BY Zenon, <2>0 DEF Over, WatchBroken, WatchLifecycle
  <2>3. Then(wsnap') BY Zenon, <1>k, <2>0, <2>2, ListedVouched
  <2>4. healthy' => Then(entries') BY Zenon, <1>k, <2>1, <2>2 DEF CacheInv
  <2>5. \A t \in Lookups : t \in fresh' /\ lpc'[t] = "install" => Then(lsnap'[t])
    BY Zenon, <1>0, <1>k, <2>1, <2>2 DEF CacheInv
  <2> QED BY Zenon, <1>n, <2>0, <2>1, <2>3, <2>4, <2>5
<1>6. CASE WatchInspect
  <2>1. /\ wpc = "inspect" /\ wpc' = "record" /\ wip' = addr[wid] /\ wid' = wid
        /\ UNCHANGED <<entries, healthy, fresh>>
    BY Zenon, <1>6 DEF WatchInspect, WatchGoto, cacheVars
  <2>2. \A c : ~Over(c) BY Zenon, <2>1 DEF Over, WatchBroken, WatchLifecycle
  <2>3. \A ip \in Ips : \A c : ip = wip' /\ c = NameOf[wid'] => Vouched(c, ip)
    BY Zenon, <2>1 DEF World, WatchKnown, Vouched, Owned
  <2>4. Seen BY Zenon, <1>0, <2>2, <2>3 DEF Seen
  <2>5. healthy' => Then(entries') BY Zenon, <1>k, <2>1, <2>2 DEF CacheInv
  <2>6. \A t \in Lookups : t \in fresh' /\ lpc'[t] = "install" => Then(lsnap'[t])
    BY Zenon, <1>0, <1>k, <2>1, <2>2 DEF CacheInv
  <2> QED BY Zenon, <1>n, <2>1, <2>4, <2>5, <2>6
<1>7. CASE WatchRecord
  <2>1. /\ wpc = "record" /\ wpc' = "listen" /\ entries' = Recorded(entries, wid, wip)
        /\ fresh' = {} /\ healthy' = healthy
    BY Zenon, <1>7 DEF WatchRecord, WatchGoto, Replace
  <2>2. \A c : ~Over(c) BY Zenon, <2>1 DEF Over, WatchBroken, WatchLifecycle
  <2>3. ASSUME healthy, NEW ip \in Ips, NEW c, Says(entries', ip, c) PROVE Vouched(c, ip)'
    <3>1. Vouched(c, ip) BY Zenon, <1>r, <2>1, <2>3 DEF CacheInv, AllVouched
    <3> QED BY Zenon, <1>0, <2>2, <3>1
  <2>4. healthy' => Then(entries') BY Zenon, <2>1, <2>3 DEF Then
  <2> QED BY Zenon, <1>n, <2>1, <2>4
<1>8. CASE WatchListFails \/ WatchSubscribe \/ WatchStart \/ WatchInspectFails \/ WatchStreamEnds
  <2>1. /\ wpc' \notin {"install", "record"} /\ UNCHANGED <<entries, healthy, fresh>>
        /\ wpc # "broken"
    BY Zenon, <1>8 DEF WatchListFails, WatchSubscribe, WatchStart, WatchInspectFails,
       WatchStreamEnds, WatchGoto, cacheVars
  <2>2. \A c : ~Over(c)
    <3>1. ~WatchBroken BY Zenon, <2>1 DEF WatchBroken
    <3>2. ~WatchLifecycle
      BY Zenon, <1>8 DEF WatchListFails, WatchSubscribe, WatchStart, WatchInspectFails,
         WatchStreamEnds, WatchLifecycle, WatchGoto, watchVars
    <3> QED BY Zenon, <3>1, <3>2 DEF Over
  <2> QED BY Zenon, <1>a, <2>1, <2>2
<1>b. \A c : ~WatchBroken /\ ~WatchLifecycle => ~Over(c) BY Zenon DEF Over
<1>9. CASE Docker \/ StreamBreak
  BY Zenon, <1>2, <1>3, <1>9, <1>a, <1>b DEF Docker, StreamBreak, cacheVars
<1>10. ASSUME NEW t \in Apis, Api(t) PROVE CacheInv'
  <2>0. UNCHANGED watchVars BY Zenon, <1>10, ApiMoves
  <2>1. CASE WatchBroken \/ WatchLifecycle BY Zenon, <1>2, <1>3, <2>1
  <2>2. CASE ~WatchBroken /\ ~WatchLifecycle
    <3>0. \A c : ~Over(c) BY Zenon, <1>b, <2>2
    <3>1. CASE \/ \E id \in Ids : (\E ip \in Ips : ApiCreate(t, id, ip)) \/ ApiEnd(t, id)
               \/ ApiInspect(t) \/ ApiRollback(t)
      <4>1. UNCHANGED cacheVars
        BY Zenon, <3>1 DEF ApiCreate, ApiEnd, ApiInspect, ApiRollback
      <4> QED BY Zenon, <1>a, <2>0, <3>0, <4>1 DEF cacheVars
    <3>2. CASE ApiForget(t)
      <4>1. entries' = Forget(entries, aid[t]) /\ fresh' = {} /\ healthy' = healthy
        BY Zenon, <3>2 DEF ApiForget, Replace
      <4>2. ASSUME healthy, NEW ip \in Ips, NEW c, Says(entries', ip, c)
            PROVE  Vouched(c, ip)'
        BY Zenon, <1>0, <1>f, <3>0, <4>1, <4>2 DEF CacheInv, AllVouched
      <4>3. healthy' => Then(entries') BY Zenon, <4>1, <4>2 DEF Then
      <4> QED BY Zenon, <1>a, <2>0, <3>0, <4>1, <4>3
    <3>3. CASE ApiRecord(t)
      <4>1. /\ entries' = Recorded(entries, aid[t], aip[t]) /\ fresh' = {}
            /\ healthy' = healthy /\ UNCHANGED <<addr, stream>>
            /\ apc[t] = "record" /\ apc' = [apc EXCEPT ![t] = "idle"]
        BY Zenon, <3>3 DEF ApiRecord, ApiReturn, ApiGoto, Replace
      <4>2. aid[t] \in Ids /\ apc'[t] = "idle" BY Zenon, <4>1 DEF World, TasksKnown
      <4>3. ASSUME NEW ip \in Ips, NEW c, ip = aip[t], c = NameOf[aid[t]]
            PROVE  Vouched(c, ip)'
        <5>1. CASE addr[aid[t]] = ip BY Zenon, <4>1, <4>2, <4>3, <5>1 DEF Vouched, Owned
        <5>2. CASE addr[aid[t]] # ip /\ EndPending(aid[t])
          <6>1. Carries(stream, c) BY Zenon, <4>3, <5>2 DEF EndPending, Carries, Ends
          <6> QED BY Zenon, <4>1, <6>1 DEF Vouched
        <5>3. CASE addr[aid[t]] # ip /\ ~EndPending(aid[t])
          <6>1. aid[t] \in RegisteredLate
            BY Zenon, <4>1, <4>2, <4>3, <5>3 DEF RegisteredLate
          <6>2. aid[t] \in unseen' BY Zenon, <6>1 DEF Lifecycle
          <6> QED BY Zenon, <4>3, <6>2 DEF Vouched, Overlooked
        <5> QED BY Zenon, <5>1, <5>2, <5>3
      <4>4. ASSUME healthy, NEW ip \in Ips, NEW c, Says(entries', ip, c)
            PROVE  Vouched(c, ip)'
        <5>1. (ip = aip[t] /\ c = NameOf[aid[t]]) \/ Says(entries, ip, c)
          BY Zenon, <1>r, <4>1, <4>4
        <5>2. Says(entries, ip, c) => Vouched(c, ip)
          BY Zenon, <4>4 DEF CacheInv, AllVouched
        <5> QED BY Zenon, <1>0, <3>0, <4>3, <5>1, <5>2
      <4>5. healthy' => Then(entries') BY Zenon, <4>1, <4>4 DEF Then
      <4> QED BY Zenon, <1>a, <2>0, <3>0, <4>1, <4>5
    <3> QED BY Zenon, <1>10, <3>1, <3>2, <3>3 DEF Api
  <2> QED BY Zenon, <2>1, <2>2
<1> QED
  BY Zenon, <1>1, <1>2, <1>3, <1>4, <1>5, <1>6, <1>7, <1>8, <1>9, <1>10 DEF Lifecycle, Watch

-----------------------------------------------------------------------------
(* The steps of the composition are steps of its two parts.                *)

\* Whatever the cache answers, the insertion does what it does with one of the
\* answers it knows.
LEMMA AnsweredStep ==
  ASSUME TypeReady, NEW t \in Inserters, NEW a, Answered(t, a)
  PROVE  Next
<1>1. ASSUME pc[t] # "idle"
      PROVE  req[t] \in Request /\ req[t].container \in Containers
  BY Zenon, <1>1, DataAssumption DEF TypeReady, TasksReady, Request
<1>2. ASSUME pc[t] # "idle", OwnerAccepted(a, req[t]) PROVE a \in Answers
  BY Zenon, <1>1, <1>2 DEF OwnerAccepted, Answers
<1>3. CASE OwnerLookup(t, a)
  <2>1. pc[t] = "lookup" /\ OwnerAccepted(a, req[t]) BY Zenon, <1>3 DEF OwnerLookup
  <2>2. a \in Answers BY <1>2, <2>1
  <2> QED BY Zenon, <1>3, <2>2 DEF Next
<1>4. CASE InsertRefused(t) BY Zenon, <1>4 DEF Next, InsertStep
<1>5. CASE RecheckOk(t, a)
  <2>1. pc[t] = "recheck" /\ OwnerAccepted(a, req[t]) BY Zenon, <1>5 DEF RecheckOk, StillOwned
  <2>2. a \in Answers BY <1>2, <2>1
  <2> QED BY Zenon, <1>5, <2>2 DEF Next
<1>6. CASE RecheckFails(t, a)
  <2>1. pc[t] # "idle" BY <1>6 DEF RecheckFails
  <2>2. LookupError \in Answers /\ ~StillOwned(LookupError, req[t], assigned[t])
    BY Zenon, <1>1, <2>1, DataAssumption DEF StillOwned, OwnerAccepted, Answers
  <2>3. RecheckFails(t, LookupError) BY Zenon, <1>6, <2>2 DEF RecheckFails
  <2> QED BY Zenon, <2>2, <2>3 DEF Next
<1> QED BY Zenon, <1>3, <1>4, <1>5, <1>6 DEF Answered

\* What the event task receives is an event of a container, or the reset.
LEMMA Received ==
  ASSUME World, Receive(EventTask)
  PROVE  /\ CastKnown'
         /\ lagged[EventTask] => UNCHANGED queue
         /\ ~lagged[EventTask] =>
              /\ queue[EventTask] # <<>>
              /\ queue'[EventTask] = Tail(queue[EventTask])
              /\ lagged' = lagged
              /\ \A c : Carries(queue[EventTask], c)
                   => Carries(queue'[EventTask], c) \/ Ends(Head(queue[EventTask]), c)
              /\ Head(queue[EventTask]).kind \in CleanupKinds
                   => NameOf[Head(queue[EventTask]).id] \in Containers
<1> DEFINE q == queue[EventTask]
           M == Event \cup {Reset}
<1>1. EventTask \in Consumers BY Zenon, CompositionAssumption
<1>2. q \in Seq(M) BY Zenon, <1>1 DEF World, CastKnown
<1>3. CASE lagged[EventTask] BY Zenon, <1>3 DEF Receive, World, CastKnown
<1>4. CASE ~lagged[EventTask]
  <2>1. q # <<>> /\ queue' = [queue EXCEPT ![EventTask] = Tail(q)] /\ lagged' = lagged
    BY Zenon, <1>4 DEF Receive
  <2> HIDE DEF q, M
  <2>2. Head(q) \in M /\ Tail(q) \in Seq(M) BY Zenon, <1>2, <2>1, HeadTail
  <2>3. queue'[EventTask] = Tail(q) BY Zenon, <1>1, <2>1 DEF World, CastKnown
  <2>4. CastKnown' BY Zenon, <2>1, <2>2 DEF World, CastKnown, M
  <2>5. \A c : Carries(q, c) => Carries(Tail(q), c) \/ Ends(Head(q), c)
    BY Zenon, <1>2, <2>1, CarriesTail
  <2>6. Head(q).kind \in CleanupKinds => NameOf[Head(q).id] \in Containers
    <3>1. Reset.kind \notin CleanupKinds BY DEF Reset, CleanupKinds
    <3>2. Head(q) # Reset => Head(q).id \in Ids BY Zenon, <2>2 DEF M, Event
    <3> QED BY Zenon, <3>1, <3>2, CompositionAssumption
  <2> QED BY Zenon, <1>4, <2>1, <2>3, <2>4, <2>5, <2>6 DEF q
<1> QED BY Zenon, <1>3, <1>4

\* Every step of the composition is one of the rule manager, or leaves it alone.
LEMMA StepOfRules ==
  ASSUME TypeReady, World, [LifeNext]_lifeVars
  PROVE  [Next]_vars
<1>1. ASSUME NEW t \in Inserters, AskHit(t) \/ AskDone(t) \/ AskFails(t) PROVE Next
  BY Zenon, <1>1, AnsweredStep DEF AskHit, AskDone, AskFails
<1>2. ASSUME NEW t \in Inserters, AskMiss(t) \/ AskList(t) PROVE UNCHANGED vars
  BY Zenon, <1>2 DEF AskMiss, AskList
<1>3. ASSUME NEW t \in Inserters, Insert(t) PROVE Next
  BY Zenon, <1>3 DEF Insert, Next
<1>4. CASE EventReceived
  BY Zenon, <1>4, Received DEF EventReceived, Next
<1>5. CASE EventCleans BY Zenon, <1>5 DEF EventCleans, Next, Cleaners
<1>6. CASE Lifecycle BY Zenon, <1>6 DEF Lifecycle
<1>7. CASE UNCHANGED lifeVars BY Zenon, <1>7 DEF lifeVars
<1> QED BY Zenon, <1>1, <1>2, <1>3, <1>4, <1>5, <1>6, <1>7 DEF LifeNext

\* Every step of the composition is one of the identity cache and its watcher,
\* or leaves them alone.
LEMMA StepOfIdentity ==
  ASSUME TypeReady, [LifeNext]_lifeVars
  PROVE  [IdNext]_idVars
<1>1. ASSUME NEW t \in Inserters, AskMiss(t) PROVE IdNext
  <2>1. req[t].src_ip \in Ips
    BY Zenon, <1>1, DataAssumption, CompositionAssumption
       DEF AskMiss, Asking, TypeReady, TasksReady, Request
  <2>2. t \in Lookups BY Zenon, CompositionAssumption
  <2> QED BY Zenon, <1>1, <2>1, <2>2 DEF AskMiss, IdNext
<1>2. ASSUME NEW t \in Inserters, AskList(t) \/ AskDone(t) \/ AskFails(t) PROVE IdNext
  BY Zenon, <1>2, CompositionAssumption DEF AskList, AskDone, AskFails, IdNext
<1>3. ASSUME NEW t \in Inserters, AskHit(t) \/ Insert(t) PROVE UNCHANGED idVars
  BY Zenon, <1>3 DEF AskHit, Insert
<1>4. CASE EventReceived
  BY Zenon, <1>4, CompositionAssumption DEF EventReceived, IdNext
<1>5. CASE EventCleans BY Zenon, <1>5 DEF EventCleans
<1>6. CASE Lifecycle BY Zenon, <1>6 DEF Lifecycle, IdNext
<1>7. CASE UNCHANGED lifeVars BY Zenon, <1>7 DEF lifeVars
<1> QED BY Zenon, <1>1, <1>2, <1>3, <1>4, <1>5, <1>6, <1>7 DEF LifeNext

-----------------------------------------------------------------------------
(* The invariant.  While no command has failed, every tracked rule is one  *)
(* whose insertion is still to be confirmed, or one that something speaks  *)
(* for, or one that the event task is about to remove.                     *)

Cleaning(c) == pc[EventTask] \in {"delete", "reset"} /\ Covers(job[EventTask], c)

Accounted(c, ip) == Standing(c, ip) \/ Cleaning(c)

Unconfirmed(r, t) ==
  /\ pc[t] \in {"recheck", "rollback", "reset"}
  /\ r.container = req[t].container
  /\ r.src_ip = req[t].src_ip
  /\ r.nft_handle = handle[t]

RuleInv ==
  faults = 0 => \A r \in rules : \/ \E t \in Inserters : Unconfirmed(r, t)
                                 \/ Accounted(r.container, r.src_ip)

\* A lookup is one of an insertion that waits for its answer, and the list of
\* the second one, made when the rule was already recorded, is as good as the
\* rule.
LookInv ==
  /\ \A t \in Inserters : lpc[t] # "idle" => Asking(t) /\ lip[t] = req[t].src_ip
  /\ \A t \in Inserters : pc[t] = "recheck" /\ lpc[t] = "install" =>
       \A ip \in Ips : \A c : ip = lip[t] /\ Says(lsnap[t], ip, c) => Standing(c, ip)

LifeInv == TypeReady /\ LockHeld /\ World /\ CacheInv /\ LookInv /\ RuleInv

\* Docker, its users and the watcher leave every rule, and every list in use by
\* a second lookup, accounted for.
LEMMA LifeRules ==
  ASSUME LifeInv, Lifecycle
  PROVE  LookInv' /\ RuleInv'
<1> USE DEF LifeInv
<1>1. /\ UNCHANGED <<lookupVars, vars>>
      /\ \A c : \A ip \in Ips : Vouched(c, ip)
           => Vouched(c, ip)' \/ lagged'[EventTask] \/ Carries(queue'[EventTask], c)
      /\ \A c : Told(c) => Told(c)'
  BY Zenon, LifeMoves
<1>2. UNCHANGED <<lpc, lip, lsnap>> BY Zenon, <1>1 DEF lookupVars
<1>3. UNCHANGED <<pc, req, handle, job, rules, faults>> BY Zenon, <1>1 DEF vars
<1>4. \A c : \A ip \in Ips : Standing(c, ip) => Standing(c, ip)'
  BY Zenon, <1>1 DEF Standing, Told
<1>5. LookInv' BY Zenon, <1>2, <1>3, <1>4 DEF LookInv, Asking
<1>6. ASSUME faults' = 0, NEW r \in rules'
      PROVE  (\E t \in Inserters : Unconfirmed(r, t)') \/ Accounted(r.container, r.src_ip)'
  <2>1. r.src_ip \in Ips
    BY Zenon, <1>3, <1>6, CompositionAssumption DEF TypeReady, TypeOK, Record
  <2>2. (\E t \in Inserters : Unconfirmed(r, t)) \/ Accounted(r.container, r.src_ip)
    BY Zenon, <1>3, <1>6 DEF RuleInv
  <2>3. \A t \in Inserters : Unconfirmed(r, t) => Unconfirmed(r, t)'
    BY Zenon, <1>3 DEF Unconfirmed
  <2>4. Cleaning(r.container) => Cleaning(r.container)' BY Zenon, <1>3 DEF Cleaning
  <2> QED BY Zenon, <1>4, <2>1, <2>2, <2>3, <2>4 DEF Accounted
<1>7. RuleInv' BY Zenon, <1>6 DEF RuleInv
<1> QED BY Zenon, <1>5, <1>7

\* A step that leaves Docker and the watcher alone leaves what speaks for a
\* container.
LEMMA VouchedSame ==
  ASSUME UNCHANGED <<dockerVars, watchVars, unseen>>
  PROVE  \A c, ip : Vouched(c, ip)' <=> Vouched(c, ip)
<1>1. UNCHANGED <<addr, stream, live, wpc>> BY Zenon DEF dockerVars, watchVars
<1> QED BY Zenon, <1>1 DEF Vouched, Owned, Overlooked, Breaking

\* A step of a lookup keeps the cache's invariant when what it installs, and
\* what it may install later, names only containers that something speaks for.
LEMMA CacheSame ==
  ASSUME World, CacheInv, TasksKnown', UNCHANGED healthy,
         UNCHANGED <<dockerVars, watchVars, castVars, unseen>>,
         entries' = entries \/ AllVouched(entries'),
         \A u \in Lookups : u \in fresh' /\ lpc'[u] = "install" => AllVouched(lsnap'[u])
  PROVE  World' /\ CacheInv'
<1>1. /\ UNCHANGED <<status, addr, live, stream>> /\ UNCHANGED <<wpc, wid, wip, wsnap>>
      /\ UNCHANGED <<queue, lagged>>
  BY Zenon DEF dockerVars, watchVars, castVars
<1>2. World' BY Zenon, <1>1 DEF World, DockerKnown, WatchKnown, CastKnown
<1>3. \A c, ip : Vouched(c, ip)' <=> Vouched(c, ip) BY Zenon, VouchedSame
<1> DEFINE Then(e) == \A ip \in Ips : \A c : Says(e, ip, c) => Vouched(c, ip)'
<1>4. \A e : AllVouched(e) => Then(e) BY Zenon, <1>3 DEF AllVouched
<1>5. healthy' => Then(entries') BY Zenon, <1>4 DEF CacheInv
<1>6. wpc' = "install" => Then(wsnap') BY Zenon, <1>1, <1>4 DEF CacheInv
<1>7. wpc' = "record" =>
        \A ip \in Ips : \A c : ip = wip' /\ c = NameOf[wid'] => Vouched(c, ip)'
  BY Zenon, <1>1, <1>3 DEF CacheInv
<1>8. \A u \in Lookups : u \in fresh' /\ lpc'[u] = "install" => Then(lsnap'[u])
  BY Zenon, <1>4
<1>9. CacheInv' BY Zenon, <1>5, <1>6, <1>7, <1>8 DEF CacheInv, AllVouched, Says
<1> QED BY Zenon, <1>2, <1>9

\* What every step of a lookup leaves alone.
OthersAsk(t) ==
  \A u \in Lookups \ {t} : lpc'[u] = lpc[u] /\ lip'[u] = lip[u] /\ lsnap'[u] = lsnap[u]

\* A lookup misses the cache.
LEMMA MissMoves ==
  ASSUME World, CacheInv, NEW t \in Lookups, NEW ip, LookupMiss(t, ip), UNCHANGED unseen
  PROVE  /\ World' /\ CacheInv' /\ OthersAsk(t)
         /\ UNCHANGED <<dockerVars, watchVars, castVars>>
         /\ lpc'[t] = "list" /\ lip'[t] = ip
<1>t. TasksKnown BY Zenon DEF World
<1>0. UNCHANGED <<dockerVars, watchVars, castVars, apiVars, healthy>>
  BY Zenon DEF LookupMiss
<1>1. /\ lpc' = [lpc EXCEPT ![t] = "list"] /\ lip' = [lip EXCEPT ![t] = ip]
      /\ lsnap' = lsnap /\ entries' = entries /\ fresh' \subseteq fresh \cup {t}
  BY Zenon DEF LookupMiss
<1>2. lpc'[t] = "list" /\ lip'[t] = ip BY Zenon, <1>t, <1>1 DEF TasksKnown
<1>3. OthersAsk(t) BY Zenon, <1>t, <1>1 DEF TasksKnown, OthersAsk
<1>4. TasksKnown' BY Zenon, <1>0, <1>t, <1>1 DEF TasksKnown, apiVars
<1>5. ASSUME NEW u \in Lookups, u \in fresh', lpc'[u] = "install"
      PROVE  AllVouched(lsnap'[u])
  <2>1. u # t BY <1>2, <1>5
  <2> QED BY Zenon, <1>1, <1>3, <1>5, <2>1 DEF CacheInv, OthersAsk
<1>6. World' /\ CacheInv' BY Zenon, <1>0, <1>1, <1>4, <1>5, CacheSame
<1> QED BY Zenon, <1>0, <1>2, <1>3, <1>6

\* A lookup lists the containers.
LEMMA ListMoves ==
  ASSUME World, CacheInv, NEW t \in Lookups, LookupList(t), UNCHANGED unseen
  PROVE  /\ World' /\ CacheInv' /\ OthersAsk(t)
         /\ UNCHANGED <<dockerVars, watchVars, castVars>>
         /\ lpc'[t] = "install" /\ lip'[t] = lip[t] /\ lpc[t] = "list"
         /\ AllVouched(lsnap'[t])
<1>t. TasksKnown BY Zenon DEF World
<1>0. UNCHANGED <<dockerVars, watchVars, castVars, apiVars, cacheVars>>
  BY Zenon DEF LookupList
<1>1. /\ lpc' = [lpc EXCEPT ![t] = "install"] /\ lip' = lip /\ lpc[t] = "list"
      /\ lsnap' = [lsnap EXCEPT ![t] = Listed]
  BY Zenon DEF LookupList
<1>2. UNCHANGED <<entries, healthy, fresh>> BY Zenon, <1>0 DEF cacheVars
<1>3. lpc'[t] = "install" /\ lsnap'[t] = Listed BY Zenon, <1>t, <1>1 DEF TasksKnown
<1>4. OthersAsk(t) BY Zenon, <1>t, <1>1 DEF TasksKnown, OthersAsk
<1>5. TasksKnown' BY Zenon, <1>0, <1>t, <1>1 DEF TasksKnown, apiVars
<1>6. AllVouched(lsnap'[t]) BY Zenon, <1>3, ListedVouched
<1>7. ASSUME NEW u \in Lookups, u \in fresh', lpc'[u] = "install"
      PROVE  AllVouched(lsnap'[u])
  BY Zenon, <1>2, <1>4, <1>6, <1>7 DEF CacheInv, OthersAsk
<1>8. World' /\ CacheInv' BY Zenon, <1>0, <1>2, <1>5, <1>7, CacheSame
<1> QED BY Zenon, <1>0, <1>1, <1>3, <1>4, <1>6, <1>8

\* A lookup ends, and installs its list if nothing happened since it missed.
LEMMA AskEnds ==
  ASSUME World, CacheInv, NEW t \in Lookups, LookupDone(t) \/ LookupFails(t),
         UNCHANGED unseen
  PROVE  /\ World' /\ CacheInv' /\ OthersAsk(t)
         /\ UNCHANGED <<dockerVars, watchVars, castVars>>
         /\ lpc'[t] = "idle"
<1>t. TasksKnown BY Zenon DEF World
<1>0. UNCHANGED <<dockerVars, watchVars, castVars, apiVars, healthy>>
  BY Zenon DEF LookupDone, LookupFails
<1>1. /\ lpc' = [lpc EXCEPT ![t] = "idle"] /\ lip' = [lip EXCEPT ![t] = NoIp]
      /\ lsnap' = [lsnap EXCEPT ![t] = NoEntry]
  BY Zenon DEF LookupDone, LookupFails, LookupReturn
<1>2. fresh' \subseteq fresh /\ (entries' = entries \/ AllVouched(entries'))
  <2>1. CASE LookupFails(t) BY Zenon, <2>1 DEF LookupFails
  <2>2. CASE LookupDone(t) BY Zenon, <2>2 DEF LookupDone, Replace, CacheInv
  <2> QED BY Zenon, <2>1, <2>2
<1>3. lpc'[t] = "idle" BY Zenon, <1>t, <1>1 DEF TasksKnown
<1>4. OthersAsk(t) BY Zenon, <1>t, <1>1 DEF TasksKnown, OthersAsk
<1>5. TasksKnown' BY Zenon, <1>0, <1>t, <1>1 DEF TasksKnown, apiVars
<1>6. ASSUME NEW u \in Lookups, u \in fresh', lpc'[u] = "install"
      PROVE  AllVouched(lsnap'[u])
  <2>1. u # t BY <1>3, <1>6
  <2> QED BY Zenon, <1>2, <1>4, <1>6, <2>1 DEF CacheInv, OthersAsk
<1>7. World' /\ CacheInv' BY Zenon, <1>0, <1>2, <1>5, <1>6, CacheSame
<1> QED BY Zenon, <1>0, <1>3, <1>4, <1>7

-----------------------------------------------------------------------------
(* The steps of an insertion.                                              *)

\* What every step of an insertion leaves alone.
OthersInsert(t) ==
  /\ UNCHANGED job
  /\ \A u \in Tasks \ {t} : pc'[u] = pc[u]
  /\ \A u \in Inserters \ {t} : req'[u] = req[u] /\ handle'[u] = handle[u]

InsertMove(t, a) ==
  \/ \E r \in Requests : StartInsert(t, r)
  \/ InsertStep(t)
  \/ OwnerLookup(t, a) \/ RecheckOk(t, a) \/ RecheckFails(t, a)

\* An insertion works on its own request and handle.
LEMMA InsertAlone ==
  ASSUME TypeReady, NEW t \in Inserters, NEW a, InsertMove(t, a)
  PROVE  OthersInsert(t)
<1> USE DEF TypeReady, TypeOK
<1>0. /\ t \in Tasks /\ t \notin Cleaners
  BY Zenon, TaskAssumption DEF Tasks
<1>r. ASSUME InsertReturn(t) PROVE OthersInsert(t)
  BY Zenon, <1>r DEF InsertReturn, Release, Goto, cleanVars, OthersInsert
<1>g. ASSUME NEW l, Goto(t, l), UNCHANGED <<req, handle, job>> PROVE OthersInsert(t)
  BY Zenon, <1>g DEF Goto, OthersInsert
<1>1. ASSUME NEW r, StartInsert(t, r) PROVE OthersInsert(t)
  BY Zenon, <1>1 DEF StartInsert, Goto, cleanVars, OthersInsert
<1>2. CASE OwnerLookup(t, a) \/ RecheckOk(t, a) \/ RecheckFails(t, a)
  BY Zenon, <1>2, <1>r, <1>g DEF OwnerLookup, RecheckOk, RecheckFails, cleanVars, insertVars
<1>3. CASE \/ InsertRefused(t) \/ RenewDuplicate(t) \/ RejectAtCap(t)
           \/ NftInsertRefused(t) \/ NftInsertLost(t) \/ RollbackDelete(t) \/ InsertHangUp(t)
  BY Zenon, <1>3, <1>r DEF InsertRefused, RenewDuplicate, RejectAtCap, NftInsertRefused,
     NftInsertLost, RollbackDelete, InsertHangUp
<1>4. CASE BeginNftInsert(t) \/ RollbackMissing(t) \/ RollbackFails(t)
  BY Zenon, <1>4, <1>g DEF BeginNftInsert, RollbackMissing, RollbackFails, insertVars, cleanVars
<1>5. CASE NftInsert(t)
  BY Zenon, <1>5 DEF NftInsert, Goto, cleanVars, OthersInsert
<1>6. CASE ResetOk(t) \/ ResetFails(t)
  BY Zenon, <1>0, <1>6, <1>r DEF ResetOk, ResetFails, TaskReturn
<1> QED BY Zenon, <1>1, <1>2, <1>3, <1>4, <1>5, <1>6 DEF InsertMove, InsertStep

\* While no command fails, an insertion leaves every rule accounted for: its own
\* until the second lookup confirmed it, and the others as they were.
LEMMA InsertRules ==
  ASSUME TypeReady, LockHeld, RuleInv, NEW t \in Inserters, NEW a, InsertMove(t, a),
         \A c, ip : Accounted(c, ip) => Accounted(c, ip)',
         RecheckOk(t, a) => Accounted(req[t].container, req[t].src_ip)
  PROVE  RuleInv'
<1>0. SUFFICES ASSUME faults' = 0, NEW r \in rules'
               PROVE  \/ \E u \in Inserters : Unconfirmed(r, u)'
                      \/ Accounted(r.container, r.src_ip)'
  BY Zenon DEF RuleInv
<1> DEFINE Fine == \/ \E u \in Inserters : Unconfirmed(r, u)'
                   \/ Accounted(r.container, r.src_ip)'
           Old == faults = 0 /\ r \in rules
<1>1. OthersInsert(t) /\ t \in Tasks /\ Inserters \subseteq Tasks
  BY Zenon, InsertAlone DEF Tasks
<1>2. ~Fault BY <1>0 DEF Fault, TypeReady, TypeOK
<1>3. Old => Fine \/ Unconfirmed(r, t)
  <2>1. SUFFICES ASSUME Old, NEW u \in Inserters, Unconfirmed(r, u), u # t PROVE Fine
    BY Zenon DEF RuleInv
  <2>2. pc'[u] = pc[u] /\ req'[u] = req[u] /\ handle'[u] = handle[u]
    BY Zenon, <1>1, <2>1 DEF OthersInsert
  <2>3. Unconfirmed(r, u)' BY Zenon, <2>1, <2>2 DEF Unconfirmed
  <2> QED BY Zenon, <2>3
<1>n. pc \in [Tasks -> Labels] /\ handle \in [Inserters -> Nat] /\ DOMAIN req = Inserters
  BY Zenon DEF TypeReady, TypeOK
<1> HIDE DEF Fine, Old
<1>f. SUFFICES Fine BY Zenon DEF Fine
<1>4. ASSUME NEW l \in {"rollback", "reset"}, Unconfirmed(r, t), Goto(t, l),
             UNCHANGED <<req, handle>>
      PROVE  Fine
  <2>1. pc'[t] = l BY Zenon, <1>1, <1>4, <1>n DEF Goto
  <2>2. Unconfirmed(r, t)' BY Zenon, <1>4, <2>1 DEF Unconfirmed
  <2> QED BY Zenon, <2>2 DEF Fine
<1>5. CASE \/ \E q \in Requests : StartInsert(t, q)
           \/ OwnerLookup(t, a)
           \/ InsertRefused(t) \/ RejectAtCap(t) \/ BeginNftInsert(t) \/ NftInsertRefused(t)
  <2>1. /\ rules' = rules /\ faults' = faults
        /\ pc[t] \notin {"recheck", "rollback", "reset"}
    BY Zenon, <1>5 DEF StartInsert, OwnerLookup, InsertRefused, RejectAtCap, BeginNftInsert,
       NftInsertRefused
  <2>2. Old BY Zenon, <1>0, <2>1 DEF Old
  <2> QED BY Zenon, <1>3, <2>1, <2>2 DEF Unconfirmed
<1>6. CASE RenewDuplicate(t)
  <2>1. faults = 0 /\ lock = NoTask BY Zenon, <1>0, <1>6 DEF RenewDuplicate
  <2>2. ASSUME NEW q, NEW u \in Inserters PROVE ~Unconfirmed(q, u)
    BY Zenon, <1>1, <2>1, TaskAssumption DEF LockHeld, Holding, Unconfirmed
  <2>3. PICK q \in rules : rules' = (rules \ {q}) \cup
            {[q EXCEPT !.expires_at =
                 renew_expiration(q.expires_at, deadline[t], req[t].policy)]}
    BY Zenon, <1>6 DEF RenewDuplicate
  <2>4. CASE r \in rules BY Zenon, <1>3, <2>1, <2>2, <2>4 DEF Old
  <2>5. CASE r \notin rules
    <3>1. PICK x : r = [q EXCEPT !.expires_at = x] BY Zenon, <1>0, <2>3, <2>5
    <3>2. q \in Record BY Zenon, <2>3 DEF TypeReady, TypeOK
    <3>3. r.container = q.container /\ r.src_ip = q.src_ip BY <3>1, <3>2 DEF Record
    <3>4. Accounted(q.container, q.src_ip) BY Zenon, <2>1, <2>2 DEF RuleInv
    <3> QED BY Zenon, <3>3, <3>4 DEF Fine
  <2> QED BY Zenon, <2>4, <2>5
<1>7. CASE NftInsert(t)
  <2>1. /\ pc[t] = "nft" /\ rules' = rules \cup {MadeRecord(t, nextHandle)}
        /\ handle' = [handle EXCEPT ![t] = nextHandle] /\ Goto(t, "recheck")
        /\ req' = req /\ faults' = faults
    BY Zenon, <1>7 DEF NftInsert
  <2>2. CASE r \in rules BY Zenon, <1>0, <1>3, <2>1, <2>2 DEF Unconfirmed, Old
  <2>3. CASE r = MadeRecord(t, nextHandle)
    <3>1. pc'[t] = "recheck" /\ handle'[t] = nextHandle BY Zenon, <1>1, <1>n, <2>1 DEF Goto
    <3>2. /\ r.container = req[t].container /\ r.src_ip = req[t].src_ip
          /\ r.nft_handle = nextHandle
      BY <2>3 DEF MadeRecord
    <3>3. Unconfirmed(r, t)' BY Zenon, <2>1, <3>1, <3>2 DEF Unconfirmed
    <3> QED BY Zenon, <3>3 DEF Fine
  <2> QED BY Zenon, <1>0, <2>1, <2>2, <2>3
<1>8. CASE NftInsertLost(t) \/ RollbackFails(t) \/ InsertHangUp(t) \/ ResetFails(t)
  BY Zenon, <1>2, <1>8 DEF NftInsertLost, RollbackFails, InsertHangUp, ResetFails
<1>9. CASE RecheckOk(t, a)
  <2>1. Old BY Zenon, <1>0, <1>9 DEF RecheckOk, Old
  <2>2. Unconfirmed(r, t) => Accounted(r.container, r.src_ip)'
    BY Zenon, <1>9 DEF Unconfirmed
  <2> QED BY Zenon, <1>3, <2>1, <2>2 DEF Fine
<1>10. CASE RecheckFails(t, a)
  <2>1. Old /\ Goto(t, "rollback") /\ UNCHANGED <<req, handle>>
    BY Zenon, <1>0, <1>10 DEF RecheckFails, Old, insertVars
  <2> QED BY Zenon, <1>3, <1>4, <2>1
<1>11. CASE RollbackMissing(t)
  <2>1. Old /\ Goto(t, "reset") /\ UNCHANGED <<req, handle>>
    BY Zenon, <1>0, <1>11 DEF RollbackMissing, Old, insertVars
  <2> QED BY Zenon, <1>3, <1>4, <2>1
<1>12. CASE RollbackDelete(t)
  <2>1. rules' = Untrack(rules, req[t].container, handle[t]) /\ faults' = faults
    BY Zenon, <1>12 DEF RollbackDelete
  <2>2. Old /\ ~Unconfirmed(r, t) BY Zenon, <1>0, <2>1 DEF Untrack, Unconfirmed, Old
  <2> QED BY Zenon, <1>3, <2>2
<1>13. CASE ResetOk(t) BY Zenon, <1>0, <1>13 DEF ResetOk
<1> QED
  BY Zenon, <1>5, <1>6, <1>7, <1>8, <1>9, <1>10, <1>11, <1>12, <1>13
     DEF InsertMove, InsertStep

\* An insertion takes a step while no lookup of its own is under way any more:
\* the lookups of the others and all rules stay accounted for.
LEMMA InsertMoves ==
  ASSUME LifeInv, NEW t \in Inserters, NEW a, InsertMove(t, a),
         UNCHANGED <<dockerVars, watchVars, castVars, unseen>>,
         OthersAsk(t), lpc'[t] = "idle",
         RecheckOk(t, a) => Standing(req[t].container, req[t].src_ip)
  PROVE  LookInv' /\ RuleInv'
<1> USE DEF LifeInv
<1>1. OthersInsert(t) BY Zenon, InsertAlone
<1>2. EventTask \in Tasks \ {t} /\ Inserters \subseteq Tasks /\ Lookups = Inserters
  BY Zenon, TaskAssumption, CompositionAssumption DEF Tasks, Cleaners
<1>3. pc'[EventTask] = pc[EventTask] /\ job' = job BY Zenon, <1>1, <1>2 DEF OthersInsert
<1>4. \A c, ip : Vouched(c, ip)' <=> Vouched(c, ip) BY Zenon, VouchedSame
<1>5. \A c : Told(c)' <=> Told(c)
  <2>1. UNCHANGED <<queue, lagged>> BY Zenon DEF castVars
  <2> QED BY Zenon, <1>3, <2>1 DEF Told
<1>6. \A c, ip : Standing(c, ip)' <=> Standing(c, ip) BY Zenon, <1>4, <1>5 DEF Standing
<1>7. \A c, ip : Accounted(c, ip) => Accounted(c, ip)'
  BY Zenon, <1>3, <1>6 DEF Accounted, Cleaning
<1>8. RuleInv' BY Zenon, <1>7, InsertRules DEF Accounted
<1>9. ASSUME NEW u \in Inserters, lpc'[u] # "idle"
      PROVE  /\ Asking(u)' /\ lip'[u] = req'[u].src_ip
             /\ pc'[u] = "recheck" /\ lpc'[u] = "install" =>
                  \A ip \in Ips : \A c : ip = lip'[u] /\ Says(lsnap'[u], ip, c)
                    => Standing(c, ip)'
  <2>0. u # t BY Zenon, <1>9
  <2>1. lpc'[u] = lpc[u] /\ lip'[u] = lip[u] /\ lsnap'[u] = lsnap[u]
    BY Zenon, <1>2, <2>0 DEF OthersAsk
  <2>2. pc'[u] = pc[u] /\ req'[u] = req[u] BY Zenon, <1>1, <1>2, <2>0 DEF OthersInsert
  <2>3. Asking(u)' /\ lip'[u] = req'[u].src_ip
    BY Zenon, <1>9, <2>1, <2>2 DEF LookInv, Asking
  <2>4. pc'[u] = "recheck" /\ lpc'[u] = "install" =>
          \A ip \in Ips : \A c : ip = lip'[u] /\ Says(lsnap'[u], ip, c) => Standing(c, ip)'
    BY Zenon, <1>6, <2>1, <2>2 DEF LookInv
  <2> QED BY Zenon, <2>3, <2>4
<1>10. LookInv' BY <1>9 DEF LookInv, Says
<1> QED BY Zenon, <1>8, <1>10

\* A request of the DNS handler is confirmed only by its own container's name.
LEMMA ConfirmedBy ==
  ASSUME TypeReady, NEW t \in Inserters, NEW a, RecheckOk(t, a)
  PROVE  /\ a = req[t].container /\ a \in Containers /\ req[t].src_ip \in Ips
         /\ a # NoContainer /\ a # LookupError /\ pc[t] = "recheck"
<1>1. pc[t] = "recheck" /\ OwnerAccepted(a, req[t]) BY Zenon DEF RecheckOk, StillOwned
<1>2. req[t] \in Requests /\ req[t] \in Request
  <2>1. pc[t] # "idle" BY <1>1
  <2> QED BY Zenon, <2>1, DataAssumption DEF TypeReady, TasksReady
<1>3. /\ req[t].policy = "managed" /\ req[t].container \in Containers
      /\ req[t].src_ip \in Ips
  BY Zenon, <1>2, CompositionAssumption DEF Request
<1>4. a = req[t].container BY <1>1, <1>3 DEF OwnerAccepted
<1> QED BY Zenon, <1>1, <1>3, <1>4, DataAssumption

\* An insertion's step that asks nothing, or its question and the answer, keep
\* the invariant.
LEMMA AskSteps ==
  ASSUME LifeInv, NEW t \in Inserters,
         AskHit(t) \/ AskMiss(t) \/ AskList(t) \/ AskDone(t) \/ AskFails(t) \/ Insert(t)
  PROVE  World' /\ CacheInv' /\ LookInv' /\ RuleInv'
<1> USE DEF LifeInv
<1>0. t \in Lookups /\ Lookups = Inserters BY Zenon, CompositionAssumption
<1>a. \A a : Answered(t, a) => InsertMove(t, a)
  BY Zenon DEF Answered, InsertMove, InsertStep
<1>i. ASSUME UNCHANGED idVars, UNCHANGED unseen
      PROVE  /\ World' /\ CacheInv' /\ OthersAsk(t) /\ lpc' = lpc
             /\ UNCHANGED <<dockerVars, watchVars, castVars, unseen>>
  <2>1. /\ UNCHANGED <<dockerVars, watchVars, castVars, unseen>>
        /\ UNCHANGED <<cacheVars, lookupVars, apiVars>>
    BY Zenon, <1>i DEF idVars
  <2>2. UNCHANGED <<entries, healthy, fresh>> /\ UNCHANGED <<lpc, lip, lsnap>>
        /\ UNCHANGED <<apc, aid, aip>>
    BY Zenon, <2>1 DEF cacheVars, lookupVars, apiVars
  <2>3. TasksKnown' BY Zenon, <2>2 DEF World, TasksKnown
  <2>4. \A u \in Lookups : u \in fresh' /\ lpc'[u] = "install" => AllVouched(lsnap'[u])
    BY Zenon, <2>2 DEF CacheInv
  <2>5. World' /\ CacheInv' BY Zenon, <2>1, <2>2, <2>3, <2>4, CacheSame
  <2> QED BY Zenon, <2>1, <2>2, <2>5 DEF OthersAsk
<1>u. ASSUME UNCHANGED vars, UNCHANGED <<dockerVars, watchVars, castVars, unseen>>
      PROVE  /\ RuleInv' /\ UNCHANGED <<pc, req>>
             /\ \A c, ip : Standing(c, ip)' <=> Standing(c, ip)
  <2>1. UNCHANGED <<pc, req, handle, job, rules, faults>> BY Zenon, <1>u DEF vars
  <2>2. UNCHANGED <<queue, lagged>> BY Zenon, <1>u DEF castVars
  <2>3. \A c, ip : Standing(c, ip)' <=> Standing(c, ip)
    BY Zenon, <1>u, <2>1, <2>2, VouchedSame DEF Standing, Told
  <2>4. RuleInv'
    BY Zenon, <2>1, <2>3 DEF RuleInv, Accounted, Cleaning, Unconfirmed
  <2> QED BY Zenon, <2>1, <2>3, <2>4
<1>1. CASE AskHit(t)
  <2> DEFINE ip == req[t].src_ip
             a == NameOrNone(entries[ip])
  <2>1. /\ lpc[t] = "idle" /\ healthy /\ entries[ip] # NoId /\ Answered(t, a)
        /\ UNCHANGED idVars /\ UNCHANGED unseen
    BY Zenon, <1>1 DEF AskHit, LookupHit
  <2>2. RecheckOk(t, a) => Standing(req[t].container, req[t].src_ip)
    <3>1. a = NameOf[entries[ip]] BY Zenon, <2>1 DEF NameOrNone
    <3>2. Says(entries, ip, a) BY Zenon, <2>1, <3>1 DEF Says
    <3> HIDE DEF a
    <3>3. RecheckOk(t, a) => a = req[t].container /\ ip \in Ips BY Zenon, ConfirmedBy
    <3> QED BY Zenon, <2>1, <3>2, <3>3 DEF CacheInv, AllVouched, Standing
  <2> HIDE DEF a, ip
  <2> QED BY Zenon, <1>a, <1>i, <2>1, <2>2, InsertMoves
<1>2. CASE AskMiss(t)
  <2>1. /\ Asking(t) /\ LookupMiss(t, req[t].src_ip) /\ UNCHANGED vars /\ UNCHANGED unseen
    BY Zenon, <1>2 DEF AskMiss
  <2>2. /\ World' /\ CacheInv' /\ OthersAsk(t)
        /\ UNCHANGED <<dockerVars, watchVars, castVars>>
        /\ lpc'[t] = "list" /\ lip'[t] = req[t].src_ip
    BY Zenon, <1>0, <2>1, MissMoves
  <2>3. /\ RuleInv' /\ UNCHANGED <<pc, req>>
        /\ \A c, ip : Standing(c, ip)' <=> Standing(c, ip)
    BY Zenon, <1>u, <2>1, <2>2
  <2>4. LookInv'
    <3>1. ASSUME NEW u \in Inserters, u # t
          PROVE  lpc'[u] = lpc[u] /\ lip'[u] = lip[u] /\ lsnap'[u] = lsnap[u]
      BY Zenon, <1>0, <2>2, <3>1 DEF OthersAsk
    <3>2. ASSUME NEW u \in Inserters, lpc'[u] # "idle"
          PROVE  Asking(u)' /\ lip'[u] = req'[u].src_ip
      BY Zenon, <2>1, <2>2, <2>3, <3>1, <3>2 DEF LookInv, Asking
    <3>3. ASSUME NEW u \in Inserters, pc'[u] = "recheck", lpc'[u] = "install",
                 NEW ip \in Ips, NEW c, ip = lip'[u], Says(lsnap'[u], ip, c)
          PROVE  Standing(c, ip)'
      <4>1. u # t BY <2>2, <3>3
      <4> QED BY Zenon, <2>3, <3>1, <3>3, <4>1 DEF LookInv
    <3> QED BY <3>2, <3>3 DEF LookInv, Says
  <2> QED BY Zenon, <2>2, <2>3, <2>4
<1>3. CASE AskList(t)
  <2>1. LookupList(t) /\ UNCHANGED vars /\ UNCHANGED unseen BY Zenon, <1>3 DEF AskList
  <2>2. /\ World' /\ CacheInv' /\ OthersAsk(t)
        /\ UNCHANGED <<dockerVars, watchVars, castVars>>
        /\ lpc'[t] = "install" /\ lip'[t] = lip[t] /\ lpc[t] = "list"
        /\ AllVouched(lsnap'[t])
    BY Zenon, <1>0, <2>1, ListMoves
  <2>3. /\ RuleInv' /\ UNCHANGED <<pc, req>>
        /\ \A c, ip : Standing(c, ip)' <=> Standing(c, ip)
    BY Zenon, <1>u, <2>1, <2>2
  <2>4. LookInv'
    <3>1. ASSUME NEW u \in Inserters, u # t
          PROVE  lpc'[u] = lpc[u] /\ lip'[u] = lip[u] /\ lsnap'[u] = lsnap[u]
      BY Zenon, <1>0, <2>2, <3>1 DEF OthersAsk
    <3>0. lpc[t] # "idle" BY <2>2
    <3>2. ASSUME NEW u \in Inserters, lpc'[u] # "idle"
          PROVE  Asking(u)' /\ lip'[u] = req'[u].src_ip
      BY Zenon, <2>2, <2>3, <3>0, <3>1, <3>2 DEF LookInv, Asking
    <3>3. ASSUME NEW u \in Inserters, pc'[u] = "recheck", lpc'[u] = "install",
                 NEW ip \in Ips, NEW c, ip = lip'[u], Says(lsnap'[u], ip, c)
          PROVE  Standing(c, ip)'
      <4>1. CASE u = t BY Zenon, <2>2, <2>3, <3>3, <4>1 DEF AllVouched, Standing
      <4>2. CASE u # t BY Zenon, <2>3, <3>1, <3>3, <4>2 DEF LookInv
      <4> QED BY Zenon, <4>1, <4>2
    <3> QED BY <3>2, <3>3 DEF LookInv, Says
  <2> QED BY Zenon, <2>2, <2>3, <2>4
<1>4. CASE AskDone(t)
  <2> DEFINE ip == lip[t]
             a == NameOrNone(lsnap[t][ip])
  <2>1. LookupDone(t) /\ lpc[t] = "install" /\ Answered(t, a) /\ UNCHANGED unseen
    BY Zenon, <1>4 DEF AskDone, LookupDone
  <2>2. RecheckOk(t, a) => Standing(req[t].container, req[t].src_ip)
    <3>0. lpc[t] # "idle" BY <2>1
    <3>1. ip = req[t].src_ip BY Zenon, <3>0 DEF LookInv
    <3>2. SUFFICES ASSUME RecheckOk(t, a)
                   PROVE  Standing(req[t].container, req[t].src_ip)
      OBVIOUS
    <3>3. a # NoContainer => a = NameOf[lsnap[t][ip]] /\ lsnap[t][ip] # NoId
      BY Zenon DEF NameOrNone
    <3> HIDE DEF a
    <3>4. a = req[t].container /\ req[t].src_ip \in Ips /\ a # NoContainer /\ pc[t] = "recheck"
      BY Zenon, <3>2, ConfirmedBy
    <3>5. Says(lsnap[t], ip, a) BY Zenon, <3>3, <3>4 DEF Says
    <3> HIDE DEF ip
    <3> QED BY Zenon, <2>1, <3>1, <3>4, <3>5 DEF LookInv, ip
  <2> HIDE DEF a, ip
  <2>3. /\ World' /\ CacheInv' /\ OthersAsk(t)
        /\ UNCHANGED <<dockerVars, watchVars, castVars>>
        /\ lpc'[t] = "idle"
    BY Zenon, <1>0, <2>1, AskEnds
  <2> QED BY Zenon, <1>a, <2>1, <2>2, <2>3, InsertMoves
<1>5. CASE AskFails(t)
  <2>1. LookupFails(t) /\ Answered(t, LookupError) /\ UNCHANGED unseen
    BY Zenon, <1>5 DEF AskFails
  <2>2. ~RecheckOk(t, LookupError) BY Zenon, ConfirmedBy
  <2>3. /\ World' /\ CacheInv' /\ OthersAsk(t)
        /\ UNCHANGED <<dockerVars, watchVars, castVars>>
        /\ lpc'[t] = "idle"
    BY Zenon, <1>0, <2>1, AskEnds
  <2> QED BY Zenon, <1>a, <2>1, <2>2, <2>3, InsertMoves
<1>6. CASE Insert(t)
  <2>1. /\ UNCHANGED idVars /\ UNCHANGED unseen
        /\ (\E r \in Requests : StartInsert(t, r)) \/ (pc[t] # "lookup" /\ InsertStep(t))
    BY Zenon, <1>6 DEF Insert
  <2>2. InsertMove(t, LookupError) BY Zenon, <2>1 DEF InsertMove
  <2>3. ~RecheckOk(t, LookupError) BY Zenon, ConfirmedBy
  <2>4. ~Asking(t)
    <3>1. ASSUME NEW r \in Requests, StartInsert(t, r) PROVE ~Asking(t)
      BY Zenon, <3>1 DEF StartInsert, Asking
    <3>2. ASSUME pc[t] = "recheck", InsertStep(t) PROVE FALSE
      <4>1. InsertHangUp(t)
        BY <3>2 DEF InsertStep, InsertRefused, RenewDuplicate, RejectAtCap, BeginNftInsert,
           NftInsert, NftInsertRefused, NftInsertLost, RollbackDelete, RollbackMissing,
           RollbackFails, ResetOk, ResetFails
      <4>2. req[t].policy = "operator" BY Zenon, <4>1 DEF InsertHangUp
      <4>3. pc[t] # "idle" BY <3>2
      <4>4. req[t].policy = "managed"
        BY Zenon, <4>3, CompositionAssumption DEF TypeReady, TasksReady
      <4> QED BY Zenon, <4>2, <4>4
    <3> QED BY Zenon, <2>1, <3>1, <3>2 DEF Asking
  <2>5. lpc[t] = "idle" BY Zenon, <2>4 DEF LookInv
  <2> QED BY Zenon, <1>i, <2>1, <2>2, <2>3, <2>5, InsertMoves
<1> QED BY Zenon, <1>1, <1>2, <1>3, <1>4, <1>5, <1>6

-----------------------------------------------------------------------------
(* The steps of the event task.                                            *)

\* A step that leaves Docker, the watcher, the cache and its lookups alone
\* leaves the cache's entries spoken for.
LEMMA CacheQuiet ==
  ASSUME CacheInv, UNCHANGED <<dockerVars, watchVars, cacheVars, lookupVars, unseen>>
  PROVE  CacheInv'
<1>1. /\ UNCHANGED <<wpc, wid, wip, wsnap>> /\ UNCHANGED <<entries, healthy, fresh>>
      /\ UNCHANGED <<lpc, lip, lsnap>>
  BY Zenon DEF watchVars, cacheVars, lookupVars
<1>2. \A c, ip : Vouched(c, ip)' <=> Vouched(c, ip) BY Zenon, VouchedSame
<1> QED BY Zenon, <1>1, <1>2 DEF CacheInv, AllVouched, Says

\* The event task takes a message or learns that it lost some: what the message
\* said is from now on what the task is about to do.
LEMMA ReceiveStep ==
  ASSUME LifeInv, EventReceived
  PROVE  World' /\ CacheInv' /\ LookInv' /\ RuleInv'
<1> USE DEF LifeInv
<1> DEFINE q == queue[EventTask]
<1>0. /\ pc[EventTask] = "idle" /\ Receive(EventTask) /\ UNCHANGED unseen
      /\ UNCHANGED <<dockerVars, watchVars, cacheVars, lookupVars, apiVars>>
  BY Zenon DEF EventReceived, Receive
<1>1. World'
  <2>1. CastKnown' BY Zenon, <1>0, Received
  <2>2. UNCHANGED <<status, addr, live, stream>> /\ UNCHANGED <<wpc, wid>>
        /\ UNCHANGED <<lpc, lip, lsnap>> /\ UNCHANGED <<apc, aid, aip>>
    BY Zenon, <1>0 DEF dockerVars, watchVars, lookupVars, apiVars
  <2> QED BY Zenon, <2>1, <2>2 DEF World, DockerKnown, WatchKnown, TasksKnown
<1>2. CacheInv' BY Zenon, <1>0, CacheQuiet
<1>3. \A c, ip : Vouched(c, ip)' <=> Vouched(c, ip) BY Zenon, <1>0, VouchedSame
<1>t. EventTask \in Cleaners /\ EventTask \in Tasks /\ Inserters \subseteq Tasks
      /\ EventTask \notin Inserters
  BY Zenon, TaskAssumption DEF Tasks, Cleaners
<1>4. ASSUME NEW j, StartClean(EventTask, j)
      PROVE  pc'[EventTask] = "waitlock" /\ job'[EventTask] = j
  BY Zenon, <1>4, <1>t DEF StartClean, Goto, TypeReady, TypeOK
<1>5. /\ \A u \in Inserters : pc'[u] = pc[u]
      /\ UNCHANGED <<req, handle, rules, faults>>
  <2>1. ASSUME NEW j, StartClean(EventTask, j)
        PROVE  /\ \A u \in Inserters : pc'[u] = pc[u]
               /\ UNCHANGED <<req, handle, rules, faults>>
    BY Zenon, <2>1, <1>t DEF StartClean, Goto, TypeReady, TypeOK, insertVars
  <2>2. CASE UNCHANGED vars BY Zenon, <2>2 DEF vars
  <2> QED BY Zenon, <2>1, <2>2 DEF EventReceived
<1>6. pc[EventTask] \notin {"waitlock", "delete", "reset"} BY <1>0
<1>7. ASSUME NEW c, Told(c) PROVE Told(c)'
  <2>1. lagged[EventTask] \/ Carries(q, c) BY Zenon, <1>6, <1>7 DEF Told
  <2>2. CASE lagged[EventTask] \/ Head(q) = Reset
    <3>1. StartClean(EventTask, FlushJob) BY Zenon, <2>2 DEF EventReceived
    <3> QED BY Zenon, <1>4, <3>1 DEF Told, Covers
  <2>3. CASE ~lagged[EventTask] /\ Head(q) # Reset
    <3>1. Carries(queue'[EventTask], c) \/ Ends(Head(q), c)
      BY Zenon, <1>0, <2>1, <2>3, Received
    <3>2. CASE Carries(queue'[EventTask], c) BY Zenon, <3>2 DEF Told
    <3>3. CASE Ends(Head(q), c)
      <4>1. Head(q).kind \in CleanupKinds /\ NameOf[Head(q).id] = c
        BY Zenon, <2>3, <3>3 DEF Ends
      <4>2. StartClean(EventTask, RemoveJob(c)) BY Zenon, <2>3, <4>1 DEF EventReceived
      <4> QED BY Zenon, <1>4, <4>2 DEF Told, Covers
    <3> QED BY Zenon, <3>1, <3>2, <3>3
  <2> QED BY Zenon, <2>2, <2>3
<1>8. \A c, ip : Standing(c, ip) => Standing(c, ip)' BY Zenon, <1>3, <1>7 DEF Standing
<1>9. UNCHANGED <<lpc, lip, lsnap>> BY Zenon, <1>0 DEF lookupVars
<1>10. LookInv' BY Zenon, <1>5, <1>8, <1>9 DEF LookInv, Asking
<1>11. ASSUME faults' = 0, NEW r \in rules'
       PROVE  (\E t \in Inserters : Unconfirmed(r, t)') \/ Accounted(r.container, r.src_ip)'
  <2>1. (\E t \in Inserters : Unconfirmed(r, t)) \/ Accounted(r.container, r.src_ip)
    BY Zenon, <1>5, <1>11 DEF RuleInv
  <2>2. \A t \in Inserters : Unconfirmed(r, t) => Unconfirmed(r, t)'
    BY Zenon, <1>5 DEF Unconfirmed
  <2>3. ~Cleaning(r.container) BY Zenon, <1>6 DEF Cleaning
  <2> QED BY Zenon, <1>8, <2>1, <2>2, <2>3 DEF Accounted
<1>12. RuleInv' BY Zenon, <1>11 DEF RuleInv
<1> QED BY Zenon, <1>1, <1>2, <1>10, <1>12

\* While the event task cleans up, every rule it is asked to remove goes before
\* it returns: it deletes them one by one and forgets them with the last, or
\* the reset removes all.
LEMMA CleanRules ==
  ASSUME LifeInv, CleanStep(EventTask), UNCHANGED <<idVars, unseen>>
  PROVE  RuleInv' /\ \A u \in Inserters : pc'[u] = pc[u] /\ pc[u] # "recheck"
<1> USE DEF LifeInv
<1> DEFINE e == EventTask
<1>t. e \in Cleaners /\ e \in Tasks /\ Inserters \subseteq Tasks /\ e \notin Inserters
  BY Zenon, TaskAssumption DEF Tasks, Cleaners
<1>y. pc \in [Tasks -> Labels] /\ DOMAIN job = Cleaners BY Zenon DEF TypeReady, TypeOK
<1>1. lock = NoTask \/ lock = e
  <2>1. pc[e] \in {"delete", "reset"} => lock = e
    BY Zenon, <1>t DEF LockHeld, Holding
  <2> QED
    BY Zenon, <2>1 DEF CleanStep, NothingToClean, BeginClean, DeleteOne, DeleteLast,
       DeleteMissing, DeleteFails, ResetOk, ResetFails
<1>2. \A u \in Inserters : pc[u] \notin Holding
  BY Zenon, <1>1, <1>t, TaskAssumption DEF LockHeld
<1>3. \A u \in Inserters : pc[u] # "recheck" BY Zenon, <1>2 DEF Holding
<1>4. \A r, u : u \in Inserters => ~Unconfirmed(r, u)
  BY Zenon, <1>2 DEF Unconfirmed, Holding
<1>5. ASSUME NEW l, Goto(e, l) PROVE pc'[e] = l /\ \A u \in Inserters : pc'[u] = pc[u]
  BY Zenon, <1>5, <1>t, <1>y DEF Goto
<1>r. ASSUME CleanReturn(e) PROVE \A u \in Inserters : pc'[u] = pc[u]
  BY Zenon, <1>r, <1>5 DEF CleanReturn, Release
<1>6. \A u \in Inserters : pc'[u] = pc[u]
  BY Zenon, <1>5, <1>r, <1>t
     DEF CleanStep, NothingToClean, BeginClean, DeleteOne, DeleteLast, DeleteMissing,
         DeleteFails, ResetOk, ResetFails, TaskReturn
<1>7. /\ \A c, ip : Vouched(c, ip)' <=> Vouched(c, ip)
      /\ UNCHANGED <<queue, lagged>>
  BY Zenon, VouchedSame DEF idVars, castVars
<1> DEFINE Asked(c) == Covers(job[e], c)
<1>8. SUFFICES ASSUME faults' = 0, NEW r \in rules'
               PROVE  Accounted(r.container, r.src_ip)'
  BY Zenon, <1>3, <1>6 DEF RuleInv
<1>f. ~Fault BY <1>8 DEF Fault, TypeReady, TypeOK
<1>9. ASSUME r \in rules, faults = 0
      PROVE  \/ Accounted(r.container, r.src_ip)'
             \/ Asked(r.container) /\ pc[e] \in {"waitlock", "delete", "reset"}
  <2>1. Accounted(r.container, r.src_ip) BY Zenon, <1>4, <1>9 DEF RuleInv
  <2>2. Standing(r.container, r.src_ip) =>
          Standing(r.container, r.src_ip)' \/ (Asked(r.container) /\ pc[e] = "waitlock")
    BY Zenon, <1>7 DEF Standing, Told
  <2> QED BY Zenon, <2>1, <2>2 DEF Accounted, Cleaning
<1>10. ASSUME r \in rules, faults = 0, job' = job,
              pc'[e] \in {"delete", "reset"}
       PROVE  Accounted(r.container, r.src_ip)'
  BY Zenon, <1>9, <1>10 DEF Accounted, Cleaning
<1>k. /\ FlushJob.kind = "flush"
      /\ \A c : RemoveJob(c).kind = "remove" /\ RemoveJob(c).container = c
  BY DEF FlushJob, RemoveJob
<1>11. CASE NothingToClean(e)
  <2>1. rules' = rules /\ faults' = faults /\ Doomed(job[e]) = {}
    BY Zenon, <1>11 DEF NothingToClean
  <2>2. ~Asked(r.container)
    <3>1. job[e] = FlushJob => r \in Doomed(job[e])
      BY Zenon, <1>8, <1>k, <2>1 DEF Doomed
    <3>2. job[e] = RemoveJob(r.container) => r \in Doomed(job[e])
      BY Zenon, <1>8, <1>k, <2>1 DEF Doomed
    <3> QED BY Zenon, <2>1, <3>1, <3>2 DEF Covers
  <2> QED BY Zenon, <1>8, <1>9, <2>1, <2>2
<1>12. CASE BeginClean(e)
  <2>1. rules' = rules /\ faults' = faults /\ job' = job /\ Goto(e, "delete")
    BY Zenon, <1>12 DEF BeginClean
  <2> QED BY Zenon, <1>5, <1>8, <1>10, <2>1
<1>13. ASSUME NEW d, DeleteOne(e, d) PROVE Accounted(r.container, r.src_ip)'
  <2>1. /\ rules' = TrackedAfter(job[e], d, FALSE) /\ faults' = faults /\ job' = job
        /\ pc' = pc /\ pc[e] = "delete"
    BY Zenon, <1>13 DEF DeleteOne
  <2>2. rules' \subseteq rules BY <2>1 DEF TrackedAfter, Untrack
  <2> QED BY Zenon, <1>8, <1>10, <2>1, <2>2
<1>14. ASSUME NEW d, DeleteLast(e, d) PROVE Accounted(r.container, r.src_ip)'
  <2>1. rules' = TrackedAfter(job[e], d, TRUE) /\ faults' = faults
    BY Zenon, <1>14 DEF DeleteLast
  <2>2. rules' \subseteq rules BY <2>1 DEF TrackedAfter, Untrack
  <2>3. job[e] # FlushJob BY <1>8, <1>k, <2>1 DEF TrackedAfter
  <2>4. job[e] # RemoveJob(r.container) BY <1>8, <1>k, <2>1 DEF TrackedAfter, RulesOf
  <2>5. r \in rules /\ faults = 0 BY Zenon, <1>8, <2>1, <2>2
  <2> QED BY Zenon, <1>9, <2>3, <2>4, <2>5 DEF Covers
<1>15. ASSUME NEW d, DeleteMissing(e, d) PROVE Accounted(r.container, r.src_ip)'
  <2>1. rules' = rules /\ faults' = faults /\ job' = job /\ Goto(e, "reset")
    BY Zenon, <1>15 DEF DeleteMissing, cleanVars
  <2> QED BY Zenon, <1>5, <1>8, <1>10, <2>1
<1>16. ASSUME NEW d PROVE ~DeleteFails(e, d) BY Zenon, <1>f DEF DeleteFails
<1>17. CASE ResetOk(e) \/ ResetFails(e) BY Zenon, <1>8, <1>17, <1>f DEF ResetOk, ResetFails
<1> QED BY Zenon, <1>11, <1>12, <1>13, <1>14, <1>15, <1>16, <1>17 DEF CleanStep

\* The event task's cleanup keeps the invariant.
LEMMA CleanSteps ==
  ASSUME LifeInv, EventCleans
  PROVE  World' /\ CacheInv' /\ LookInv' /\ RuleInv'
<1> USE DEF LifeInv
<1>0. CleanStep(EventTask) /\ UNCHANGED <<idVars, unseen>> BY Zenon DEF EventCleans
<1>1. /\ UNCHANGED <<dockerVars, watchVars, cacheVars, lookupVars, unseen>>
      /\ UNCHANGED <<apiVars, castVars>>
  BY Zenon, <1>0 DEF idVars
<1>2. World'
  <2>1. UNCHANGED <<status, addr, live, stream>> /\ UNCHANGED <<wpc, wid>>
        /\ UNCHANGED <<lpc, lip, lsnap>> /\ UNCHANGED <<apc, aid, aip>>
        /\ UNCHANGED <<queue, lagged>>
    BY Zenon, <1>1 DEF dockerVars, watchVars, lookupVars, apiVars, castVars
  <2> QED BY Zenon, <2>1 DEF World, DockerKnown, WatchKnown, TasksKnown, CastKnown
<1>3. CacheInv' BY Zenon, <1>1, CacheQuiet
<1>4. RuleInv' /\ \A u \in Inserters : pc'[u] = pc[u] /\ pc[u] # "recheck"
  BY Zenon, <1>0, CleanRules
<1>5. UNCHANGED <<lpc, lip>> BY Zenon, <1>1 DEF lookupVars
<1>6. UNCHANGED req
  <2>1. ASSUME CleanReturn(EventTask) PROVE UNCHANGED req
    BY Zenon, <2>1 DEF CleanReturn, insertVars
  <2>2. EventTask \notin Inserters BY Zenon, TaskAssumption DEF Cleaners
  <2> QED
    BY Zenon, <1>0, <2>1, <2>2
       DEF CleanStep, NothingToClean, BeginClean, DeleteOne, DeleteLast, DeleteMissing,
           DeleteFails, ResetOk, ResetFails, TaskReturn, insertVars
<1>7. LookInv' BY Zenon, <1>4, <1>5, <1>6 DEF LookInv, Asking
<1> QED BY Zenon, <1>2, <1>3, <1>4, <1>7

-----------------------------------------------------------------------------
(* The theorems.                                                           *)

\* Before anything happened nothing is to be accounted for.
LEMMA LifeStarts == LifeInit => LifeInv
<1> SUFFICES ASSUME LifeInit PROVE LifeInv OBVIOUS
<1> USE DEF LifeInit
<1>1. TypeReady /\ LockHeld
  BY TaskAssumption
  DEF Init, TypeReady, TypeOK, TasksReady, Ttls, Tasks, Labels, LockHeld, Holding
<1>2. World
  <2>1. <<>> \in Seq(Event) /\ <<>> \in Seq(Event \cup {Reset}) OBVIOUS
  <2>2. DockerKnown BY <2>1 DEF IdInit, DockerKnown
  <2>3. WatchKnown BY DEF IdInit, WatchKnown, Listening
  <2>4. TasksKnown BY DEF IdInit, TasksKnown
  <2>5. CastKnown BY <2>1 DEF IdInit, CastKnown
  <2> QED BY Zenon, <2>2, <2>3, <2>4, <2>5 DEF World
<1>3. CacheInv BY DEF IdInit, CacheInv
<1>4. LookInv
  <2>1. \A t \in Inserters : lpc[t] = "idle" BY Zenon, CompositionAssumption DEF IdInit
  <2> QED BY <2>1 DEF LookInv
<1>5. RuleInv BY Zenon DEF Init, RuleInv
<1> QED BY Zenon, <1>1, <1>2, <1>3, <1>4, <1>5 DEF LifeInv

\* Every step of the composition keeps the invariant.
LEMMA LifeStep == LifeInv /\ [LifeNext]_lifeVars => LifeInv'
<1> SUFFICES ASSUME LifeInv, [LifeNext]_lifeVars PROVE LifeInv' OBVIOUS
<1>0. TypeReady /\ LockHeld /\ World /\ CacheInv BY Zenon DEF LifeInv
<1>1. [Next]_vars BY Zenon, <1>0, StepOfRules
<1>2. TypeReady' /\ LockHeld' BY Zenon, <1>0, <1>1, TypeReadyStep, LockStep
<1>3. CASE Lifecycle
  <2>1. World' BY Zenon, <1>0, <1>3, LifeMoves
  <2>2. CacheInv' BY Zenon, <1>0, <1>3, CacheLife
  <2>3. LookInv' /\ RuleInv' BY Zenon, <1>3, LifeRules
  <2> QED BY Zenon, <1>2, <2>1, <2>2, <2>3 DEF LifeInv
<1>4. ASSUME NEW t \in Inserters,
             \/ AskHit(t) \/ AskMiss(t) \/ AskList(t) \/ AskDone(t) \/ AskFails(t)
             \/ Insert(t)
      PROVE  LifeInv'
  BY Zenon, <1>2, <1>4, AskSteps DEF LifeInv
<1>5. CASE EventReceived BY Zenon, <1>2, <1>5, ReceiveStep DEF LifeInv
<1>6. CASE EventCleans BY Zenon, <1>2, <1>6, CleanSteps DEF LifeInv
<1>7. CASE UNCHANGED lifeVars
  <2>0. UNCHANGED <<idVars, vars, unseen>> BY Zenon, <1>7 DEF lifeVars
  <2>1. /\ UNCHANGED <<dockerVars, watchVars, cacheVars, lookupVars, unseen>>
        /\ UNCHANGED <<apiVars, castVars>> /\ UNCHANGED vars
    BY Zenon, <2>0 DEF idVars
  <2>2. UNCHANGED <<status, addr, live, stream>> /\ UNCHANGED <<wpc, wid>>
        /\ UNCHANGED <<lpc, lip, lsnap>> /\ UNCHANGED <<apc, aid, aip>>
        /\ UNCHANGED <<queue, lagged>>
        /\ UNCHANGED <<pc, req, handle, job, rules, faults>>
    BY Zenon, <2>1 DEF dockerVars, watchVars, lookupVars, apiVars, castVars, vars
  <2>3. World' BY Zenon, <1>0, <2>2 DEF World, DockerKnown, WatchKnown, TasksKnown, CastKnown
  <2>4. CacheInv' BY Zenon, <1>0, <2>1, CacheQuiet
  <2>5. \A c, ip : Standing(c, ip)' <=> Standing(c, ip)
    BY Zenon, <2>1, <2>2, VouchedSame DEF Standing, Told
  <2>6. LookInv' BY Zenon, <2>2, <2>5 DEF LifeInv, LookInv, Asking
  <2>7. RuleInv'
    BY Zenon, <2>2, <2>5 DEF LifeInv, RuleInv, Accounted, Cleaning, Unconfirmed
  <2> QED BY Zenon, <1>2, <2>3, <2>4, <2>6, <2>7 DEF LifeInv
<1> QED BY Zenon, <1>3, <1>4, <1>5, <1>6, <1>7 DEF LifeNext

\* In every state of the composition every rule is accounted for, unless a
\* command failed.
THEOREM LifeInvariant == LifeSpec => []LifeInv
BY LifeStarts, LifeStep, PTL DEF LifeSpec

\* Composed with the identity cache and its watcher, the rule manager does
\* nothing that it does not do alone: what is proved of DynamicRules, where
\* every answer to a lookup is possible, holds of the composition.
THEOREM ManagerComposed == LifeSpec => Spec
<1>1. LifeInit => Init BY Zenon DEF LifeInit
<1>2. LifeInv /\ [LifeNext]_lifeVars => [Next]_vars BY Zenon, StepOfRules DEF LifeInv
<1> QED BY <1>1, <1>2, LifeInvariant, PTL DEF LifeSpec, Spec

\* Composed with the rule manager, the identity cache and its watcher do nothing
\* that they do not do alone.
THEOREM IdentityComposed == LifeSpec => IdSpec
<1>1. LifeInit => IdInit BY Zenon DEF LifeInit
<1>2. LifeInv /\ [LifeNext]_lifeVars => [IdNext]_idVars
  BY Zenon, StepOfIdentity DEF LifeInv
<1> QED BY <1>1, <1>2, LifeInvariant, PTL DEF LifeSpec, IdSpec

\* Once the watcher, the event task and the insertions have nothing left to do,
\* every rule is of a container that has its address, or of one whose end
\* nobody could see: the two ownership lookups of insert_rule and the event
\* task's cleanup leave no other rule behind.
THEOREM DeadRulesExplained == LifeSpec => []DeadRuleExplained
<1>1. LifeInv => DeadRuleExplained
  <2> SUFFICES ASSUME LifeInv, faults = 0, Settled, NEW r \in rules
               PROVE  HasOwner(r) \/ \E id \in unseen : NameOf[id] = r.container
    BY Zenon DEF DeadRuleExplained
  <2>1. \A t \in Inserters \cup {EventTask} :
          pc[t] \notin {"waitlock", "delete", "recheck", "rollback", "reset"}
    BY DEF Settled
  <2>2. Accounted(r.container, r.src_ip)
    BY Zenon, <2>1 DEF LifeInv, RuleInv, Unconfirmed
  <2>3. ~Cleaning(r.container) /\ ~Told(r.container)
    BY Zenon, <2>1, NothingCarried DEF Cleaning, Told, Settled
  <2>4. ~Breaking BY DEF Settled, CaughtUp, Breaking
  <2>5. ~Carries(stream, r.container) BY Zenon, NothingCarried DEF Settled, CaughtUp
  <2> QED
    BY Zenon, <2>2, <2>3, <2>4, <2>5
       DEF Accounted, Standing, Vouched, Owned, Overlooked, HasOwner
<1> QED BY <1>1, LifeInvariant, PTL

=============================================================================
