-------------------------- MODULE ContainerIdentity --------------------------
(***************************************************************************)
(* The identity cache of outcalld and the Docker event watcher that keeps  *)
(* it synchronised (outcalld/src/docker/identity.rs, events.rs), with the  *)
(* broadcast channel on which the watcher tells the cleanup tasks what it  *)
(* saw.                                                                    *)
(*                                                                         *)
(* Docker is the environment: containers start, exit, are removed and are  *)
(* signalled at any time, and an open event stream delivers their events   *)
(* in order until it breaks.  A Docker call reads or changes Docker's      *)
(* state in one step; its caller uses the answer in a later one.           *)
(***************************************************************************)
EXTENDS Integers, Sequences, FiniteSets

CONSTANTS
  Ids,           \* container ids, never reused
  NameOf,        \* the name of each container: a removed one frees its name
  Ips,
  NoIp,
  NoId,
  Lookups,       \* tasks that call lookup_name_by_ip
  Apis,          \* API tasks that create, stop or remove a container
  Consumers,     \* tasks subscribed to the broadcast channel
  Capacity,      \* of the broadcast channel
  Signals,       \* of {"kill", "oom", "pause", "unpause"}: events of a container
                 \* that goes on running
  MaxChanges,    \* bound: what Docker and its users do
  MaxBreaks      \* bound: event streams that break, refreshes that fail

VARIABLES
  status,        \* Docker: each container's life
  addr,          \* Docker: the address of each running container
  live,          \* Docker: the watcher's event stream is open
  stream,        \* events sent to the watcher and not yet handled
  wpc,           \* where the watcher is
  wid,           \* the container the watcher is recording
  wip,           \* the address it found for it
  wsnap,         \* the list the watcher has from Docker
  entries,       \* IdentityState.entries
  healthy,       \* IdentityState.healthy
  fresh,         \* lookups that would find IdentityState.generation unchanged
  lpc,           \* where each lookup is
  lip,           \* the address it asks for
  lsnap,         \* its snapshot
  apc,           \* where each API task is
  aid,           \* the container it works on
  aip,           \* the address its inspection returned
  queue,         \* messages each consumer has not received
  lagged,        \* consumers that will be told that they lost messages
  missed,        \* history: containers that exited when nobody could see it
  changes,
  breaks

dockerVars == <<status, addr, live, stream, missed, changes>>
watchVars  == <<wpc, wid, wip, wsnap>>
cacheVars  == <<entries, healthy, fresh>>
lookupVars == <<lpc, lip, lsnap>>
apiVars    == <<apc, aid, aip>>
castVars   == <<queue, lagged>>

idVars == <<dockerVars, watchVars, cacheVars, lookupVars, apiVars, castVars,
            breaks>>

Owner   == Ids \cup {NoId}
Entries == [Ips -> Owner]
NoEntry == [ip \in Ips |-> NoId]

Kinds == {"start", "die", "destroy"} \cup Signals

\* The events after which the watcher and its consumers forget a container.
CleanupKinds == {"die", "oom", "kill", "destroy"}

Event == [kind : Kinds, id : Ids]
Reset == [kind |-> "reset", id |-> NoId]

ASSUME IdentityAssumption ==
  /\ NoId \notin Ids /\ NoIp \notin Ips
  /\ DOMAIN NameOf = Ids
  /\ Signals \subseteq {"kill", "oom", "pause", "unpause"}
  /\ Capacity \in Nat \ {0}
  /\ {MaxChanges, MaxBreaks} \subseteq Nat

-----------------------------------------------------------------------------
(* Docker.                                                                 *)

\* What a list of the managed containers returns: load_managed_identities.
Listed ==
  [ip \in Ips |-> IF \E id \in Ids : addr[id] = ip
                  THEN CHOOSE id \in Ids : addr[id] = ip
                  ELSE NoId]

Change(events) ==
  /\ changes < MaxChanges
  /\ changes' = changes + 1
  /\ stream' = IF live THEN stream \o events ELSE stream

\* A snapshot of the watcher is on its way to the cache, or installed, and the
\* event stream that would correct it is not open yet.
InGap == wpc \in {"install", "subscribe"}

DockerRun(id, ip) ==
  /\ status[id] \in {"absent", "stopped"}
  /\ \A other \in Ids \ {id} :
       NameOf[other] = NameOf[id] => status[other] \in {"absent", "removed"}
  /\ \A other \in Ids : addr[other] # ip
  /\ status' = [status EXCEPT ![id] = "running"]
  /\ addr' = [addr EXCEPT ![id] = ip]
  /\ Change(<<[kind |-> "start", id |-> id]>>)
  /\ UNCHANGED <<live, missed>>

\* The container exits, and is removed with it when `to' says so.
DockerExit(id, to) ==
  /\ status[id] = "running"
  /\ status' = [status EXCEPT ![id] = to]
  /\ addr' = [addr EXCEPT ![id] = NoIp]
  /\ Change(IF to = "removed"
            THEN <<[kind |-> "die", id |-> id], [kind |-> "destroy", id |-> id]>>
            ELSE <<[kind |-> "die", id |-> id]>>)
  /\ missed' = IF InGap THEN missed \cup {id} ELSE missed
  /\ UNCHANGED live

DockerRemove(id) ==
  /\ status[id] = "stopped"
  /\ status' = [status EXCEPT ![id] = "removed"]
  /\ Change(<<[kind |-> "destroy", id |-> id]>>)
  /\ UNCHANGED <<addr, live, missed>>

DockerSignal(id, kind) ==
  /\ status[id] = "running"
  /\ Change(<<[kind |-> kind, id |-> id]>>)
  /\ UNCHANGED <<status, addr, live, missed>>

DockerBreaksStream ==
  /\ live
  /\ breaks < MaxBreaks
  /\ breaks' = breaks + 1
  /\ live' = FALSE
  /\ UNCHANGED <<status, addr, stream, missed, changes>>

-----------------------------------------------------------------------------
(* The cache: every operation that changes it bumps the generation.        *)

\* remove_container: the entries of the container, and of its name.
Forget(e, id) ==
  [ip \in Ips |-> IF e[ip] # NoId /\ NameOf[e[ip]] = NameOf[id]
                  THEN NoId
                  ELSE e[ip]]

\* record_container, once the inspection answered.
Recorded(e, id, ip) ==
  [a \in Ips |-> IF a = ip THEN id ELSE Forget(e, id)[a]]

Replace(e) ==
  /\ entries' = e
  /\ fresh' = {}

\* tx.send: a full channel overwrites the oldest message of each slow receiver.
Send(m) ==
  /\ queue' = [c \in Consumers |->
                 IF Len(queue[c]) < Capacity THEN Append(queue[c], m)
                 ELSE Append(Tail(queue[c]), m)]
  /\ lagged' = [c \in Consumers |-> lagged[c] \/ Len(queue[c]) >= Capacity]

-----------------------------------------------------------------------------
(* The watcher: events.rs, watch.                                          *)

WatchGoto(label) == wpc' = label

\* The top of the loop disables the cache.
WatchInvalidate ==
  /\ wpc = "start"
  /\ WatchGoto("list")
  /\ Replace(NoEntry)
  /\ healthy' = FALSE
  /\ UNCHANGED <<dockerVars, wid, wip, wsnap, lookupVars, apiVars, castVars, breaks>>

WatchList ==
  /\ wpc = "list"
  /\ WatchGoto("install")
  /\ wsnap' = Listed
  /\ UNCHANGED <<dockerVars, wid, wip, cacheVars, lookupVars, apiVars, castVars,
                 breaks>>

\* The refresh fails: the consumers are reset and the loop starts again.
WatchListFails ==
  /\ wpc = "list"
  /\ breaks < MaxBreaks
  /\ breaks' = breaks + 1
  /\ WatchGoto("start")
  /\ Send(Reset)
  /\ UNCHANGED <<dockerVars, wid, wip, wsnap, cacheVars, lookupVars, apiVars>>

\* Mutant: the refreshed cache is not marked usable again.
WatchInstallUnhealthy ==
  /\ wpc = "install"
  /\ WatchGoto("subscribe")
  /\ Replace(wsnap)
  /\ wsnap' = NoEntry
  /\ UNCHANGED <<dockerVars, wid, wip, healthy, lookupVars, apiVars, castVars,
                 breaks>>

\* The list replaces the cache, which is usable from now on.
WatchInstall ==
  /\ wpc = "install"
  /\ WatchGoto("subscribe")
  /\ Replace(wsnap)
  /\ healthy' = TRUE
  /\ wsnap' = NoEntry
  /\ UNCHANGED <<dockerVars, wid, wip, lookupVars, apiVars, castVars, breaks>>

\* The stream is opened without a starting point: it begins with the events of
\* this moment.
WatchSubscribe ==
  /\ wpc = "subscribe"
  /\ WatchGoto("listen")
  /\ live' = TRUE
  /\ stream' = <<>>
  /\ UNCHANGED <<status, addr, missed, changes, wid, wip, wsnap, cacheVars,
                 lookupVars, apiVars, castVars, breaks>>

\* A start: the container is inspected next.
WatchStart ==
  /\ wpc = "listen" /\ stream # <<>>
  /\ Head(stream).kind = "start"
  /\ stream' = Tail(stream)
  /\ wid' = Head(stream).id
  /\ WatchGoto("inspect")
  /\ UNCHANGED <<status, addr, live, missed, changes, wip, wsnap, cacheVars,
                 lookupVars, apiVars, castVars, breaks>>

WatchInspect ==
  /\ wpc = "inspect"
  /\ status[wid] # "removed"
  /\ wip' = addr[wid]
  /\ WatchGoto("record")
  /\ UNCHANGED <<dockerVars, wid, wsnap, cacheVars, lookupVars, apiVars, castVars,
                 breaks>>

\* The inspection fails: the container is gone, or Docker does not answer.
WatchInspectFails ==
  /\ wpc = "inspect"
  /\ \/ status[wid] = "removed" /\ UNCHANGED breaks
     \/ breaks < MaxBreaks /\ breaks' = breaks + 1
  /\ WatchGoto("broken")
  /\ live' = FALSE
  /\ stream' = <<>>
  /\ wid' = NoId
  /\ UNCHANGED <<status, addr, missed, changes, wip, wsnap, cacheVars, lookupVars,
                 apiVars, castVars>>

WatchRecord ==
  /\ wpc = "record"
  /\ WatchGoto("listen")
  /\ Replace(Recorded(entries, wid, wip))
  /\ wid' = NoId
  /\ wip' = NoIp
  /\ UNCHANGED <<dockerVars, wsnap, healthy, lookupVars, apiVars, castVars, breaks>>

\* Any other event is rebroadcast, after its container is forgotten if it is
\* the end of it.
WatchLifecycle ==
  /\ wpc = "listen" /\ stream # <<>>
  /\ Head(stream).kind # "start"
  /\ stream' = Tail(stream)
  /\ IF Head(stream).kind \in CleanupKinds
     THEN Replace(Forget(entries, Head(stream).id))
     ELSE UNCHANGED <<entries, fresh>>
  /\ Send(Head(stream))
  /\ UNCHANGED <<status, addr, live, missed, changes, watchVars, healthy,
                 lookupVars, apiVars, breaks>>

\* The stream ends, or an event of it cannot be read.
WatchStreamEnds ==
  /\ wpc = "listen"
  /\ ~live /\ stream = <<>>
  /\ WatchGoto("broken")
  /\ UNCHANGED <<dockerVars, wid, wip, wsnap, cacheVars, lookupVars, apiVars,
                 castVars, breaks>>

WatchBroken ==
  /\ wpc = "broken"
  /\ WatchGoto("start")
  /\ Replace(NoEntry)
  /\ healthy' = FALSE
  /\ Send(Reset)
  /\ UNCHANGED <<dockerVars, wid, wip, wsnap, lookupVars, apiVars, breaks>>

Watch ==
  \/ WatchInvalidate \/ WatchList \/ WatchListFails \/ WatchInstall
  \/ WatchSubscribe \/ WatchStart \/ WatchInspect \/ WatchInspectFails
  \/ WatchRecord \/ WatchLifecycle \/ WatchStreamEnds \/ WatchBroken

-----------------------------------------------------------------------------
(* A lookup: identity.rs, lookup_name_by_ip.  A hit answers at once.       *)

LookupHit(ip) == healthy /\ entries[ip] # NoId

\* The address is not cached: the lookup remembers the generation.
LookupMiss(t, ip) ==
  /\ lpc[t] = "idle"
  /\ ~LookupHit(ip)
  /\ lpc' = [lpc EXCEPT ![t] = "list"]
  /\ lip' = [lip EXCEPT ![t] = ip]
  /\ fresh' = IF healthy THEN fresh \cup {t} ELSE fresh
  /\ UNCHANGED <<dockerVars, watchVars, entries, healthy, lsnap, apiVars,
                 castVars, breaks>>

LookupList(t) ==
  /\ lpc[t] = "list"
  /\ lpc' = [lpc EXCEPT ![t] = "install"]
  /\ lsnap' = [lsnap EXCEPT ![t] = Listed]
  /\ UNCHANGED <<dockerVars, watchVars, cacheVars, lip, apiVars, castVars,
                 breaks>>

LookupReturn(t) ==
  /\ lpc' = [lpc EXCEPT ![t] = "idle"]
  /\ lip' = [lip EXCEPT ![t] = NoIp]
  /\ lsnap' = [lsnap EXCEPT ![t] = NoEntry]

LookupFails(t) ==
  /\ lpc[t] = "list"
  /\ LookupReturn(t)
  /\ fresh' = fresh \ {t}
  /\ UNCHANGED <<dockerVars, watchVars, entries, healthy, apiVars, castVars,
                 breaks>>

\* Mutant: the snapshot is installed whatever happened since it was taken.
LookupDoneUnguarded(t) ==
  /\ lpc[t] = "install"
  /\ IF healthy THEN Replace(lsnap[t]) ELSE UNCHANGED <<entries, fresh>>
  /\ LookupReturn(t)
  /\ UNCHANGED <<dockerVars, watchVars, healthy, apiVars, castVars, breaks>>

\* The snapshot is installed unless the generation moved, and answers.
LookupDone(t) ==
  /\ lpc[t] = "install"
  /\ IF t \in fresh THEN Replace(lsnap[t]) ELSE UNCHANGED <<entries, fresh>>
  /\ LookupReturn(t)
  /\ UNCHANGED <<dockerVars, watchVars, healthy, apiVars, castVars, breaks>>

-----------------------------------------------------------------------------
(* The container API: create.rs and containers.rs.                         *)

ApiGoto(t, label, id) ==
  /\ apc' = [apc EXCEPT ![t] = label]
  /\ aid' = [aid EXCEPT ![t] = id]

ApiReturn(t) ==
  /\ ApiGoto(t, "idle", NoId)
  /\ aip' = [aip EXCEPT ![t] = NoIp]

\* create_container: Docker starts it; its registration follows.
ApiCreate(t, id, ip) ==
  /\ apc[t] = "idle"
  /\ status[id] = "absent"
  /\ DockerRun(id, ip)
  /\ ApiGoto(t, "inspect", id)
  /\ UNCHANGED <<watchVars, cacheVars, lookupVars, aip, castVars, breaks>>

ApiInspect(t) ==
  /\ apc[t] = "inspect"
  /\ status[aid[t]] # "removed"
  /\ aip' = [aip EXCEPT ![t] = addr[aid[t]]]
  /\ ApiGoto(t, "record", aid[t])
  /\ UNCHANGED <<dockerVars, watchVars, cacheVars, lookupVars, castVars, breaks>>

\* The inspection fails and the container is removed; or that fails too.
ApiRollback(t) ==
  /\ apc[t] = "inspect"
  /\ \/ DockerExit(aid[t], "removed")
     \/ DockerRemove(aid[t])
     \/ UNCHANGED dockerVars
  /\ ApiReturn(t)
  /\ UNCHANGED <<watchVars, cacheVars, lookupVars, castVars, breaks>>

\* An event in the stream, or in the watcher's hands, that will drop whatever
\* the cache says of this container's name.
CorrectionPending(id) ==
  \/ \E i \in 1 .. Len(stream) :
       /\ stream[i].kind \in CleanupKinds \cup {"start"}
       /\ NameOf[stream[i].id] = NameOf[id]
  \/ wid # NoId /\ NameOf[wid] = NameOf[id]

ApiRecord(t) ==
  /\ apc[t] = "record"
  /\ Replace(Recorded(entries, aid[t], aip[t]))
  /\ missed' = IF addr[aid[t]] # aip[t] /\ ~CorrectionPending(aid[t])
               THEN missed \cup {aid[t]} ELSE missed
  /\ ApiReturn(t)
  /\ UNCHANGED <<status, addr, live, stream, changes, watchVars, healthy,
                 lookupVars, castVars, breaks>>

\* stop_container and remove_container: Docker acts, or has nothing to do, and
\* the cache forgets the container next.
ApiEnd(t, id) ==
  /\ apc[t] = "idle"
  /\ \/ \E to \in {"stopped", "removed"} : DockerExit(id, to)
     \/ DockerRemove(id)
     \/ status[id] = "stopped" /\ UNCHANGED dockerVars
  /\ ApiGoto(t, "forget", id)
  /\ UNCHANGED <<watchVars, cacheVars, lookupVars, aip, castVars, breaks>>

ApiForget(t) ==
  /\ apc[t] = "forget"
  /\ Replace(Forget(entries, aid[t]))
  /\ ApiReturn(t)
  /\ UNCHANGED <<dockerVars, watchVars, healthy, lookupVars, castVars, breaks>>

-----------------------------------------------------------------------------
IdInit ==
  /\ status = [id \in Ids |-> "absent"]
  /\ addr = [id \in Ids |-> NoIp]
  /\ live = FALSE
  /\ stream = <<>>
  /\ wpc = "start"
  /\ wid = NoId
  /\ wip = NoIp
  /\ wsnap = NoEntry
  /\ entries = NoEntry
  /\ healthy = FALSE
  /\ fresh = {}
  /\ lpc = [t \in Lookups |-> "idle"]
  /\ lip = [t \in Lookups |-> NoIp]
  /\ lsnap = [t \in Lookups |-> NoEntry]
  /\ apc = [t \in Apis |-> "idle"]
  /\ aid = [t \in Apis |-> NoId]
  /\ aip = [t \in Apis |-> NoIp]
  /\ queue = [c \in Consumers |-> <<>>]
  /\ lagged = [c \in Consumers |-> FALSE]
  /\ missed = {}
  /\ changes = 0
  /\ breaks = 0

\* What other users of Docker do, and Docker itself.
Docker ==
  /\ \/ \E id \in Ids :
          \/ \E ip \in Ips : DockerRun(id, ip)
          \/ DockerExit(id, "stopped")
          \/ DockerRemove(id)
          \/ \E kind \in Signals : DockerSignal(id, kind)
  /\ UNCHANGED <<watchVars, cacheVars, lookupVars, apiVars, castVars, breaks>>

StreamBreak ==
  /\ DockerBreaksStream
  /\ UNCHANGED <<watchVars, cacheVars, lookupVars, apiVars, castVars>>

\* A consumer takes its next message, or learns that it lost some.
Receive(c) ==
  /\ IF lagged[c]
     THEN /\ lagged' = [lagged EXCEPT ![c] = FALSE]
          /\ UNCHANGED queue
     ELSE /\ queue[c] # <<>>
          /\ queue' = [queue EXCEPT ![c] = Tail(@)]
          /\ UNCHANGED lagged
  /\ UNCHANGED <<dockerVars, watchVars, cacheVars, lookupVars, apiVars, breaks>>

Api(t) ==
  \/ \E id \in Ids : (\E ip \in Ips : ApiCreate(t, id, ip)) \/ ApiEnd(t, id)
  \/ ApiInspect(t) \/ ApiRollback(t) \/ ApiRecord(t) \/ ApiForget(t)

IdNext ==
  \/ Docker \/ StreamBreak \/ Watch
  \/ \E t \in Lookups : \/ \E ip \in Ips : LookupMiss(t, ip)
                        \/ LookupList(t) \/ LookupFails(t) \/ LookupDone(t)
  \/ \E t \in Apis : Api(t)
  \/ \E c \in Consumers : Receive(c)

IdSpec == IdInit /\ [][IdNext]_idVars

\* The watcher is a task of its own and every Docker call it makes has a
\* timeout, so it keeps taking steps.
IdFairSpec == IdSpec /\ WF_idVars(Watch)

-----------------------------------------------------------------------------
(* Properties.                                                             *)

\* Docker's, the watcher's and the cache's state are well formed.
IdTypeOK ==
  /\ status \in [Ids -> {"absent", "running", "stopped", "removed"}]
  /\ addr \in [Ids -> Ips \cup {NoIp}]
  /\ live \in BOOLEAN
  /\ stream \in Seq(Event)
  /\ wpc \in {"start", "list", "install", "subscribe", "listen", "inspect",
              "record", "broken"}
  /\ wid \in Owner
  /\ wip \in Ips \cup {NoIp}
  /\ wsnap \in Entries
  /\ entries \in Entries
  /\ healthy \in BOOLEAN
  /\ fresh \subseteq Lookups
  /\ lpc \in [Lookups -> {"idle", "list", "install"}]
  /\ lip \in [Lookups -> Ips \cup {NoIp}]
  /\ lsnap \in [Lookups -> Entries]
  /\ apc \in [Apis -> {"idle", "inspect", "record", "forget"}]
  /\ aid \in [Apis -> Owner]
  /\ aip \in [Apis -> Ips \cup {NoIp}]
  /\ queue \in [Consumers -> Seq(Event \cup {Reset})]
  /\ lagged \in [Consumers -> BOOLEAN]
  /\ missed \subseteq Ids
  /\ changes \in 0 .. MaxChanges
  /\ breaks \in 0 .. MaxBreaks

\* The watcher has handled every event of a stream that is still open.
CaughtUp == wpc = "listen" /\ live /\ stream = <<>>

Stale(ip) == entries[ip] # NoId /\ addr[entries[ip]] # ip

\* Once the watcher has caught up, a cached identity is wrong only for a
\* container that exited when nobody could see it: between the watcher's list
\* and the opening of its stream, or between the inspection of a created
\* container and its registration.  No other order of events, lookups with
\* old snapshots and API calls leaves a wrong entry: the generation guard
\* holds.
StaleEntryExplained ==
  CaughtUp => \A ip \in Ips : Stale(ip) => entries[ip] \in missed

\* When Docker stops changing, the cache becomes and stays usable, and agrees
\* with Docker up to the containers nobody could see exit, however often the
\* stream broke and refreshes failed before.
CacheConverges ==
  <>[](healthy /\ \A ip \in Ips : Stale(ip) => entries[ip] \in missed)
=============================================================================
