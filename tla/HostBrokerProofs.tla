------------------------- MODULE HostBrokerProofs -------------------------
(***************************************************************************)
(* Proofs about the runs and their host broker, for any number of runs,    *)
(* brokers, connections and resources, any limit and any bounds, and       *)
(* without the restriction Apart that keeps the model checker's instance   *)
(* small.                                                                  *)
(***************************************************************************)
EXTENDS RecipeRun, FiniteSetTheorems, TLAPS

-----------------------------------------------------------------------------
(* The broker's request server.                                            *)

Places == {"idle", "thread", "read", "config", "place", "judge", "act", "run", "join",
           "discard"}

Flag == BOOLEAN

ConnRecords ==
  [at : Places, on : Brokers \cup {NoBroker}, kind : {"exec", "read", "other"},
   id : Resources \cup {NoId}, child : {"none", "alive", "exited"},
   holder : {"none", "group", "outside"}, wasDeclared : Flag, wasGranted : Flag]

\* What the progress of a request implies: a tool is a child of a thread that runs
\* it, and what the registry and the daemon have said since the request arrived is
\* on record.
Sound(x) ==
  /\ x.at # "idle" => x.on \in Brokers
  /\ x.child = "alive" => x.at = "run"
  /\ x.at \notin Entering => /\ x.id \in declared => x.wasDeclared
                             /\ x.id \in granted => x.wasGranted
  /\ x.at \in {"place", "judge", "act", "run"} => x.wasDeclared
  /\ x.at \in {"act", "run"} => x.wasGranted

ServerInv ==
  /\ conn \in [Conns -> ConnRecords]
  /\ \A c \in Conns : Sound(conn[c])
  /\ active \in [Brokers -> Int]
  /\ PermitsExact

-----------------------------------------------------------------------------
\* Changing one field of a connection's record keeps the others.
LEMMA AtField ==
  ASSUME NEW x \in ConnRecords, NEW a \in Places
  PROVE  /\ [x EXCEPT !.at = a] \in ConnRecords
         /\ [x EXCEPT !.at = a].at = a
         /\ [x EXCEPT !.at = a].on = x.on
         /\ [x EXCEPT !.at = a].id = x.id
         /\ [x EXCEPT !.at = a].child = x.child
         /\ [x EXCEPT !.at = a].wasDeclared = x.wasDeclared
         /\ [x EXCEPT !.at = a].wasGranted = x.wasGranted
BY SMTT(20) DEF ConnRecords

\* An update of child leaves the record typed and the other fields as they were.
LEMMA ChildField ==
  ASSUME NEW x \in ConnRecords, NEW k \in {"none", "alive", "exited"}
  PROVE  /\ [x EXCEPT !.child = k] \in ConnRecords
         /\ [x EXCEPT !.child = k].child = k
         /\ [x EXCEPT !.child = k].at = x.at
         /\ [x EXCEPT !.child = k].on = x.on
         /\ [x EXCEPT !.child = k].id = x.id
         /\ [x EXCEPT !.child = k].wasDeclared = x.wasDeclared
         /\ [x EXCEPT !.child = k].wasGranted = x.wasGranted
BY SMTT(20) DEF ConnRecords

\* So does an update of holder.
LEMMA HolderField ==
  ASSUME NEW x \in ConnRecords, NEW h \in {"none", "group", "outside"}
  PROVE  /\ [x EXCEPT !.holder = h] \in ConnRecords
         /\ [x EXCEPT !.holder = h].child = x.child
         /\ [x EXCEPT !.holder = h].at = x.at
         /\ [x EXCEPT !.holder = h].on = x.on
         /\ [x EXCEPT !.holder = h].id = x.id
         /\ [x EXCEPT !.holder = h].wasDeclared = x.wasDeclared
         /\ [x EXCEPT !.holder = h].wasGranted = x.wasGranted
BY SMTT(20) DEF ConnRecords

\* A connection nobody serves.
LEMMA Blank ==
  /\ NoConn \in ConnRecords
  /\ NoConn.at = "idle" /\ NoConn.child = "none"
BY DEF NoConn, ConnRecords, Places, Flag

-----------------------------------------------------------------------------
\* A step that replaces the record of one connection by one that is as sound and
\* holds the permit it held.
LEMMA OneStays ==
  ASSUME ServerInv, NEW c \in Conns, NEW x \in ConnRecords,
         conn' = [conn EXCEPT ![c] = x],
         UNCHANGED <<active, declared, granted>>,
         Sound(x), x.on = conn[c].on, x.at = "idle" <=> conn[c].at = "idle"
  PROVE  ServerInv'
<1>1. conn' \in [Conns -> ConnRecords]
  BY DEF ServerInv
<1>2. \A e \in Conns : conn'[e] = IF e = c THEN x ELSE conn[e]
  BY DEF ServerInv
<1>3. Sound(x)'
  BY DEF Sound, Entering
<1>4. \A e \in Conns : Sound(conn[e])'
  BY <1>2, Zenon DEF ServerInv, Sound
<1>5. \A b \in Brokers : Workers(b)' = Workers(b)
  BY <1>2 DEF Workers
<1>6. PermitsExact'
  BY <1>5 DEF ServerInv, PermitsExact
<1> QED
  BY <1>1, <1>4, <1>6 DEF ServerInv

\* A connection is accepted: a permit is taken.
LEMMA AcceptKeeps ==
  ASSUME ServerInv, NEW c \in Conns, NEW b \in Brokers, Accept(c, b)
  PROVE  ServerInv'
<1> DEFINE x == [NoConn EXCEPT !.at = "thread", !.on = b]
<1>2. x \in ConnRecords /\ x.at = "thread" /\ x.on = b /\ x.child = "none"
  <2> DEFINE y == [NoConn EXCEPT !.at = "thread"]
  <2>1. y \in ConnRecords /\ y.at = "thread" /\ y.child = "none"
    BY Blank, AtField, ZenonT(30) DEF Places
  <2>2. x = [y EXCEPT !.on = b]
    BY Zenon
  <2> HIDE DEF x, y
  <2> QED
    BY <2>1, <2>2 DEF ConnRecords
<1> HIDE DEF x
<1>3. /\ conn[c].at = "idle" /\ UNCHANGED <<declared, granted>>
      /\ active' = [active EXCEPT ![b] = @ + 1]
      /\ conn' = [conn EXCEPT ![c] = x]
  BY DEF Accept, x
<1>4. conn' \in [Conns -> ConnRecords]
  BY <1>2, <1>3 DEF ServerInv
<1>5. \A e \in Conns : conn'[e] = IF e = c THEN x ELSE conn[e]
  BY <1>3 DEF ServerInv
<1>6. \A e \in Conns : Sound(conn[e])'
  BY <1>2, <1>3, <1>5, Zenon DEF ServerInv, Sound, Entering
<1>7. /\ c \notin Workers(b) /\ Workers(b)' = Workers(b) \cup {c}
      /\ \A e \in Brokers : e # b => Workers(e)' = Workers(e)
  BY <1>2, <1>3, <1>5 DEF Workers
<1>8. IsFiniteSet(Workers(b))
  BY BrokersAreNamed, FS_Subset DEF Workers
<1>9. Cardinality(Workers(b)') = Cardinality(Workers(b)) + 1
  BY <1>7, <1>8, FS_AddElement, Zenon
<1>10. active' \in [Brokers -> Int] /\ active'[b] = active[b] + 1
       /\ \A e \in Brokers : e # b => active'[e] = active[e]
  BY <1>3 DEF ServerInv
<1>11. PermitsExact'
  BY <1>7, <1>9, <1>10, Zenon DEF ServerInv, PermitsExact
<1> QED
  BY <1>4, <1>6, <1>10, <1>11 DEF ServerInv

\* A request is answered: its permit is given back.
LEMMA ReplyKeeps ==
  ASSUME ServerInv, NEW c \in Conns, conn[c].at \notin {"idle", "run"}, Reply(c)
  PROVE  ServerInv'
<1> DEFINE x == [NoConn EXCEPT !.child = conn[c].child]
<1>2. /\ conn[c] \in ConnRecords /\ conn[c].child \in {"none", "exited"}
      /\ conn[c].on \in Brokers
  <2>1. conn[c] \in ConnRecords /\ Sound(conn[c])
    BY DEF ServerInv
  <2>2. conn[c].child \in {"none", "alive", "exited"}
    BY <2>1 DEF ConnRecords
  <2> QED
    BY <2>1, <2>2 DEF Sound
<1>3. x \in ConnRecords /\ x.at = "idle" /\ x.child # "alive"
  <2>1. conn[c].child \in {"none", "alive", "exited"} /\ conn[c].child # "alive"
    BY <1>2
  <2> QED
    BY <2>1, Blank, ChildField, Zenon
<1> HIDE DEF x
<1>4. /\ UNCHANGED <<declared, granted>>
      /\ active' = [active EXCEPT ![conn[c].on] = @ - 1]
      /\ conn' = [conn EXCEPT ![c] = x]
  BY DEF Reply, x
<1>5. conn' \in [Conns -> ConnRecords]
  BY <1>3, <1>4 DEF ServerInv
<1>6. \A e \in Conns : conn'[e] = IF e = c THEN x ELSE conn[e]
  BY <1>4 DEF ServerInv
<1>7. \A e \in Conns : Sound(conn[e])'
  BY <1>3, <1>4, <1>6, Zenon DEF ServerInv, Sound, Entering
<1>8. /\ c \in Workers(conn[c].on)
      /\ \A e \in Brokers : Workers(e)' = IF e = conn[c].on THEN Workers(e) \ {c} ELSE Workers(e)
  BY <1>2, <1>3, <1>6 DEF Workers
<1>9. IsFiniteSet(Workers(conn[c].on))
  BY BrokersAreNamed, FS_Subset DEF Workers
<1>10. Cardinality(Workers(conn[c].on) \ {c}) = Cardinality(Workers(conn[c].on)) - 1
  BY <1>8, <1>9, FS_RemoveElement, Zenon
<1>11. PermitsExact' /\ active' \in [Brokers -> Int]
  BY <1>2, <1>4, <1>8, <1>10 DEF ServerInv, PermitsExact
<1> QED
  BY <1>5, <1>7, <1>11 DEF ServerInv

\* A broker that ends takes its connections with it.
LEMMA AbandonKeeps ==
  ASSUME ServerInv, NEW b, Abandon(b), UNCHANGED <<declared, granted>>
  PROVE  ServerInv'
<1>1. /\ NoConn \in ConnRecords /\ NoConn.at = "idle" /\ NoConn.child = "none"
  BY Blank
<1>2. \A e \in Conns : conn'[e] = IF e \in Workers(b) THEN NoConn ELSE conn[e]
  BY DEF Abandon
<1>3. conn' \in [Conns -> ConnRecords]
  BY <1>1 DEF Abandon, ServerInv
<1>4. \A e \in Conns : Sound(conn[e])'
  BY <1>1, <1>2, Zenon DEF ServerInv, Sound, Entering
<1>5. \A e \in Brokers : Workers(e)' = IF e = b THEN {} ELSE Workers(e)
  BY <1>1, <1>2 DEF Workers
<1>6. Cardinality({}) = 0
  BY FS_EmptySet
<1>7. /\ active' \in [Brokers -> Int]
      /\ \A e \in Brokers : active'[e] = IF e = b THEN 0 ELSE active[e]
  <2>1. active \in [Brokers -> Int] /\ active' = [active EXCEPT ![b] = 0]
    BY Zenon DEF ServerInv, Abandon
  <2>2. active' \in [Brokers -> Int]
    <3>1. CASE b \in Brokers
      BY <2>1, <3>1
    <3>2. CASE b \notin Brokers
      <4>1. active' = active
        BY <2>1, <3>2, Zenon
      <4> QED
        BY <2>1, <4>1, Zenon
    <3> QED
      BY <3>1, <3>2
  <2>3. \A e \in Brokers : active'[e] = IF e = b THEN 0 ELSE active[e]
    BY <2>1, Zenon
  <2> QED
    BY <2>2, <2>3
<1>8. PermitsExact'
  BY <1>5, <1>6, <1>7, Zenon DEF ServerInv, PermitsExact
<1> QED
  BY <1>3, <1>4, <1>7, <1>8 DEF ServerInv

-----------------------------------------------------------------------------
\* The request moves on to the next part of its handler.
LEMMA AdvanceKeeps ==
  ASSUME ServerInv, NEW c \in Conns, NEW a \in Places, Advance(c, a), a # "idle",
         conn[c].at # "idle", conn[c].child # "alive",
         \/ a = "read"
         \/ /\ conn[c].at \notin Entering
            /\ a \in {"place", "judge", "act", "run"} => conn[c].wasDeclared
            /\ a \in {"act", "run"} => conn[c].wasGranted
  PROVE  ServerInv'
<1> DEFINE x == [conn[c] EXCEPT !.at = a]
<1>1. conn[c] \in ConnRecords /\ Sound(conn[c])
  BY DEF ServerInv
<1>2. /\ x \in ConnRecords /\ x.at = a /\ x.on = conn[c].on /\ x.id = conn[c].id
      /\ x.child = conn[c].child /\ x.wasDeclared = conn[c].wasDeclared
      /\ x.wasGranted = conn[c].wasGranted
  BY <1>1, AtField
<1>3. conn' = [conn EXCEPT ![c] = x] /\ UNCHANGED <<active, declared, granted>>
  BY DEF Advance
<1> HIDE DEF x
<1>4. Sound(x)
  BY <1>1, <1>2 DEF Sound, Entering
<1> QED
  BY <1>2, <1>3, <1>4, OneStays, Zenon

\* The handler of one request: one step per part of it.
LEMMA HandlerKeeps ==
  ASSUME ServerInv, NEW c \in Conns, HandlerStep(c)
  PROVE  ServerInv'
<1>0. conn[c] \in ConnRecords /\ Sound(conn[c])
  BY DEF ServerInv
<1>1. CASE ThreadStarts(c)
  BY <1>0, <1>1, AdvanceKeeps DEF ThreadStarts, Sound, Places
<1>2. CASE \/ ThreadFails(c) \/ Unreadable(c) \/ RegistryUnusable(c) \/ RequestInvalid(c)
           \/ EvaluationFails(c) \/ ReadFile(c) \/ ToolUnusable(c)
  BY <1>2, ReplyKeeps DEF ThreadFails, Unreadable, RegistryUnusable, RequestInvalid,
     EvaluationFails, ReadFile, ToolUnusable
<1>3. ASSUME NEW a \in Asks, Route(c, a) PROVE ServerInv'
  <2>1. CASE Reply(c)
    BY <1>3, <2>1, ReplyKeeps DEF Route
  <2>2. CASE ~Reply(c)
    <3>1. a.kind \in {"exec", "read", "other"} /\ a.id \in Resources
      BY AsksAreRequests
    <3> DEFINE d == a.id \in declared
               g == a.id \in granted
               q1 == [conn[c] EXCEPT !.at = "config"]
               q2 == [q1 EXCEPT !.kind = a.kind]
               q3 == [q2 EXCEPT !.id = a.id]
               q4 == [q3 EXCEPT !.wasDeclared = d]
               x == [q4 EXCEPT !.wasGranted = g]
    <3>0. d \in Flag /\ g \in Flag
      BY DEF Flag
    <3>2. /\ conn' = [conn EXCEPT ![c] = x] /\ conn[c].at = "read"
          /\ UNCHANGED <<active, declared, granted>>
      BY <1>3, <2>2, Zenon DEF Route
    <3>3. /\ x \in ConnRecords /\ x.at = "config" /\ x.on = conn[c].on /\ x.id = a.id
          /\ x.child = conn[c].child /\ x.wasDeclared = d /\ x.wasGranted = g
      <4>1. /\ q1 \in ConnRecords /\ q1.at = "config" /\ q1.on = conn[c].on
            /\ q1.child = conn[c].child
        BY <1>0, AtField, Zenon DEF Places
      <4> HIDE DEF q1, d, g
      <4>2. /\ q2 \in ConnRecords /\ q2.at = "config" /\ q2.on = conn[c].on
            /\ q2.child = conn[c].child
        BY <3>1, <4>1 DEF ConnRecords
      <4> HIDE DEF q2
      <4>3. /\ q3 \in ConnRecords /\ q3.at = "config" /\ q3.on = conn[c].on
            /\ q3.child = conn[c].child /\ q3.id = a.id
        BY <3>1, <4>2 DEF ConnRecords
      <4> HIDE DEF q3
      <4>4. /\ q4 \in ConnRecords /\ q4.at = "config" /\ q4.on = conn[c].on
            /\ q4.child = conn[c].child /\ q4.id = a.id /\ q4.wasDeclared = d
        BY <3>0, <4>3 DEF ConnRecords
      <4> HIDE DEF q4
      <4> QED
        BY <3>0, <4>4 DEF ConnRecords
    <3> HIDE DEF x
    <3>4. Sound(x)
      BY <1>0, <3>2, <3>3, Zenon DEF Sound, Entering
    <3> QED
      BY <3>2, <3>3, <3>4, OneStays, Zenon
  <2> QED
    BY <2>1, <2>2
<1>4. CASE FindResource(c)
  BY <1>0, <1>4, AdvanceKeeps, ReplyKeeps DEF FindResource, Sound, Entering, Places
<1>5. CASE ResolveCwd(c) \/ ResolveFile(c)
  BY <1>0, <1>5, AdvanceKeeps, ReplyKeeps DEF ResolveCwd, ResolveFile, Sound, Entering, Places
<1>6. CASE EvaluateRule(c)
  BY <1>0, <1>6, AdvanceKeeps, ReplyKeeps DEF EvaluateRule, Sound, Entering, Places
<1>7. CASE SpawnTool(c)
  <2> DEFINE y == [conn[c] EXCEPT !.at = "run"]
             x == [y EXCEPT !.child = "alive"]
  <2>1. /\ conn' = [conn EXCEPT ![c] = x] /\ conn[c].at = "act"
        /\ UNCHANGED <<active, declared, granted>>
    BY <1>7, Zenon DEF SpawnTool
  <2>2. /\ y \in ConnRecords /\ y.at = "run" /\ y.on = conn[c].on /\ y.id = conn[c].id
        /\ y.wasDeclared = conn[c].wasDeclared /\ y.wasGranted = conn[c].wasGranted
    BY <1>0, AtField, Zenon DEF Places
  <2> HIDE DEF y
  <2>3. /\ x \in ConnRecords /\ x.at = "run" /\ x.on = conn[c].on /\ x.id = conn[c].id
        /\ x.wasDeclared = conn[c].wasDeclared /\ x.wasGranted = conn[c].wasGranted
    BY <2>2, ChildField, Zenon
  <2> HIDE DEF x
  <2>4. Sound(x)
    BY <1>0, <2>1, <2>3, Zenon DEF Sound, Entering
  <2> QED
    BY <2>1, <2>3, <2>4, OneStays, Zenon
<1> QED
  BY <1>1, <1>2, <1>3, <1>4, <1>5, <1>6, <1>7, Zenon DEF HandlerStep

\* A tool, its pipes and the thread that waits for it.
LEMMA ToolKeeps ==
  ASSUME ServerInv, NEW c \in Conns,
         \/ ToolStep(c) \/ ToolExits(c) \/ HolderEnds(c)
         \/ \E w \in {"group", "outside"} : ToolForks(c, w)
  PROVE  ServerInv'
<1>0. conn[c] \in ConnRecords /\ Sound(conn[c])
  BY DEF ServerInv
<1>1. CASE Reaped(c)
  <2> DEFINE y == [conn[c] EXCEPT !.at = "join"]
             x == [y EXCEPT !.child = "none"]
  <2>1. /\ conn' = [conn EXCEPT ![c] = x] /\ conn[c].at = "run"
        /\ UNCHANGED <<active, declared, granted>>
    BY <1>1, Zenon DEF Reaped
  <2>2. /\ y \in ConnRecords /\ y.at = "join" /\ y.on = conn[c].on /\ y.id = conn[c].id
        /\ y.wasDeclared = conn[c].wasDeclared /\ y.wasGranted = conn[c].wasGranted
    BY <1>0, AtField, Zenon DEF Places
  <2> HIDE DEF y
  <2>3. /\ x \in ConnRecords /\ x.at = "join" /\ x.on = conn[c].on /\ x.id = conn[c].id
        /\ x.child = "none"
        /\ x.wasDeclared = conn[c].wasDeclared /\ x.wasGranted = conn[c].wasGranted
    BY <2>2, ChildField, Zenon
  <2> HIDE DEF x
  <2>4. Sound(x)
    BY <1>0, <2>1, <2>3, Zenon DEF Sound, Entering
  <2> QED
    BY <2>1, <2>3, <2>4, OneStays, Zenon
<1>2. CASE ToolTimeout(c)
  <2> DEFINE z == [conn[c] EXCEPT !.child = "none"]
             y == [z EXCEPT !.holder = GroupKilled(@)]
             x == [y EXCEPT !.at = "discard"]
  <2>1. /\ conn' = [conn EXCEPT ![c] = x] /\ conn[c].at = "run"
        /\ UNCHANGED <<active, declared, granted>>
    BY <1>2, Zenon DEF ToolTimeout, TerminateAndReap
  <2>2. /\ z \in ConnRecords /\ z.child = "none" /\ z.on = conn[c].on /\ z.id = conn[c].id
        /\ z.wasDeclared = conn[c].wasDeclared /\ z.wasGranted = conn[c].wasGranted
    BY <1>0, ChildField, Zenon
  <2> HIDE DEF z
  <2>3. GroupKilled(z.holder) \in {"none", "group", "outside"}
    BY <2>2 DEF GroupKilled, ConnRecords
  <2>4. /\ y \in ConnRecords /\ y.child = "none" /\ y.on = conn[c].on /\ y.id = conn[c].id
        /\ y.wasDeclared = conn[c].wasDeclared /\ y.wasGranted = conn[c].wasGranted
    BY <2>2, <2>3, HolderField, Zenon
  <2> HIDE DEF y
  <2>5. /\ x \in ConnRecords /\ x.at = "discard" /\ x.child = "none" /\ x.on = conn[c].on
        /\ x.id = conn[c].id
        /\ x.wasDeclared = conn[c].wasDeclared /\ x.wasGranted = conn[c].wasGranted
    BY <2>4, AtField, ZenonT(40) DEF Places
  <2> HIDE DEF x
  <2>6. Sound(x)
    BY <1>0, <2>1, <2>5, Zenon DEF Sound, Entering
  <2> QED
    BY <2>1, <2>5, <2>6, OneStays, Zenon
<1>3. CASE JoinReaders(c) \/ JoinKilled(c)
  BY <1>3, ReplyKeeps DEF JoinReaders, JoinKilled
<1>4. CASE ToolExits(c)
  <2> DEFINE x == [conn[c] EXCEPT !.child = "exited"]
  <2>1. conn' = [conn EXCEPT ![c] = x] /\ UNCHANGED <<active, declared, granted>>
    BY <1>4, Zenon DEF ToolExits
  <2>2. /\ x \in ConnRecords /\ x.child = "exited" /\ x.at = conn[c].at /\ x.on = conn[c].on
        /\ x.id = conn[c].id /\ x.wasDeclared = conn[c].wasDeclared
        /\ x.wasGranted = conn[c].wasGranted
    BY <1>0, ChildField, Zenon
  <2> HIDE DEF x
  <2>3. Sound(x)
    BY <1>0, <2>2, Zenon DEF Sound, Entering
  <2> QED
    BY <2>1, <2>2, <2>3, OneStays, Zenon
<1>5. ASSUME NEW h \in {"none", "group", "outside"}, conn' = [conn EXCEPT ![c].holder = h],
             UNCHANGED <<active, declared, granted>>
      PROVE  ServerInv'
  <2> DEFINE x == [conn[c] EXCEPT !.holder = h]
  <2>1. conn' = [conn EXCEPT ![c] = x]
    BY <1>5, Zenon
  <2>2. /\ x \in ConnRecords /\ x.child = conn[c].child /\ x.at = conn[c].at
        /\ x.on = conn[c].on /\ x.id = conn[c].id /\ x.wasDeclared = conn[c].wasDeclared
        /\ x.wasGranted = conn[c].wasGranted
    BY <1>0, HolderField, Zenon
  <2> HIDE DEF x
  <2>3. Sound(x)
    BY <1>0, <2>2, Zenon DEF Sound, Entering
  <2> QED
    BY <1>5, <2>1, <2>2, <2>3, OneStays, Zenon
<1>6. CASE HolderEnds(c) \/ \E w \in {"group", "outside"} : ToolForks(c, w)
  BY <1>5, <1>6 DEF HolderEnds, ToolForks
<1> QED
  BY <1>1, <1>2, <1>3, <1>4, <1>6, Zenon DEF ToolStep

\* The registry or the daemon's rules change: every request under way remembers
\* what it has been allowed since it arrived.
LEMMA EditKeeps ==
  ASSUME ServerInv, NEW ids, EditRegistry(ids) \/ ChangeGrants(ids)
  PROVE  ServerInv'
<1>1. ASSUME NEW x \in ConnRecords, NEW d \in Flag
      PROVE  /\ [x EXCEPT !.wasDeclared = d] \in ConnRecords
             /\ [x EXCEPT !.wasDeclared = d].wasDeclared = d
             /\ [x EXCEPT !.wasDeclared = d].at = x.at
             /\ [x EXCEPT !.wasDeclared = d].on = x.on
             /\ [x EXCEPT !.wasDeclared = d].id = x.id
             /\ [x EXCEPT !.wasDeclared = d].child = x.child
             /\ [x EXCEPT !.wasDeclared = d].wasGranted = x.wasGranted
  BY <1>1 DEF ConnRecords
<1>2. ASSUME NEW x \in ConnRecords, NEW g \in Flag
      PROVE  /\ [x EXCEPT !.wasGranted = g] \in ConnRecords
             /\ [x EXCEPT !.wasGranted = g].wasGranted = g
             /\ [x EXCEPT !.wasGranted = g].at = x.at
             /\ [x EXCEPT !.wasGranted = g].on = x.on
             /\ [x EXCEPT !.wasGranted = g].id = x.id
             /\ [x EXCEPT !.wasGranted = g].child = x.child
             /\ [x EXCEPT !.wasGranted = g].wasDeclared = x.wasDeclared
  BY <1>2 DEF ConnRecords
<1>3. \A c \in Conns : conn[c] \in ConnRecords /\ Sound(conn[c])
  BY DEF ServerInv
<1>4. \A c \in Conns : conn[c].wasDeclared \in Flag /\ conn[c].wasGranted \in Flag
  BY <1>3 DEF ConnRecords
<1>5. ASSUME \A c \in Conns : /\ conn'[c] \in ConnRecords /\ conn'[c].at = conn[c].at
                              /\ conn'[c].on = conn[c].on /\ Sound(conn[c])',
             conn' = [c \in Conns |-> conn'[c]], UNCHANGED active
      PROVE  ServerInv'
  <2>1. \A b \in Brokers : Workers(b)' = Workers(b)
    BY <1>5 DEF Workers
  <2>2. PermitsExact' /\ active' \in [Brokers -> Int]
    BY <1>5, <2>1 DEF ServerInv, PermitsExact
  <2>3. conn' \in [Conns -> ConnRecords]
    BY <1>5
  <2> QED
    BY <1>5, <2>2, <2>3 DEF ServerInv
<1>6. CASE EditRegistry(ids)
  <2>1. \A c \in Conns : conn'[c] = [conn[c] EXCEPT !.wasDeclared = @ \/ conn[c].id \in ids]
    BY <1>6, Zenon DEF EditRegistry
  <2>2. \A c \in Conns :
          /\ conn'[c] \in ConnRecords
          /\ conn'[c].wasDeclared = (conn[c].wasDeclared \/ conn[c].id \in ids)
          /\ conn'[c].at = conn[c].at /\ conn'[c].on = conn[c].on /\ conn'[c].id = conn[c].id
          /\ conn'[c].child = conn[c].child /\ conn'[c].wasGranted = conn[c].wasGranted
    <3> TAKE c \in Conns
    <3> DEFINE v == conn[c].wasDeclared \/ conn[c].id \in ids
    <3>1. v \in Flag
      BY <1>4 DEF Flag
    <3>2. conn'[c] = [conn[c] EXCEPT !.wasDeclared = v]
      BY <2>1, Zenon
    <3> HIDE DEF v
    <3>3. /\ conn'[c] \in ConnRecords /\ conn'[c].wasDeclared = v
          /\ conn'[c].at = conn[c].at /\ conn'[c].on = conn[c].on /\ conn'[c].id = conn[c].id
          /\ conn'[c].child = conn[c].child /\ conn'[c].wasGranted = conn[c].wasGranted
      <4> DEFINE q == [conn[c] EXCEPT !.wasDeclared = v]
      <4>1. /\ q \in ConnRecords /\ q.wasDeclared = v
            /\ q.at = conn[c].at /\ q.on = conn[c].on /\ q.id = conn[c].id
            /\ q.child = conn[c].child /\ q.wasGranted = conn[c].wasGranted
        BY <1>1, <1>3, <3>1
      <4> HIDE DEF q
      <4> QED
        BY <3>2, <4>1 DEF q
    <3> QED
      BY <3>3 DEF v
  <2>3. declared' = ids /\ UNCHANGED <<active, granted>>
    BY <1>6 DEF EditRegistry
  <2>4. conn' = [c \in Conns |-> conn'[c]]
    BY <1>6 DEF EditRegistry
  <2>5. \A c \in Conns : Sound(conn[c])'
    <3> TAKE c \in Conns
    <3>1. Sound(conn[c])
      BY <1>3
    <3> QED
      BY <2>2, <2>3, <3>1, Zenon DEF Sound
  <2> QED
    BY <1>5, <2>2, <2>3, <2>4, <2>5
<1>7. CASE ChangeGrants(ids)
  <2>1. \A c \in Conns : conn'[c] = [conn[c] EXCEPT !.wasGranted = @ \/ conn[c].id \in ids]
    BY <1>7, Zenon DEF ChangeGrants
  <2>2. \A c \in Conns :
          /\ conn'[c] \in ConnRecords
          /\ conn'[c].wasGranted = (conn[c].wasGranted \/ conn[c].id \in ids)
          /\ conn'[c].at = conn[c].at /\ conn'[c].on = conn[c].on /\ conn'[c].id = conn[c].id
          /\ conn'[c].child = conn[c].child /\ conn'[c].wasDeclared = conn[c].wasDeclared
    <3> TAKE c \in Conns
    <3> DEFINE v == conn[c].wasGranted \/ conn[c].id \in ids
    <3>1. v \in Flag
      BY <1>4 DEF Flag
    <3>2. conn'[c] = [conn[c] EXCEPT !.wasGranted = v]
      BY <2>1, Zenon
    <3> HIDE DEF v
    <3>3. /\ conn'[c] \in ConnRecords /\ conn'[c].wasGranted = v
          /\ conn'[c].at = conn[c].at /\ conn'[c].on = conn[c].on /\ conn'[c].id = conn[c].id
          /\ conn'[c].child = conn[c].child /\ conn'[c].wasDeclared = conn[c].wasDeclared
      <4> DEFINE q == [conn[c] EXCEPT !.wasGranted = v]
      <4>1. /\ q \in ConnRecords /\ q.wasGranted = v
            /\ q.at = conn[c].at /\ q.on = conn[c].on /\ q.id = conn[c].id
            /\ q.child = conn[c].child /\ q.wasDeclared = conn[c].wasDeclared
        BY <1>2, <1>3, <3>1
      <4> HIDE DEF q
      <4> QED
        BY <3>2, <4>1 DEF q
    <3> QED
      BY <3>3 DEF v
  <2>3. granted' = ids /\ UNCHANGED <<active, declared>>
    BY <1>7 DEF ChangeGrants
  <2>4. conn' = [c \in Conns |-> conn'[c]]
    BY <1>7 DEF ChangeGrants
  <2>5. \A c \in Conns : Sound(conn[c])'
    <3> TAKE c \in Conns
    <3>1. Sound(conn[c])
      BY <1>3
    <3> QED
      BY <2>2, <2>3, <3>1, Zenon DEF Sound
  <2> QED
    BY <1>5, <2>2, <2>3, <2>4, <2>5
<1> QED
  BY <1>6, <1>7

-----------------------------------------------------------------------------
\* What a run's preparation does to the brokers' connections: nothing, or it kills
\* the broker it spawned.
LEMMA PrepareEffect ==
  ASSUME NEW r \in Runs, PrepareStep(r)
  PROVE  /\ UNCHANGED <<declared, granted>>
         /\ UNCHANGED <<active, conn>> \/ \E b : Abandon(b)
<1>1. CASE WaitExpired(r) \/ StepFails(r) \/ Undone(r)
  <2>1. /\ UNCHANGED <<declared, granted>>
        /\ GuardKills(r) \/ UNCHANGED <<active, conn>>
    BY <1>1, Zenon DEF WaitExpired, StepFails, Undone
  <2> QED
    BY <2>1, Zenon DEF GuardKills
<1>2. CASE ~(WaitExpired(r) \/ StepFails(r) \/ Undone(r))
  BY <1>2, Zenon DEF PrepareStep, NothingDeclared, ReadToken, WriteToken, RemoveRule,
     RulesReload, ProbeUnix, ProbePort, WriteRule, SpawnUnix, SpawnTcp, StartBroker, Answered,
     WritePort, WritePid, Undo, Fixed
<1> QED
  BY <1>1, <1>2

\* Every step of the system keeps the server's invariant.
LEMMA ServerStep == ServerInv /\ [Next]_vars => ServerInv'
<1> SUFFICES ASSUME ServerInv, [Next]_vars PROVE ServerInv'
  OBVIOUS
<1>1. ASSUME UNCHANGED <<active, conn, declared, granted>> PROVE ServerInv'
  <2>1. \A b \in Brokers : Workers(b)' = Workers(b)
    BY <1>1 DEF Workers
  <2>2. PermitsExact'
    BY <1>1, <2>1 DEF ServerInv, PermitsExact
  <2>3. conn' \in [Conns -> ConnRecords] /\ active' \in [Brokers -> Int]
    BY <1>1 DEF ServerInv
  <2>4. \A c \in Conns : Sound(conn[c])'
    BY <1>1, Zenon DEF ServerInv, Sound
  <2> QED
    BY <2>2, <2>3, <2>4 DEF ServerInv
<1>2. CASE UNCHANGED vars
  BY <1>1, <1>2 DEF vars, hostVars, serverVars
<1>3. CASE Commands \/ \E r \in Runs : AskForBroker(r) \/ (KillCommand(r) /\ UNCHANGED Rest)
  <2>1. UNCHANGED serverVars
    BY <1>3, Zenon DEF Commands, AskForBroker, Begin, Rest
  <2> QED
    BY <1>1, <2>1 DEF serverVars
<1>4. ASSUME NEW r \in Runs, PrepareStep(r) PROVE ServerInv'
  BY <1>1, <1>4, PrepareEffect, AbandonKeeps
<1>5. ASSUME NEW b \in Brokers, Bind(b) \/ BrokerDies(b) PROVE ServerInv'
  BY <1>1, <1>5, AbandonKeeps DEF Bind, BrokerDies, Fixed
<1>6. CASE Serve
  BY <1>6, AcceptKeeps, HandlerKeeps, ToolKeeps, Zenon DEF Serve
<1>7. CASE EditResources
  BY <1>7, EditKeeps, Zenon DEF EditResources
<1> QED
  BY <1>2, <1>3, <1>4, <1>5, <1>6, <1>7, Zenon DEF Next, Host

\* The request server, along every behaviour: permits, threads and tools agree
\* (dispatch_connection, handle_broker_connection).
THEOREM ServerInvariant == Spec => []ServerInv
<1>1. Init => ServerInv
  <2> SUFFICES ASSUME Init PROVE ServerInv
    OBVIOUS
  <2>1. conn = [c \in Conns |-> NoConn] /\ active = [b \in Brokers |-> 0]
    BY DEF Init, HostInit
  <2>2. conn \in [Conns -> ConnRecords] /\ active \in [Brokers -> Int]
    BY <2>1, Blank
  <2>3. \A c \in Conns : Sound(conn[c])
    BY <2>1, Blank DEF Sound, Entering
  <2>4. \A b \in Brokers : Workers(b) = {}
    BY <2>1, Blank DEF Workers
  <2>5. PermitsExact
    BY <2>1, <2>4, FS_EmptySet DEF PermitsExact
  <2> QED
    BY <2>2, <2>3, <2>5 DEF ServerInv
<1> QED
  BY <1>1, ServerStep, PTL DEF Spec

\* For any limit and any number of connections: a permit is held by a worker thread
\* and by nothing else, whatever fails, is refused or dies (ConnectionPermit).
THEOREM PermitsAreExact == Spec => []PermitsExact
<1>1. ServerInv => PermitsExact
  BY DEF ServerInv
<1> QED
  BY <1>1, ServerInvariant, PTL

\* No tool runs on a declaration or a verdict from before its request, however the
\* registry and the rules change meanwhile (handle_broker_connection).
THEOREM ToolsAreSanctioned == Spec => []ToolSanctioned
<1>1. ServerInv => ToolSanctioned
  BY DEF ServerInv, Sound, ToolSanctioned
<1> QED
  BY <1>1, ServerInvariant, PTL

\* No request is answered while its tool still runs (output_with_input_limits).
THEOREM AnsweredToolsAreGone == Spec => []AnsweredToolGone
<1>1. ServerInv => AnsweredToolGone
  BY DEF ServerInv, Sound, AnsweredToolGone
<1> QED
  BY <1>1, ServerInvariant, PTL

-----------------------------------------------------------------------------
(* The runs' preparation of a host broker: who answers for a broker, and   *)
(* which token it has.                                                     *)

Stages == {"idle", "load", "dropped", "none", "mint", "unix", "tcp", "removed", "probe",
           "rewrite", "again", "spawn", "wait", "port", "pid", "rule", "activate", "undo",
           "undone", "ready", "failed", "killed"}

PrepRecords == [at : Stages, token : Tokens \cup {NoToken}, broker : Brokers \cup {NoBroker},
                port : Ports \cup {NoPort}, tries : Int, alone : Flag]

BrokerRecords == [state : {"unused", "starting", "serving", "dead"},
                  token : Tokens \cup {NoToken}, port : Ports \cup {NoPort},
                  by : Runs \cup {NoToken}]

PrepTypes ==
  /\ os \in {"unix", "tcp"}
  /\ prep \in [Runs -> PrepRecords]
  /\ broker \in [Brokers -> BrokerRecords]
  /\ token_file \in Tokens \cup {NoToken}
  /\ port_file \in Ports \cup {NoPort}
  /\ socket \in Brokers \cup {NoBroker}

Lives(b) == broker[b].state \in {"starting", "serving"}

\* Until its first spawn a run answers for no broker, and when it spawns one the
\* one before is dead.
GuardInv ==
  /\ \A r \in Runs :
       prep[r].at \in {"idle", "load", "dropped", "none", "mint", "unix", "tcp", "removed",
                      "probe", "rewrite", "again", "failed", "killed"} =>
         prep[r].broker = NoBroker
  /\ \A r \in Runs : prep[r].at = "spawn" =>
       \A b \in Brokers : Lives(b) => broker[b].by # r
  /\ \A b \in Brokers : Lives(b) =>
       /\ broker[b].by \in Runs
       /\ \/ prep[broker[b].by].at = "killed"
          \/ prep[broker[b].by].at # "failed" /\ prep[broker[b].by].broker = b

\* r has its token for good.
Past(r) == prep[r].at \notin {"idle", "load", "mint", "dropped", "none", "failed", "killed"}

\* Without a race there is one token: the file's.
TokenInv ==
  ~raced =>
    /\ \A r \in Runs : Past(r) => token_file # NoToken /\ prep[r].token = token_file
    /\ \A b \in Brokers : broker[b].state # "unused" =>
         token_file # NoToken /\ broker[b].token = token_file
    /\ \A r \in Runs : prep[r].at = "mint" =>
         /\ token_file = NoToken /\ prep[r].token \in Runs
         /\ \A q \in Runs : prep[q].at = "mint" => q = r
    /\ socket # NoBroker => broker[socket].state # "unused"

PrepInv == PrepTypes /\ GuardInv /\ TokenInv

\* Only r's record changes, to this stage, token and broker.
Moved(r, a, t, b) ==
  /\ prep' \in [Runs -> PrepRecords]
  /\ \A q \in Runs : q # r => prep'[q] = prep[q]
  /\ prep'[r].at = a /\ prep'[r].token = t /\ prep'[r].broker = b

\* Only b's state changes, to s.
Turned(b, s) ==
  /\ broker' \in [Brokers -> BrokerRecords]
  /\ \A e \in Brokers : e # b => broker'[e] = broker[e]
  /\ broker'[b].state = s /\ broker'[b].token = broker[b].token
  /\ broker'[b].by = broker[b].by

\* Goto as a move: a run that is over forgets its token and its broker.
LEMMA GotoMoved ==
  ASSUME NEW r \in Runs, PrepTypes, NEW a \in Stages, Goto(r, a)
  PROVE  IF a \in {"none", "failed", "killed"} THEN Moved(r, a, NoToken, NoBroker)
         ELSE Moved(r, a, prep[r].token, prep[r].broker)
<1>0. prep \in [Runs -> PrepRecords] /\ prep[r] \in PrepRecords
  BY Zenon DEF PrepTypes
<1>1. NoPrep \in PrepRecords /\ NoPrep.token = NoToken /\ NoPrep.broker = NoBroker
  BY DEF NoPrep, PrepRecords, Stages, Flag
<1>2. ASSUME NEW x \in PrepRecords, prep' = [prep EXCEPT ![r] = [x EXCEPT !.at = a]]
      PROVE  Moved(r, a, x.token, x.broker)
  <2> DEFINE q == [x EXCEPT !.at = a]
  <2>1. q \in PrepRecords /\ q.at = a /\ q.token = x.token /\ q.broker = x.broker
    BY Zenon DEF PrepRecords
  <2> HIDE DEF q
  <2>2. prep' = [prep EXCEPT ![r] = q]
    BY <1>2, Zenon DEF q
  <2> QED
    BY Zenon, <1>0, <2>1, <2>2 DEF Moved
<1>3. CASE a \in {"none", "failed", "killed"}
  <2>1. prep' = [prep EXCEPT ![r] = [NoPrep EXCEPT !.at = a]]
    BY <1>3, Zenon DEF Goto
  <2> QED
    BY <1>1, <1>2, <1>3, <2>1, Zenon
<1>4. CASE a \notin {"none", "failed", "killed"}
  <2>1. prep' = [prep EXCEPT ![r] = [prep[r] EXCEPT !.at = a]]
    BY <1>4, Zenon DEF Goto
  <2> QED
    BY <1>0, <1>2, <1>4, <2>1, Zenon
<1> QED
  BY Zenon, <1>3, <1>4

\* An update of a broker's state leaves the rest of its record.
LEMMA StateTurned ==
  ASSUME NEW b \in Brokers, PrepTypes, NEW s \in {"unused", "starting", "serving", "dead"},
         broker' = [broker EXCEPT ![b].state = s]
  PROVE  Turned(b, s)
<1>1. broker \in [Brokers -> BrokerRecords] /\ broker[b] \in BrokerRecords
  BY Zenon DEF PrepTypes
<1> DEFINE q == [broker[b] EXCEPT !.state = s]
<1>2. q \in BrokerRecords /\ q.state = s /\ q.token = broker[b].token /\ q.by = broker[b].by
  BY Zenon, <1>1 DEF BrokerRecords
<1>3. broker' = [broker EXCEPT ![b] = q]
  BY Zenon
<1> HIDE DEF q
<1> QED
  BY Zenon, <1>1, <1>2, <1>3 DEF Turned

\* The brokers keep their tokens and their makers, and none is started or forgotten.
BrokersKeep ==
  /\ broker' \in [Brokers -> BrokerRecords]
  /\ \A e \in Brokers :
       /\ broker'[e].token = broker[e].token /\ broker'[e].by = broker[e].by
       /\ broker'[e].state = "unused" <=> broker[e].state = "unused"
       /\ Lives(e)' => Lives(e)

\* BrokerChildGuard leaves no broker of r alive; all the others stay as they are.
LEMMA GuardKillsEffect ==
  ASSUME NEW r \in Runs, PrepTypes, GuardKills(r)
  PROVE  BrokersKeep /\ \A e \in Brokers : Lives(e)' => e # prep[r].broker
<1> DEFINE b == prep[r].broker
<1>0. broker \in [Brokers -> BrokerRecords] /\ b \in Brokers \cup {NoBroker}
  BY Zenon DEF PrepTypes, PrepRecords
<1>1. CASE b = NoBroker \/ broker[b].state = "unused"
  <2>1. broker' = broker
    BY Zenon, <1>1 DEF GuardKills
  <2> QED
    BY Zenon, <1>0, <1>1, <2>1, BrokersAreNamed DEF BrokersKeep, Lives
<1>2. CASE ~(b = NoBroker \/ broker[b].state = "unused")
  <2>1. b \in Brokers /\ broker' = [broker EXCEPT ![b].state = "dead"]
    BY Zenon, <1>0, <1>2 DEF GuardKills
  <2>2. Turned(b, "dead")
    BY <2>1, StateTurned, Zenon
  <2>3. \A e \in Brokers : e # b => broker'[e] = broker[e]
    BY Zenon, <2>2 DEF Turned
  <2>4. /\ broker' \in [Brokers -> BrokerRecords] /\ broker'[b].state = "dead"
        /\ broker'[b].token = broker[b].token /\ broker'[b].by = broker[b].by
    BY Zenon, <2>2 DEF Turned
  <2>5. broker[b].state # "unused"
    BY Zenon, <1>2
  <2> HIDE DEF b
  <2>6. \A e \in Brokers : Lives(e)' => e # b /\ Lives(e)
    BY Zenon, <2>3, <2>4 DEF Lives
  <2>7. \A e \in Brokers :
          /\ broker'[e].token = broker[e].token /\ broker'[e].by = broker[e].by
          /\ broker'[e].state = "unused" <=> broker[e].state = "unused"
    BY Zenon, <2>3, <2>4, <2>5
  <2> QED
    BY Zenon, <2>4, <2>6, <2>7 DEF BrokersKeep, b
<1> QED
  BY Zenon, <1>1, <1>2

\* A run that goes on keeps the broker it answers for.
LEMMA MoveGuard ==
  ASSUME NEW r \in Runs, PrepTypes, GuardInv, NEW a, NEW t, NEW b, Moved(r, a, t, b),
         UNCHANGED broker, prep[r].at # "killed",
         a \in {"idle", "load", "dropped", "none", "mint", "unix", "tcp", "removed",
               "probe", "rewrite", "again", "failed", "killed"} => b = NoBroker,
         a = "spawn" => prep[r].broker = NoBroker,
         a = "killed" \/ (a # "failed" /\ b = prep[r].broker)
  PROVE  GuardInv'
<1>1. \A e \in Brokers : Lives(e)' <=> Lives(e)
  BY Zenon DEF Lives
<1> QED
  BY <1>1, BrokersAreNamed DEF GuardInv, Moved

\* A run whose broker has been killed may give up or try again.
LEMMA KilledGuard ==
  ASSUME NEW r \in Runs, PrepTypes, GuardInv, NEW a \in {"spawn", "failed"}, NEW t, NEW b,
         Moved(r, a, t, b), BrokersKeep, \A e \in Brokers : Lives(e)' => e # prep[r].broker,
         prep[r].at # "killed", a = "failed" => b = NoBroker
  PROVE  GuardInv'
<1>1. \A e \in Brokers : Lives(e)' => broker[e].by # r /\ broker'[e].by = broker[e].by /\ Lives(e)
  BY DEF GuardInv, BrokersKeep
<1> QED
  BY <1>1 DEF GuardInv, Moved

\* The brokers alone: what dies stays accounted for.
LEMMA BrokerGuard ==
  ASSUME PrepTypes, GuardInv, BrokersKeep, UNCHANGED prep
  PROVE  GuardInv'
<1>1. \A e \in Brokers : Lives(e)' => broker'[e].by = broker[e].by /\ Lives(e)
  BY Zenon DEF BrokersKeep
<1> QED
  BY Zenon, <1>1 DEF GuardInv

\* A run that goes on keeps its token.
LEMMA MoveToken ==
  ASSUME NEW r \in Runs, PrepTypes, TokenInv, NEW a, NEW t, NEW b, Moved(r, a, t, b),
         BrokersKeep, UNCHANGED <<token_file, socket, raced>>, a # "mint",
         a \notin {"idle", "load", "dropped", "none", "failed", "killed"} =>
           Past(r) /\ t = prep[r].token
  PROVE  TokenInv'
<1> SUFFICES ASSUME ~raced PROVE TokenInv'
  BY Zenon DEF TokenInv
<1>1. \A q \in Runs : Past(q)' => token_file # NoToken /\ prep'[q].token = token_file
  BY Zenon DEF TokenInv, Past, Moved
<1>2. \A e \in Brokers : broker'[e].state # "unused" =>
        token_file # NoToken /\ broker'[e].token = token_file
  BY Zenon DEF TokenInv, BrokersKeep
<1>3. \A q \in Runs : prep'[q].at = "mint" => q # r /\ prep'[q] = prep[q]
  BY Zenon DEF Moved
<1>4. socket # NoBroker => broker'[socket].state # "unused"
  BY Zenon DEF TokenInv, BrokersKeep, PrepTypes
<1> QED
  BY Zenon, <1>1, <1>2, <1>3, <1>4 DEF TokenInv

\* The brokers alone: the socket passes only to one that was started.
LEMMA BrokerToken ==
  ASSUME PrepTypes, TokenInv, BrokersKeep, UNCHANGED <<prep, token_file, raced>>,
         socket' = socket \/ (socket' \in Brokers /\ broker[socket'].state # "unused")
  PROVE  TokenInv'
<1> SUFFICES ASSUME ~raced PROVE TokenInv'
  BY Zenon DEF TokenInv
<1>1. \A e \in Brokers : broker'[e].state # "unused" =>
        token_file # NoToken /\ broker'[e].token = token_file
  BY Zenon DEF TokenInv, BrokersKeep
<1>2. socket' # NoBroker => broker'[socket'].state # "unused"
  BY Zenon DEF TokenInv, BrokersKeep, PrepTypes
<1> QED
  BY Zenon, <1>1, <1>2 DEF TokenInv, Past

\* A step of a run that starts and kills no broker and leaves the token alone.
LEMMA MoveKeeps ==
  ASSUME NEW r \in Runs, PrepInv, NEW a \in Stages, Goto(r, a),
         UNCHANGED <<os, broker, token_file, socket, raced>>,
         port_file' \in Ports \cup {NoPort},
         prep[r].at # "killed", a \notin {"failed", "mint", "idle", "load"},
         a \in {"dropped", "none", "unix", "tcp", "removed", "probe", "rewrite", "again", "spawn"} =>
           prep[r].broker = NoBroker,
         a \in {"dropped", "none", "killed"} \/ Past(r)
  PROVE  PrepInv'
<1> DEFINE t == IF a \in {"none", "killed"} THEN NoToken ELSE prep[r].token
           b == IF a \in {"none", "killed"} THEN NoBroker ELSE prep[r].broker
<1>0. PrepTypes /\ GuardInv /\ TokenInv
  BY Zenon DEF PrepInv
<1>1. Moved(r, a, t, b)
  BY Zenon, <1>0, GotoMoved
<1>2. BrokersKeep
  BY Zenon, <1>0 DEF PrepTypes, BrokersKeep, Lives
<1>3. PrepTypes'
  BY Zenon, <1>0, <1>1 DEF PrepTypes, Moved
<1>4. GuardInv'
  <2>1. a = "killed" \/ (a # "failed" /\ b = prep[r].broker)
    OBVIOUS
  <2>2. a \in {"idle", "load", "dropped", "none", "mint", "unix", "tcp", "removed",
              "probe", "rewrite", "again", "failed", "killed"} => b = NoBroker
    OBVIOUS
  <2> HIDE DEF t, b
  <2> QED
    BY Zenon, <1>0, <1>1, <2>1, <2>2, MoveGuard
<1>5. TokenInv'
  <2>1. a \notin {"idle", "load", "dropped", "none", "failed", "killed"} =>
          Past(r) /\ t = prep[r].token
    OBVIOUS
  <2> HIDE DEF t, b
  <2> QED
    BY Zenon, <1>0, <1>1, <1>2, <2>1, MoveToken
<1> QED
  BY Zenon, <1>3, <1>4, <1>5 DEF PrepInv

\* A step that fails, or waited in vain, with the guard dropped.
LEMMA GuardedKeeps ==
  ASSUME NEW r \in Runs, PrepInv, NEW a \in {"spawn", "failed"}, Goto(r, a), GuardKills(r),
         UNCHANGED <<os, token_file, socket, raced>>,
         port_file' \in Ports \cup {NoPort},
         prep[r].at # "killed", a = "failed" \/ Past(r)
  PROVE  PrepInv'
<1> DEFINE t == IF a = "failed" THEN NoToken ELSE prep[r].token
           b == IF a = "failed" THEN NoBroker ELSE prep[r].broker
<1>0. PrepTypes /\ GuardInv /\ TokenInv
  BY Zenon DEF PrepInv
<1>1. Moved(r, a, t, b)
  BY Zenon, <1>0, GotoMoved DEF Stages
<1>2. BrokersKeep /\ \A e \in Brokers : Lives(e)' => e # prep[r].broker
  BY Zenon, <1>0, GuardKillsEffect
<1>3. PrepTypes'
  BY Zenon, <1>0, <1>1, <1>2 DEF PrepTypes, Moved, BrokersKeep
<1>4. GuardInv'
  <2>1. a = "failed" => b = NoBroker
    OBVIOUS
  <2> HIDE DEF t, b
  <2> QED
    BY Zenon, <1>0, <1>1, <1>2, <2>1, KilledGuard
<1>5. TokenInv'
  <2>1. a \notin {"idle", "load", "dropped", "none", "failed", "killed"} =>
          Past(r) /\ t = prep[r].token
    OBVIOUS
  <2> HIDE DEF t, b
  <2> QED
    BY Zenon, <1>0, <1>1, <1>2, <2>1, MoveToken
<1> QED
  BY Zenon, <1>3, <1>4, <1>5 DEF PrepInv

\* The steps of a run that only move it on.
LEMMA PlainStepKeeps ==
  ASSUME NEW r \in Runs, PrepInv,
         \/ NothingDeclared(r) \/ RemoveRule(r) \/ RulesReload(r) \/ ProbeUnix(r)
         \/ WriteRule(r) \/ Answered(r) \/ WritePort(r) \/ WritePid(r) \/ Undo(r)
  PROVE  PrepInv'
<1>0. /\ prep \in [Runs -> PrepRecords] /\ prep[r] \in PrepRecords
      /\ os \in {"unix", "tcp"} /\ port_file \in Ports \cup {NoPort}
      /\ prep[r].port \in Ports \cup {NoPort}
  BY Zenon DEF PrepInv, PrepTypes, PrepRecords
<1>1. prep[r].at \in {"load", "dropped", "unix", "removed", "probe", "rewrite", "again"} =>
        prep[r].broker = NoBroker
  BY Zenon DEF PrepInv, GuardInv
<1>2. CASE NothingDeclared(r)
  <2>1. PICK a \in {"none", "dropped"} : Goto(r, a)
    BY <1>2, Zenon DEF NothingDeclared
  <2> QED
    BY Zenon, <1>0, <1>1, <1>2, <2>1, MoveKeeps DEF NothingDeclared, Fixed, Past, Stages
<1>3. CASE RemoveRule(r)
  <2>1. PICK a \in {"probe", "removed"} : Goto(r, a)
    BY <1>3, Zenon DEF RemoveRule
  <2> QED
    BY Zenon, <1>0, <1>1, <1>3, <2>1, MoveKeeps DEF RemoveRule, Fixed, Past, Stages
<1>4. CASE RulesReload(r)
  <2>1. \/ prep[r].at = "dropped" /\ Goto(r, "none")
        \/ prep[r].at = "removed" /\ Goto(r, "probe")
        \/ prep[r].at \in {"again", "activate"} /\ Goto(r, "ready")
    <3>1. /\ DOMAIN AfterReload = {"dropped", "removed", "again", "activate"}
          /\ AfterReload["dropped"] = "none" /\ AfterReload["removed"] = "probe"
          /\ AfterReload["again"] = "ready" /\ AfterReload["activate"] = "ready"
      BY Zenon DEF AfterReload
    <3>2. prep[r].at \in DOMAIN AfterReload /\ Goto(r, AfterReload[prep[r].at])
      BY Zenon, <1>4 DEF RulesReload
    <3> QED
      BY <3>1, <3>2, Zenon
  <2>2. UNCHANGED <<os, broker, token_file, socket, raced, port_file>>
    BY Zenon, <1>4 DEF RulesReload, Fixed
  <2> QED
    BY Zenon, <1>0, <1>1, <2>1, <2>2, MoveKeeps DEF Past, Stages
<1>5. CASE ProbeUnix(r)
  <2>1. PICK a \in {"ready", "spawn"} : Goto(r, a)
    BY <1>5, Zenon DEF ProbeUnix
  <2> QED
    BY Zenon, <1>0, <1>1, <1>5, <2>1, MoveKeeps DEF ProbeUnix, Files, Fixed, Past,
       Stages
<1>6. CASE WriteRule(r)
  <2>1. \/ prep[r].at = "rewrite" /\ Goto(r, "again")
        \/ prep[r].at = "rule" /\ Goto(r, "activate")
    BY Zenon, <1>6 DEF WriteRule
  <2> QED
    BY Zenon, <1>0, <1>1, <1>6, <2>1, MoveKeeps DEF WriteRule, Fixed, Past, Stages
<1>7. CASE Answered(r)
  <2>1. PICK a \in {"pid", "port"} : Goto(r, a)
    BY <1>7, Zenon DEF Answered
  <2> QED
    BY Zenon, <1>0, <1>7, <2>1, MoveKeeps DEF Answered, Files, Fixed, Past, Stages
<1>8. CASE WritePort(r)
  BY Zenon, <1>0, <1>8, MoveKeeps DEF WritePort, Fixed, Past, Stages
<1>9. CASE WritePid(r)
  <2>1. PICK a \in {"ready", "rule"} : Goto(r, a)
    BY <1>9, Zenon DEF WritePid
  <2> QED
    BY Zenon, <1>0, <1>9, <2>1, MoveKeeps DEF WritePid, Fixed, Past, Stages
<1>10. CASE Undo(r)
  BY Zenon, <1>0, <1>10, MoveKeeps DEF Undo, Fixed, Past, Stages
<1> QED
  BY Zenon, <1>2, <1>3, <1>4, <1>5, <1>6, <1>7, <1>8, <1>9, <1>10

\* The steps with which a run fails or starts over.
LEMMA FailedStepKeeps ==
  ASSUME NEW r \in Runs, PrepInv, WaitExpired(r) \/ StepFails(r) \/ Undone(r)
  PROVE  PrepInv'
<1>0. port_file \in Ports \cup {NoPort}
  BY Zenon DEF PrepInv, PrepTypes
<1>1. CASE WaitExpired(r)
  <2>1. PICK a \in {"spawn", "failed"} : Goto(r, a)
    BY <1>1, Zenon DEF WaitExpired
  <2> QED
    BY Zenon, <1>0, <1>1, <2>1, GuardedKeeps DEF WaitExpired, Files, Past
<1>2. CASE StepFails(r)
  <2>1. UNCHANGED <<os, token_file, socket, raced, port_file>>
    BY Zenon, <1>2 DEF StepFails
  <2>2. CASE prep[r].at \in FailsAtOnce /\ GuardKills(r) /\ Goto(r, "failed")
    BY Zenon, <1>0, <2>1, <2>2, GuardedKeeps DEF FailsAtOnce
  <2>3. CASE prep[r].at \in FailsLate /\ Goto(r, "undo") /\ UNCHANGED <<broker, active, conn>>
    BY Zenon, <1>0, <2>1, <2>3, MoveKeeps DEF FailsLate, Past, Stages
  <2> QED
    BY <1>2, <2>2, <2>3, Zenon DEF StepFails
<1>3. CASE Undone(r)
  BY Zenon, <1>0, <1>3, GuardedKeeps DEF Undone
<1> QED
  BY Zenon, <1>1, <1>2, <1>3

\* ensure_host_broker_running reads the token, or mints one while no other run does.
LEMMA ReadTokenKeeps ==
  ASSUME NEW r \in Runs, PrepInv, ReadToken(r) PROVE PrepInv'
<1> DEFINE a == IF token_file = NoToken THEN "mint" ELSE os
           t == IF token_file = NoToken THEN r ELSE token_file
           x == [prep[r] EXCEPT !.at = a]
           y == [x EXCEPT !.token = t]
<1>0. PrepTypes /\ GuardInv /\ TokenInv
  BY Zenon DEF PrepInv
<1>1. /\ prep \in [Runs -> PrepRecords] /\ prep[r] \in PrepRecords
      /\ a \in Stages /\ t \in Tokens \cup {NoToken}
  BY Zenon, <1>0, TokensAreRuns DEF PrepTypes, Stages
<1>2. prep' = [prep EXCEPT ![r] = y]
  BY Zenon DEF ReadToken
<1>3. UNCHANGED <<os, broker, token_file, port_file, socket>>
  BY Zenon DEF ReadToken, Fixed
<1>4. raced' = (raced \/ (token_file = NoToken /\ \E q \in Runs : prep[q].at = "mint"))
  BY Zenon DEF ReadToken
<1>5. prep[r].at = "load" /\ prep[r].broker = NoBroker
  BY Zenon, <1>0 DEF ReadToken, GuardInv
<1>6. /\ a = "mint" => token_file = NoToken /\ t \in Runs
      /\ a # "mint" => token_file # NoToken /\ t = token_file
      /\ a \in {"mint", "unix", "tcp"}
  BY Zenon, <1>0 DEF PrepTypes
<1> HIDE DEF a, t
<1>7. x \in PrepRecords /\ x.at = a /\ x.broker = prep[r].broker
  BY Zenon, <1>1 DEF PrepRecords
<1> HIDE DEF x
<1>8. y \in PrepRecords /\ y.at = a /\ y.token = t /\ y.broker = prep[r].broker
  BY Zenon, <1>1, <1>7 DEF PrepRecords
<1> HIDE DEF y
<1>9. Moved(r, a, t, NoBroker)
  BY Zenon, <1>1, <1>2, <1>5, <1>8 DEF Moved
<1>10. PrepTypes'
  BY Zenon, <1>0, <1>3, <1>9 DEF PrepTypes, Moved
<1>11. GuardInv'
  BY Zenon, <1>0, <1>3, <1>5, <1>6, <1>9, MoveGuard
<1>12. TokenInv'
  <2> SUFFICES ASSUME ~raced' PROVE TokenInv'
    BY Zenon DEF TokenInv
  <2>1. ~raced /\ (token_file = NoToken => \A q \in Runs : prep[q].at # "mint")
    BY Zenon, <1>4
  <2>2. \A q \in Runs : q # r => prep'[q] = prep[q]
    BY Zenon, <1>9 DEF Moved
  <2>3. prep'[r].at = a /\ prep'[r].token = t
    BY Zenon, <1>9 DEF Moved
  <2>4. \A q \in Runs : Past(q)' => token_file # NoToken /\ prep'[q].token = token_file
    BY Zenon, <1>0, <1>6, <2>1, <2>2, <2>3 DEF TokenInv, Past
  <2>5. \A q \in Runs : prep'[q].at = "mint" =>
          /\ token_file = NoToken /\ prep'[q].token \in Runs
          /\ \A p \in Runs : prep'[p].at = "mint" => p = q
    BY Zenon, <1>0, <1>6, <2>1, <2>2, <2>3 DEF TokenInv
  <2> QED
    BY Zenon, <1>0, <1>3, <2>1, <2>4, <2>5 DEF TokenInv
<1> QED
  BY Zenon, <1>10, <1>11, <1>12 DEF PrepInv

\* Without a race nobody has a token yet when the file is written.
LEMMA WriteTokenKeeps ==
  ASSUME NEW r \in Runs, PrepInv, WriteToken(r) PROVE PrepInv'
<1>0. PrepTypes /\ GuardInv /\ TokenInv
  BY Zenon DEF PrepInv
<1>1. prep[r].at = "mint" /\ prep[r].broker = NoBroker /\ os \in {"unix", "tcp"}
  BY Zenon, <1>0 DEF WriteToken, GuardInv, PrepTypes
<1>2. Moved(r, os, prep[r].token, prep[r].broker)
  BY Zenon, <1>0, <1>1, GotoMoved DEF WriteToken, Stages
<1>3. UNCHANGED <<os, broker, port_file, socket, raced>> /\ token_file' = prep[r].token
  BY Zenon DEF WriteToken, Fixed
<1>4. PrepTypes'
  BY Zenon, <1>0, <1>2, <1>3 DEF PrepTypes, Moved, PrepRecords
<1>5. GuardInv'
  BY Zenon, <1>0, <1>1, <1>2, <1>3, MoveGuard
<1>6. TokenInv'
  <2> SUFFICES ASSUME ~raced PROVE TokenInv'
    BY Zenon, <1>3 DEF TokenInv
  <2>1. /\ token_file = NoToken /\ prep[r].token \in Runs
        /\ \A q \in Runs : prep[q].at = "mint" => q = r
    BY Zenon, <1>0, <1>1 DEF TokenInv
  <2>2. token_file' # NoToken
    BY Zenon, <1>3, <2>1, TokensAreRuns
  <2>3. \A q \in Runs : ~Past(q) /\ prep'[q].at # "mint"
    BY Zenon, <1>0, <1>1, <1>2, <2>1 DEF TokenInv, Moved, Past
  <2>4. \A q \in Runs : Past(q)' => q = r
    BY Zenon, <1>2, <2>3 DEF Past, Moved
  <2>5. \A e \in Brokers : broker'[e].state = "unused"
    BY Zenon, <1>0, <1>3, <2>1 DEF TokenInv
  <2>6. socket' = NoBroker
    BY Zenon, <1>0, <1>3, <2>5 DEF TokenInv, PrepTypes
  <2>7. prep'[r].token = token_file'
    BY Zenon, <1>2, <1>3 DEF Moved
  <2> QED
    BY Zenon, <2>2, <2>3, <2>4, <2>5, <2>6, <2>7 DEF TokenInv
<1> QED
  BY Zenon, <1>4, <1>5, <1>6 DEF PrepInv

\* ensure_tcp_host_broker_running looks at the port on file.
LEMMA ProbePortKeeps ==
  ASSUME NEW r \in Runs, PrepInv, ProbePort(r) PROVE PrepInv'
<1>0. PrepTypes /\ GuardInv /\ TokenInv
  BY Zenon DEF PrepInv
<1>1. /\ prep[r].at = "tcp" /\ prep[r].broker = NoBroker
      /\ UNCHANGED <<os, broker, token_file, port_file, socket, raced>>
      /\ port_file \in Ports \cup {NoPort}
  BY Zenon, <1>0 DEF ProbePort, GuardInv, PrepTypes, Files, Fixed
<1>2. CASE Goto(r, "spawn")
  BY Zenon, <1>1, <1>2, MoveKeeps DEF Past, Stages
<1>3. CASE prep' = [prep EXCEPT ![r].at = "rewrite", ![r].port = port_file]
  <2> DEFINE x == [prep[r] EXCEPT !.at = "rewrite"]
             y == [x EXCEPT !.port = port_file]
  <2>1. prep \in [Runs -> PrepRecords] /\ prep[r] \in PrepRecords
    BY Zenon, <1>0 DEF PrepTypes
  <2>2. prep' = [prep EXCEPT ![r] = y]
    BY <1>3, Zenon
  <2>3. /\ x \in PrepRecords /\ x.at = "rewrite"
        /\ x.token = prep[r].token /\ x.broker = prep[r].broker
    BY Zenon, <2>1 DEF PrepRecords, Stages
  <2> HIDE DEF x
  <2>4. /\ y \in PrepRecords /\ y.at = "rewrite"
        /\ y.token = prep[r].token /\ y.broker = prep[r].broker
    BY Zenon, <1>1, <2>3 DEF PrepRecords
  <2> HIDE DEF y
  <2>5. Moved(r, "rewrite", prep[r].token, prep[r].broker)
    BY Zenon, <2>1, <2>2, <2>4 DEF Moved
  <2>6. BrokersKeep
    BY Zenon, <1>0, <1>1 DEF PrepTypes, BrokersKeep, Lives
  <2>7. PrepTypes'
    BY Zenon, <1>0, <1>1, <2>5 DEF PrepTypes, Moved
  <2>8. GuardInv'
    BY Zenon, <1>0, <1>1, <2>5, MoveGuard
  <2>9. TokenInv'
    BY Zenon, <1>0, <1>1, <2>5, <2>6, MoveToken DEF Past
  <2> QED
    BY Zenon, <2>7, <2>8, <2>9 DEF PrepInv
<1> QED
  BY Zenon, <1>2, <1>3 DEF ProbePort

\* A new broker is the spawning run's, with the run's token.
LEMMA StartBrokerKeeps ==
  ASSUME NEW r \in Runs, NEW p \in Ports \cup {NoPort}, PrepInv, StartBroker(r, p)
  PROVE  PrepInv'
<1> DEFINE n == NewBroker
           m == [state |-> "starting", token |-> prep[r].token, port |-> p, by |-> r]
           w == [prep[r] EXCEPT !.at = "wait"]
           x == [w EXCEPT !.broker = n]
           y == [x EXCEPT !.port = p]
           z == [y EXCEPT !.tries = @ + 1]
<1>0. PrepTypes /\ GuardInv /\ TokenInv
  BY Zenon DEF PrepInv
<1>1. prep \in [Runs -> PrepRecords] /\ prep[r] \in PrepRecords
  BY Zenon, <1>0 DEF PrepTypes
<1>2. n \in Brokers /\ broker[n].state = "unused" /\ broker \in [Brokers -> BrokerRecords]
  BY Zenon, <1>0 DEF StartBroker, NewBroker, Unused, PrepTypes
<1>3. prep[r].at = "spawn" /\ UNCHANGED <<os, token_file, port_file, socket, raced>>
  BY Zenon DEF StartBroker, Files, Fixed
<1>4. broker' = [broker EXCEPT ![n] = m]
  BY Zenon DEF StartBroker
<1>5. prep' = [prep EXCEPT ![r] = z]
  BY Zenon DEF StartBroker
<1>6. /\ m \in BrokerRecords /\ m.state = "starting" /\ m.token = prep[r].token /\ m.by = r
  BY Zenon, <1>1 DEF BrokerRecords, PrepRecords
<1> HIDE DEF n, m
<1>7. w \in PrepRecords /\ w.at = "wait" /\ w.token = prep[r].token
  BY Zenon, <1>1 DEF PrepRecords, Stages
<1> HIDE DEF w
<1>8. x \in PrepRecords /\ x.at = "wait" /\ x.token = prep[r].token /\ x.broker = n
  BY Zenon, <1>2, <1>7 DEF PrepRecords
<1> HIDE DEF x
<1>9. y \in PrepRecords /\ y.at = "wait" /\ y.token = prep[r].token /\ y.broker = n
  BY Zenon, <1>8 DEF PrepRecords
<1> HIDE DEF y
<1>10. z \in PrepRecords /\ z.at = "wait" /\ z.token = prep[r].token /\ z.broker = n
  BY <1>9 DEF PrepRecords
<1> HIDE DEF z
<1>11. Moved(r, "wait", prep[r].token, n)
  BY Zenon, <1>1, <1>5, <1>10 DEF Moved
<1>12. /\ broker' \in [Brokers -> BrokerRecords] /\ broker'[n] = m
       /\ \A e \in Brokers : e # n => broker'[e] = broker[e]
  BY Zenon, <1>2, <1>4, <1>6
<1>13. PrepTypes'
  BY Zenon, <1>0, <1>3, <1>11, <1>12 DEF PrepTypes, Moved
<1>14. GuardInv'
  <2>1. \A e \in Brokers : Lives(e)' => e = n \/ (Lives(e) /\ broker[e].by # r)
    BY Zenon, <1>0, <1>3, <1>12 DEF Lives, GuardInv
  <2>2. broker'[n].by = r /\ prep'[r].at = "wait" /\ prep'[r].broker = n
    BY Zenon, <1>6, <1>11, <1>12 DEF Moved
  <2>3. \A q \in Runs : q # r => prep'[q] = prep[q]
    BY Zenon, <1>11 DEF Moved
  <2>4. ASSUME NEW b \in Brokers, Lives(b)'
        PROVE  /\ broker'[b].by \in Runs
               /\ \/ prep'[broker'[b].by].at = "killed"
                  \/ prep'[broker'[b].by].at # "failed" /\ prep'[broker'[b].by].broker = b
    <3>1. CASE b = n
      BY Zenon, <2>2, <3>1
    <3>2. CASE b # n
      <4>1. /\ broker'[b].by = broker[b].by /\ broker[b].by # r
            /\ Lives(b)
        BY <1>12, <2>1, <2>4, <3>2, Zenon
      <4>2. /\ broker[b].by \in Runs
            /\ \/ prep[broker[b].by].at = "killed"
               \/ prep[broker[b].by].at # "failed" /\ prep[broker[b].by].broker = b
        BY <1>0, <4>1, Zenon DEF GuardInv
      <4> QED
        BY <2>3, <4>1, <4>2, Zenon
    <3> QED
      BY Zenon, <3>1, <3>2
  <2>5. ASSUME NEW q \in Runs, prep'[q].at = "spawn", NEW b \in Brokers, Lives(b)'
        PROVE  broker'[b].by # q
    <3>1. q # r /\ prep[q].at = "spawn"
      BY <2>2, <2>3, <2>5, Zenon
    <3>2. \A e \in Brokers : Lives(e) => broker[e].by # q
      BY <1>0, <3>1, Zenon DEF GuardInv
    <3> QED
      BY <1>12, <2>1, <2>2, <2>5, <3>1, <3>2, Zenon
  <2>6. ASSUME NEW q \in Runs,
               prep'[q].at \in {"idle", "load", "dropped", "none", "mint", "unix", "tcp",
                                "removed", "probe", "rewrite", "again", "failed", "killed"}
        PROVE  prep'[q].broker = NoBroker
    <3>1. q # r
      BY Zenon, <2>2, <2>6
    <3> QED
      BY <1>0, <2>3, <2>6, <3>1, Zenon DEF GuardInv
  <2> QED
    BY Zenon, <2>4, <2>5, <2>6 DEF GuardInv
<1>15. TokenInv'
  <2> SUFFICES ASSUME ~raced PROVE TokenInv'
    BY Zenon, <1>3 DEF TokenInv
  <2>1. token_file # NoToken /\ prep[r].token = token_file
    BY Zenon, <1>0, <1>3 DEF TokenInv, Past
  <2>2. \A q \in Runs : Past(q)' => Past(q) /\ prep'[q].token = prep[q].token
    BY Zenon, <1>3, <1>11 DEF Moved, Past
  <2>3. \A q \in Runs : prep'[q].at = "mint" => q # r /\ prep'[q] = prep[q]
    BY Zenon, <1>11 DEF Moved
  <2>4. \A e \in Brokers : broker'[e].state # "unused" => broker'[e].token = token_file
    BY Zenon, <1>0, <1>6, <1>12, <2>1 DEF TokenInv
  <2>5. socket # NoBroker => broker'[socket].state # "unused"
    BY Zenon, <1>0, <1>2, <1>12 DEF TokenInv, PrepTypes
  <2> QED
    BY Zenon, <1>0, <1>3, <2>1, <2>2, <2>3, <2>4, <2>5 DEF TokenInv
<1> QED
  BY Zenon, <1>13, <1>14, <1>15 DEF PrepInv

\* A command that reaches the preparation has neither token nor broker.
LEMMA BeginKeeps ==
  ASSUME NEW r \in Runs, PrepInv, Begin(r) PROVE PrepInv'
<1>3. PICK g \in Flag : g = (\A p \in Runs \ {r} : ~Preparing(p))
  BY Zenon DEF Flag
<1> DEFINE x == [NoPrep EXCEPT !.at = "load"]
           y == [x EXCEPT !.alone = g]
           z(q) == [prep[q] EXCEPT !.alone = FALSE]
<1>0. PrepTypes /\ GuardInv /\ TokenInv
  BY Zenon DEF PrepInv
<1>1. /\ prep[r].at = "idle" /\ prep[r].broker = NoBroker
      /\ UNCHANGED <<os, broker, token_file, port_file, socket, raced>>
  BY Zenon, <1>0 DEF Begin, GuardInv, serverVars
<1>2. prep' = [q \in Runs |-> IF q = r THEN y ELSE z(q)]
  BY <1>3, Zenon DEF Begin
<1>4. x \in PrepRecords /\ x.at = "load" /\ x.token = NoToken /\ x.broker = NoBroker
  <2>1. NoPrep \in PrepRecords /\ NoPrep.token = NoToken /\ NoPrep.broker = NoBroker
    BY DEF NoPrep, PrepRecords, Stages, Flag
  <2> QED
    BY Zenon, <2>1 DEF PrepRecords, Stages
<1> HIDE DEF x
<1>5. y \in PrepRecords /\ y.at = "load" /\ y.token = NoToken /\ y.broker = NoBroker
  <2>1. g \in Flag
    BY Zenon, <1>3
  <2> QED
    BY Zenon, <1>4, <2>1 DEF PrepRecords
<1> HIDE DEF y
<1>6. ASSUME NEW q \in Runs
      PROVE  /\ z(q) \in PrepRecords /\ z(q).at = prep[q].at
             /\ z(q).token = prep[q].token /\ z(q).broker = prep[q].broker
  <2>1. prep[q] \in PrepRecords /\ FALSE \in Flag
    BY Zenon, <1>0 DEF PrepTypes, Flag
  <2> QED
    BY Zenon, <2>1 DEF PrepRecords
<1> HIDE DEF z
<1>7. prep' \in [Runs -> PrepRecords]
  BY Zenon, <1>2, <1>5, <1>6
<1>8. prep'[r].at = "load" /\ prep'[r].broker = NoBroker
  BY Zenon, <1>2, <1>5
<1>9. \A q \in Runs : q # r => /\ prep'[q].at = prep[q].at /\ prep'[q].token = prep[q].token
                             /\ prep'[q].broker = prep[q].broker
  BY Zenon, <1>2, <1>6
<1>10. PrepTypes'
  BY Zenon, <1>0, <1>1, <1>7 DEF PrepTypes
<1>11. GuardInv'
  <2>1. \A e \in Brokers : Lives(e)' <=> Lives(e)
    BY Zenon, <1>1 DEF Lives
  <2>2. ASSUME NEW e \in Brokers, Lives(e) PROVE broker[e].by # r
    <3>1. prep[broker[e].by].at = "killed" \/ prep[broker[e].by].broker = e
      BY <1>0, <2>2, Zenon DEF GuardInv
    <3> QED
      BY <1>1, <3>1, BrokersAreNamed, Zenon DEF BrokersAreNamed
  <2> QED
    BY Zenon, <1>0, <1>1, <1>8, <1>9, <2>1, <2>2 DEF GuardInv
<1>12. TokenInv'
  <2>1. \A q \in Runs : Past(q)' => Past(q) /\ prep'[q].token = prep[q].token
    BY Zenon, <1>8, <1>9 DEF Past
  <2>2. \A q \in Runs : prep'[q].at = "mint" =>
          prep[q].at = "mint" /\ prep'[q].token = prep[q].token
    BY Zenon, <1>8, <1>9
  <2> QED
    BY Zenon, <1>0, <1>1, <2>1, <2>2 DEF TokenInv
<1> QED
  BY Zenon, <1>10, <1>11, <1>12 DEF PrepInv

\* A broker binds or dies; only one that was started is ever on the socket.
LEMMA BrokerKeeps ==
  ASSUME NEW b \in Brokers, PrepInv, Bind(b) \/ BrokerDies(b) PROVE PrepInv'
<1>0. PrepTypes /\ GuardInv /\ TokenInv
  BY Zenon DEF PrepInv
<1>1. PICK s \in {"dead", "serving"} : broker' = [broker EXCEPT ![b].state = s]
  BY Zenon DEF Bind, BrokerDies
<1>2. Turned(b, s)
  BY Zenon, <1>0, <1>1, StateTurned
<1>3. Lives(b) /\ broker[b].state # "unused"
  BY Zenon DEF Bind, BrokerDies, Lives
<1>4. BrokersKeep
  BY Zenon, <1>2, <1>3 DEF Turned, BrokersKeep, Lives
<1>5. UNCHANGED <<os, prep, token_file, port_file, raced>> /\ socket' \in {socket, b}
  BY Zenon DEF Bind, BrokerDies, Files, Fixed
<1>6. PrepTypes'
  BY Zenon, <1>0, <1>4, <1>5 DEF PrepTypes, BrokersKeep
<1>7. GuardInv'
  BY Zenon, <1>0, <1>4, <1>5, BrokerGuard
<1>8. TokenInv'
  BY Zenon, <1>0, <1>3, <1>4, <1>5, BrokerToken
<1> QED
  BY Zenon, <1>6, <1>7, <1>8 DEF PrepInv

\* The request server and edits of the resources leave the runs' files, rules and brokers
\* alone.
LEMMA ServeSpares ==
  ASSUME Serve \/ EditResources
  PROVE  UNCHANGED <<os, broker, prep, token_file, port_file, socket, raced, rule_disk,
                     rule_live>>
<1>1. CASE EditResources
  BY Zenon, <1>1 DEF EditResources, EditRegistry, ChangeGrants, Files
<1>2. CASE Serve
  <2>1. PICK c \in Conns :
          \/ \E b \in Brokers : Accept(c, b)
          \/ HandlerStep(c) \/ ToolStep(c) \/ ToolExits(c) \/ HolderEnds(c)
          \/ \E w \in {"group", "outside"} : ToolForks(c, w)
    BY <1>2, Zenon DEF Serve
  <2>2. ASSUME HandlerStep(c) PROVE UNCHANGED broker
    <3>1. (\E a \in Asks : Route(c, a)) => UNCHANGED broker
      BY Zenon DEF Route, Reply
    <3>2. Reply(c) \/ (\E at : Advance(c, at)) => UNCHANGED broker
      BY Zenon DEF Reply, Advance
    <3>3. \/ \E a \in Asks : Route(c, a)
          \/ SpawnTool(c) \/ Reply(c) \/ \E at : Advance(c, at)
      BY <2>2, Zenon DEF HandlerStep, ThreadStarts, ThreadFails, Unreadable,
        RegistryUnusable, RequestInvalid, FindResource, ResolveCwd, ResolveFile,
        EvaluateRule, EvaluationFails, ReadFile, ToolUnusable
    <3>4. SpawnTool(c) => UNCHANGED broker
      BY Zenon DEF SpawnTool
    <3> QED
      BY <3>1, <3>2, <3>3, <3>4, Zenon
  <2>3. ASSUME ToolStep(c) PROVE UNCHANGED broker
    <3>1. Reply(c) \/ Reaped(c) \/ ToolTimeout(c) => UNCHANGED broker
      BY Zenon DEF Reply, Reaped, ToolTimeout
    <3> QED
      BY <2>3, <3>1, Zenon DEF ToolStep, JoinReaders, JoinKilled
  <2>4. UNCHANGED broker
    BY <2>1, <2>2, <2>3, Zenon DEF Accept, ToolExits, HolderEnds, ToolForks
  <2> QED
    BY Zenon, <1>2, <2>4 DEF Serve, prepVars
<1> QED
  BY Zenon, <1>1, <1>2

\* One step per action of the preparation, the brokers and the commands.
LEMMA PrepStep == PrepInv /\ [Next]_vars => PrepInv'
<1> SUFFICES ASSUME PrepInv, [Next]_vars PROVE PrepInv'
  OBVIOUS
<1>1. ASSUME UNCHANGED <<os, broker, prep, token_file, port_file, socket, raced>> PROVE PrepInv'
  BY Zenon, <1>1 DEF PrepInv, PrepTypes, GuardInv, TokenInv, Lives, Past
<1>2. CASE UNCHANGED vars
  BY Zenon, <1>1, <1>2 DEF vars, hostVars, serverVars, prepVars
<1>3. CASE Commands
  BY Zenon, <1>1, <1>3 DEF Commands, Rest, serverVars
<1>4. ASSUME NEW r \in Runs, AskForBroker(r) PROVE PrepInv'
  BY Zenon, <1>4, BeginKeeps DEF AskForBroker
<1>5. ASSUME NEW r \in Runs, KillCommand(r), UNCHANGED Rest PROVE PrepInv'
  <2>1. UNCHANGED <<os, broker, token_file, port_file, socket, raced>>
    BY Zenon, <1>5 DEF Rest, serverVars
  <2>2. port_file \in Ports \cup {NoPort}
    BY Zenon DEF PrepInv, PrepTypes
  <2>3. CASE prep[r].at \in Over
    BY Zenon, <1>1, <1>5, <2>1, <2>3 DEF KillCommand
  <2>4. CASE prep[r].at \notin Over
    <3>1. Goto(r, "killed") /\ prep[r].at # "killed"
      BY Zenon, <1>5, <2>4 DEF KillCommand, Over
    <3> QED
      BY Zenon, <2>1, <2>2, <3>1, MoveKeeps DEF Stages
  <2> QED
    BY Zenon, <2>3, <2>4
<1>6. ASSUME NEW r \in Runs, PrepareStep(r) PROVE PrepInv'
  <2>1. \/ ReadToken(r) \/ WriteToken(r) \/ ProbePort(r)
        \/ \E p \in Ports \cup {NoPort} : StartBroker(r, p)
        \/ WaitExpired(r) \/ StepFails(r) \/ Undone(r)
        \/ NothingDeclared(r) \/ RemoveRule(r) \/ RulesReload(r) \/ ProbeUnix(r)
        \/ WriteRule(r) \/ Answered(r) \/ WritePort(r) \/ WritePid(r) \/ Undo(r)
    BY <1>6, Zenon DEF PrepareStep, SpawnUnix, SpawnTcp
  <2> QED
    BY <2>1, ReadTokenKeeps, WriteTokenKeeps, ProbePortKeeps, StartBrokerKeeps,
       FailedStepKeeps, PlainStepKeeps, Zenon
<1>7. ASSUME NEW b \in Brokers, Bind(b) \/ BrokerDies(b) PROVE PrepInv'
  BY Zenon, <1>7, BrokerKeeps
<1>8. CASE Serve \/ EditResources
  BY Zenon, <1>1, <1>8, ServeSpares DEF prepVars
<1> QED
  BY <1>2, <1>3, <1>4, <1>5, <1>6, <1>7, <1>8, Zenon DEF Next, Host

\* What the guard and the token file keep in order, along every behaviour.
THEOREM PrepInvariant == Spec => []PrepInv
<1>1. Init => PrepInv
  <2> SUFFICES ASSUME Init PROVE PrepInv
    OBVIOUS
  <2> DEFINE new == [state |-> "unused", token |-> NoToken, port |-> NoPort, by |-> NoToken]
  <2>1. /\ os \in {"unix", "tcp"} /\ broker = [b \in Brokers |-> new]
        /\ prep = [r \in Runs |-> NoPrep] /\ raced = FALSE
        /\ token_file = NoToken /\ port_file = NoPort /\ socket = NoBroker
    BY Zenon DEF Init, HostInit
  <2>2. new \in BrokerRecords /\ new.state = "unused"
    BY Zenon DEF BrokerRecords
  <2> HIDE DEF new
  <2>3. NoPrep \in PrepRecords /\ NoPrep.at = "idle" /\ NoPrep.broker = NoBroker
    BY DEF NoPrep, PrepRecords, Stages, Flag
  <2>4. PrepTypes
    BY Zenon, <2>1, <2>2, <2>3 DEF PrepTypes
  <2>5. GuardInv
    BY Zenon, <2>1, <2>2, <2>3 DEF GuardInv, Lives
  <2>6. TokenInv
    BY Zenon, <2>1, <2>2, <2>3 DEF TokenInv, Past
  <2> QED
    BY Zenon, <2>4, <2>5, <2>6 DEF PrepInv
<1> QED
  BY <1>1, PrepStep, PTL DEF Spec

\* For any number of runs, brokers and attempts: a run that gives up leaves no broker
\* behind (BrokerChildGuard), wherever it fails and whoever else prepares meanwhile.
THEOREM BrokersAreGuarded == Spec => []GuardedBrokers
<1>1. PrepInv => GuardedBrokers
  BY Zenon DEF PrepInv, GuardInv, Lives, GuardedBrokers
<1> QED
  BY <1>1, PrepInvariant, PTL

\* For any number of runs: unless two of them minted a token at once, the broker on
\* the shared socket knows the token of every run that is ready
\* (ensure_host_broker_running).
THEOREM TokensAreShared == Spec => []TokenShared
<1>1. PrepInv => TokenShared
  BY Zenon DEF PrepInv, PrepTypes, TokenInv, Past, TokenShared
<1> QED
  BY <1>1, PrepInvariant, PTL

-----------------------------------------------------------------------------
(* A preparation that no other one overlaps, and what it finds at its end. *)

\* Stages of one transport only.
TcpOnly == {"tcp", "rewrite", "again", "port", "rule", "activate"}
UnixOnly == {"unix", "removed", "probe"}

\* The run has had its broker's answer over TCP.
Established == {"rewrite", "again", "port", "pid", "rule", "activate"}

OsInv ==
  \A r \in Runs : /\ prep[r].at \in TcpOnly => os = "tcp"
                  /\ prep[r].at \in UnixOnly => os = "unix"

\* serve_tcp needs a free port.
PortInv ==
  os = "tcp" =>
    \A b, e \in Brokers :
      /\ broker[b].state = "serving" /\ broker[e].state = "serving"
      /\ broker[b].port = broker[e].port
      => b = e

Alone(r) == prep[r].alone /\ prep[r].at \notin Over

\* What a run that prepares alone may rely on: nobody else prepares, whatever starts
\* is its own, and the answer it had is still that of its address.
Solo(r) ==
  /\ \A q \in Runs : q # r => prep[q].at \in Over
  /\ \A b \in Brokers : broker[b].state = "starting" =>
       broker[b].by = r /\ broker[b].token = prep[r].token
  /\ os = "unix" /\ prep[r].at = "pid" =>
       socket \in Brokers /\ broker[socket].token = prep[r].token
  /\ os = "tcp" /\ prep[r].at \in Established =>
       \A b \in Listening(prep[r].port) : broker[b].token = prep[r].token
  /\ prep[r].at \in {"again", "activate"} => rule_disk = prep[r].port

ReachInv == OsInv /\ PortInv /\ \A r \in Runs : Alone(r) => Solo(r)

\* Brokers may have died; nothing else about them changes.
Fewer ==
  \A b \in Brokers :
    /\ broker'[b].state \in {broker[b].state, "dead"}
    /\ broker'[b].token = broker[b].token /\ broker'[b].port = broker[b].port
    /\ broker'[b].by = broker[b].by

\* A run's step never changes the port and the history of one that goes on.
LEMMA GotoCarries ==
  ASSUME NEW r \in Runs, PrepTypes, NEW a \in Stages, Goto(r, a),
         a \notin {"none", "failed", "killed"}
  PROVE  prep'[r].port = prep[r].port /\ prep'[r].alone = prep[r].alone
<1>0. prep \in [Runs -> PrepRecords] /\ prep[r] \in PrepRecords
  BY Zenon DEF PrepTypes
<1>1. prep' = [prep EXCEPT ![r] = [prep[r] EXCEPT !.at = a]]
  BY Zenon DEF Goto
<1> DEFINE q == [prep[r] EXCEPT !.at = a]
<1>2. q.port = prep[r].port /\ q.alone = prep[r].alone
  BY Zenon, <1>0 DEF PrepRecords
<1>3. prep' = [prep EXCEPT ![r] = q]
  BY Zenon, <1>1
<1> HIDE DEF q
<1> QED BY Zenon, <1>0, <1>2, <1>3

\* An update of a broker's state leaves its port, token and maker.
LEMMA StateKeeps ==
  ASSUME NEW b \in Brokers, PrepTypes, NEW s, broker' = [broker EXCEPT ![b].state = s]
  PROVE  /\ broker'[b].state = s
         /\ \A e \in Brokers : /\ e # b => broker'[e] = broker[e]
                               /\ broker'[e].token = broker[e].token
                               /\ broker'[e].port = broker[e].port
                               /\ broker'[e].by = broker[e].by
<1>1. broker \in [Brokers -> BrokerRecords] /\ broker[b] \in BrokerRecords
  BY Zenon DEF PrepTypes
<1> DEFINE q == [broker[b] EXCEPT !.state = s]
<1>2. /\ q.state = s /\ q.token = broker[b].token /\ q.by = broker[b].by
      /\ q.port = broker[b].port
  BY Zenon, <1>1 DEF BrokerRecords
<1>3. broker' = [broker EXCEPT ![b] = q]
  BY Zenon
<1> HIDE DEF q
<1> QED BY Zenon, <1>1, <1>2, <1>3

\* BrokerChildGuard kills, and does nothing else to a broker.
LEMMA GuardFewer ==
  ASSUME NEW r \in Runs, PrepTypes, GuardKills(r)
  PROVE  Fewer
<1> DEFINE b == prep[r].broker
<1>0. b \in Brokers \cup {NoBroker}
  BY Zenon DEF PrepTypes, PrepRecords
<1>1. CASE broker' = broker
  BY Zenon, <1>1 DEF Fewer
<1>2. CASE broker' # broker
  <2>1. b \in Brokers /\ broker' = [broker EXCEPT ![b].state = "dead"]
    BY Zenon, <1>0, <1>2 DEF GuardKills
  <2> HIDE DEF b
  <2>2. broker'[b].state = "dead" /\ \A e \in Brokers : e # b => broker'[e] = broker[e]
    BY Zenon, <2>1, StateKeeps
  <2>3. \A e \in Brokers : /\ broker'[e].token = broker[e].token
                           /\ broker'[e].port = broker[e].port
                           /\ broker'[e].by = broker[e].by
    BY Zenon, <2>1, StateKeeps
  <2> QED BY Zenon, <2>2, <2>3 DEF Fewer
<1> QED BY Zenon, <1>1, <1>2

\* Where no other run prepares, a step of r leaves every other run as good as absent.
LEMMA OthersOver ==
  ASSUME NEW r \in Runs, ReachInv, prep[r].at \notin Over,
         \A q \in Runs : q # r => prep'[q] = prep[q]
  PROVE  \A q \in Runs : q # r => ~Alone(q)'
BY Zenon DEF ReachInv, Solo, Alone

\* With fewer brokers the ports stay apart.
LEMMA FewerPorts ==
  ASSUME PortInv, Fewer, UNCHANGED os
  PROVE  PortInv'
<1>1. \A b \in Brokers : /\ broker'[b].state = "serving" => broker[b].state = "serving"
                         /\ broker'[b].port = broker[b].port
  BY Zenon DEF Fewer
<1> QED BY Zenon, <1>1 DEF PortInv

\* A step with which a run goes on or ends, on the same address and token.
LEMMA GotoReach ==
  ASSUME NEW r \in Runs, PrepTypes, ReachInv, NEW a \in Stages, Goto(r, a), Fewer,
         UNCHANGED <<os, socket>>, prep[r].at \notin Over,
         a \in TcpOnly => os = "tcp", a \in UnixOnly => os = "unix",
         Solo(r) /\ os = "unix" /\ a = "pid" =>
           socket \in Brokers /\ broker[socket].token = prep[r].token,
         Solo(r) /\ os = "tcp" /\ a \in Established =>
           \A b \in Listening(prep[r].port) : broker[b].token = prep[r].token,
         a \in {"again", "activate"} => rule_disk' = prep[r].port
  PROVE  ReachInv'
<1>1. prep'[r].at = a /\ \A q \in Runs : q # r => prep'[q] = prep[q]
  BY Zenon, GotoMoved DEF Moved
<1>2. OsInv'
  BY Zenon, <1>1 DEF ReachInv, OsInv
<1>3. PortInv'
  BY Zenon, FewerPorts DEF ReachInv
<1>4. \A q \in Runs : q # r => ~Alone(q)'
  BY Zenon, <1>1, OthersOver
<1>5. ASSUME Alone(r)' PROVE Solo(r)'
  <2>1. a \notin Over
    BY Zenon, <1>1, <1>5 DEF Alone
  <2>2. /\ prep'[r].port = prep[r].port /\ prep'[r].alone = prep[r].alone
        /\ prep'[r].token = prep[r].token
    BY Zenon, <2>1, GotoCarries, GotoMoved DEF Over, Moved
  <2>3. Solo(r)
    BY Zenon, <1>5, <2>2 DEF ReachInv, Alone
  <2>4. \A q \in Runs : q # r => prep'[q].at \in Over
    BY Zenon, <1>1, <2>3 DEF Solo
  <2>5. \A b \in Brokers : broker'[b].state = "starting" =>
          broker'[b].by = r /\ broker'[b].token = prep'[r].token
    BY Zenon, <2>2, <2>3 DEF Solo, Fewer
  <2>6. os' = "unix" /\ a = "pid" =>
          socket' \in Brokers /\ broker'[socket'].token = prep'[r].token
    BY Zenon, <2>2, <2>3 DEF Fewer
  <2>7. os' = "tcp" /\ a \in Established =>
          \A b \in Listening(prep[r].port)' : broker'[b].token = prep'[r].token
    BY Zenon, <2>2, <2>3 DEF Fewer, Listening
  <2>8. Listening(prep[r].port)' = {b \in Brokers : broker'[b].state = "serving"
                                                     /\ broker'[b].port = prep'[r].port}
    BY Zenon DEF Listening
  <2> QED BY Zenon, <1>1, <2>2, <2>4, <2>5, <2>6, <2>7, <2>8 DEF Solo, Listening
<1> QED BY Zenon, <1>2, <1>3, <1>4, <1>5 DEF ReachInv

\* Over TCP a port has one listener: if it has the token, that is the answer.
LEMMA OneAnswers ==
  ASSUME PortInv, os = "tcp", NEW p, NEW t, Healthy(p, t)
  PROVE  \A b \in Listening(p) : broker[b].token = t
BY Zenon DEF PortInv, Healthy, Reached, Listening

\* The steps of a run that only move it on, or end it.
LEMMA PlainStepReach ==
  ASSUME NEW r \in Runs, PrepInv, ReachInv,
         \/ NothingDeclared(r) \/ WriteToken(r) \/ RemoveRule(r) \/ RulesReload(r)
         \/ ProbeUnix(r) \/ WriteRule(r) \/ Answered(r) \/ WritePort(r) \/ WritePid(r)
         \/ Undo(r)
  PROVE  ReachInv'
<1>0. PrepTypes /\ os \in {"unix", "tcp"} /\ PortInv /\ Fewer /\ UNCHANGED <<os, socket>>
  <2>1. UNCHANGED <<os, socket, broker>>
    BY Zenon DEF NothingDeclared, WriteToken, RemoveRule, RulesReload, ProbeUnix, WriteRule,
       Answered, WritePort, WritePid, Undo, Files, Fixed
  <2> QED BY Zenon, <2>1 DEF PrepInv, PrepTypes, ReachInv, Fewer
<1>1. /\ prep[r].at \in TcpOnly => os = "tcp"
      /\ prep[r].at \in UnixOnly => os = "unix"
  BY Zenon DEF ReachInv, OsInv
<1>2. CASE NothingDeclared(r)
  <2>1. PICK a \in {"none", "dropped"} : Goto(r, a)
    BY Zenon, <1>2 DEF NothingDeclared
  <2>2. prep[r].at \notin Over
    BY Zenon, <1>2 DEF NothingDeclared, Over
  <2> QED BY Zenon, <1>0, <2>1, <2>2, GotoReach DEF Stages, TcpOnly, UnixOnly, Established
<1>3. CASE WriteToken(r)
  <2>1. Goto(r, os) /\ prep[r].at \notin Over
    BY Zenon, <1>3 DEF WriteToken, Over
  <2>2. CASE os = "unix"
    <3>1. Goto(r, "unix")
      BY Zenon, <2>1, <2>2
    <3> QED BY Zenon, <1>0, <2>1, <2>2, <3>1, GotoReach DEF Stages, TcpOnly, Established
  <2>3. CASE os = "tcp"
    <3>1. Goto(r, "tcp")
      BY Zenon, <2>1, <2>3
    <3> QED BY Zenon, <1>0, <2>1, <2>3, <3>1, GotoReach DEF Stages, UnixOnly, Established
  <2> QED BY Zenon, <1>0, <2>2, <2>3
<1>4. CASE RemoveRule(r)
  <2>1. PICK a \in {"probe", "removed"} : Goto(r, a)
    BY Zenon, <1>4 DEF RemoveRule
  <2>2. prep[r].at \notin Over /\ os = "unix"
    BY Zenon, <1>1, <1>4 DEF RemoveRule, Over, UnixOnly
  <2> QED BY Zenon, <1>0, <2>1, <2>2, GotoReach DEF Stages, TcpOnly, UnixOnly, Established
<1>5. CASE RulesReload(r)
  <2>1. \/ prep[r].at = "dropped" /\ Goto(r, "none")
        \/ prep[r].at = "removed" /\ Goto(r, "probe")
        \/ prep[r].at \in {"again", "activate"} /\ Goto(r, "ready")
    <3>1. /\ DOMAIN AfterReload = {"dropped", "removed", "again", "activate"}
          /\ AfterReload["dropped"] = "none" /\ AfterReload["removed"] = "probe"
          /\ AfterReload["again"] = "ready" /\ AfterReload["activate"] = "ready"
      BY Zenon DEF AfterReload
    <3>2. prep[r].at \in DOMAIN AfterReload /\ Goto(r, AfterReload[prep[r].at])
      BY Zenon, <1>5 DEF RulesReload
    <3> QED
      BY <3>1, <3>2, Zenon
  <2>2. PICK a \in {"none", "probe", "ready"} :
          Goto(r, a) /\ prep[r].at \notin Over /\ (a = "probe" => prep[r].at = "removed")
    BY Zenon, <2>1 DEF Over
  <2>3. a = "probe" => os = "unix"
    BY Zenon, <1>1, <2>2 DEF UnixOnly
  <2> QED BY Zenon, <1>0, <2>2, <2>3, GotoReach DEF Stages, TcpOnly, UnixOnly, Established
<1>6. CASE ProbeUnix(r)
  <2>1. PICK a \in {"ready", "spawn"} : Goto(r, a)
    BY Zenon, <1>6 DEF ProbeUnix
  <2>2. prep[r].at \notin Over
    BY Zenon, <1>6 DEF ProbeUnix, Over
  <2> QED BY Zenon, <1>0, <2>1, <2>2, GotoReach DEF Stages, TcpOnly, UnixOnly, Established
<1>7. CASE WriteRule(r)
  <2>1. PICK a \in {"again", "activate"} : Goto(r, a)
    BY Zenon, <1>7 DEF WriteRule
  <2>2. /\ prep[r].at \notin Over /\ os = "tcp" /\ prep[r].at \in Established
        /\ rule_disk' = prep[r].port
    BY Zenon, <1>1, <1>7 DEF WriteRule, Over, TcpOnly, Established
  <2>3. Solo(r) => \A b \in Listening(prep[r].port) : broker[b].token = prep[r].token
    BY Zenon, <2>2 DEF Solo
  <2> QED BY Zenon, <1>0, <2>1, <2>2, <2>3, GotoReach DEF Stages, UnixOnly
<1>8. CASE Answered(r)
  <2>1. /\ prep[r].at \notin Over /\ Healthy(prep[r].port, prep[r].token)
        /\ Goto(r, IF os = "unix" THEN "pid" ELSE "port")
    BY Zenon, <1>8 DEF Answered, Over
  <2>2. CASE os = "unix"
    <3>1. socket \in Brokers /\ broker[socket].token = prep[r].token
      BY Zenon, <2>1, <2>2 DEF Healthy, Reached
    <3>2. Goto(r, "pid")
      BY Zenon, <2>1, <2>2
    <3> QED BY Zenon, <1>0, <2>1, <2>2, <3>1, <3>2, GotoReach DEF Stages, TcpOnly, UnixOnly
  <2>3. CASE os = "tcp"
    <3>1. \A b \in Listening(prep[r].port) : broker[b].token = prep[r].token
      BY Zenon, <1>0, <2>1, <2>3, OneAnswers
    <3>2. Goto(r, "port")
      BY Zenon, <2>1, <2>3
    <3> QED BY Zenon, <1>0, <2>1, <2>3, <3>1, <3>2, GotoReach DEF Stages, UnixOnly
  <2> QED BY Zenon, <1>0, <2>2, <2>3
<1>9. CASE WritePort(r)
  <2>1. Goto(r, "pid") /\ prep[r].at = "port" /\ prep[r].at \notin Over /\ os = "tcp"
    BY Zenon, <1>1, <1>9 DEF WritePort, Over, TcpOnly
  <2>2. Solo(r) => \A b \in Listening(prep[r].port) : broker[b].token = prep[r].token
    BY Zenon, <2>1 DEF Solo, Established
  <2> QED BY Zenon, <1>0, <2>1, <2>2, GotoReach DEF Stages, TcpOnly, UnixOnly
<1>10. CASE WritePid(r)
  <2>1. /\ Goto(r, IF os = "unix" THEN "ready" ELSE "rule")
        /\ prep[r].at = "pid" /\ prep[r].at \notin Over
    BY Zenon, <1>10 DEF WritePid, Over
  <2>2. CASE os = "unix"
    <3>1. Goto(r, "ready")
      BY Zenon, <2>1, <2>2
    <3> QED
      BY Zenon, <1>0, <2>1, <3>1, GotoReach DEF Stages, TcpOnly, UnixOnly, Established
  <2>3. CASE os = "tcp"
    <3>1. Goto(r, "rule")
      BY Zenon, <2>1, <2>3
    <3>2. Solo(r) => \A b \in Listening(prep[r].port) : broker[b].token = prep[r].token
      BY Zenon, <2>1, <2>3 DEF Solo, Established
    <3> QED BY Zenon, <1>0, <2>1, <2>3, <3>1, <3>2, GotoReach DEF Stages, UnixOnly
  <2> QED BY Zenon, <1>0, <2>2, <2>3
<1>11. CASE Undo(r)
  <2>1. Goto(r, "undone") /\ prep[r].at \notin Over
    BY Zenon, <1>11 DEF Undo, Over
  <2> QED BY Zenon, <1>0, <2>1, GotoReach DEF Stages, TcpOnly, UnixOnly, Established
<1> QED
  BY Zenon, <1>2, <1>3, <1>4, <1>5, <1>6, <1>7, <1>8, <1>9, <1>10, <1>11

\* A run that fails or starts over: its broker is killed first.
LEMMA FailedStepReach ==
  ASSUME NEW r \in Runs, PrepInv, ReachInv, WaitExpired(r) \/ StepFails(r) \/ Undone(r)
  PROVE  ReachInv'
<1>0. PrepTypes /\ UNCHANGED <<os, socket>>
  BY Zenon DEF PrepInv, WaitExpired, StepFails, Undone
<1>1. prep[r].at \notin Over
  BY Zenon DEF WaitExpired, StepFails, Undone, FailsAtOnce, FailsLate, Over
<1>2. PICK a \in {"spawn", "failed", "undo"} :
        Goto(r, a) /\ (GuardKills(r) \/ UNCHANGED broker)
  BY Zenon DEF WaitExpired, StepFails, Undone
<1>3. Fewer
  BY Zenon, <1>0, <1>2, GuardFewer DEF Fewer
<1> QED
  BY Zenon, <1>0, <1>1, <1>2, <1>3, GotoReach DEF Stages, TcpOnly, UnixOnly, Established

\* A step of r's own, while r prepares.
LEMMA OwnReach ==
  ASSUME NEW r \in Runs, ReachInv, prep[r].at \notin Over, UNCHANGED os, PortInv',
         \A q \in Runs : q # r => prep'[q] = prep[q],
         prep'[r].at \in TcpOnly => os = "tcp", prep'[r].at \in UnixOnly => os = "unix",
         Alone(r)' => Solo(r)'
  PROVE  ReachInv'
<1>1. OsInv'
  BY Zenon DEF ReachInv, OsInv
<1>2. \A q \in Runs : q # r => ~Alone(q)'
  BY Zenon, OthersOver
<1> QED BY Zenon, <1>1, <1>2 DEF ReachInv

\* Until its first spawn a run that is alone has no broker starting.
LEMMA NoneStarting ==
  ASSUME NEW r \in Runs, GuardInv, Solo(r), prep[r].broker = NoBroker, prep[r].at # "killed"
  PROVE  \A b \in Brokers : broker[b].state # "starting"
<1> SUFFICES ASSUME NEW b \in Brokers, broker[b].state = "starting" PROVE FALSE
  BY Zenon
<1>1. Lives(b) /\ broker[b].by = r
  BY Zenon DEF Lives, Solo
<1>2. prep[r].broker = b
  BY Zenon, <1>1 DEF GuardInv
<1> QED BY Zenon, <1>2, BrokersAreNamed

\* ensure_host_broker_running reads the token before it has spawned anything.
LEMMA ReadTokenReach ==
  ASSUME NEW r \in Runs, PrepInv, ReachInv, ReadToken(r) PROVE ReachInv'
<1> DEFINE a == IF token_file = NoToken THEN "mint" ELSE os
           t == IF token_file = NoToken THEN r ELSE token_file
           x == [prep[r] EXCEPT !.at = a]
           y == [x EXCEPT !.token = t]
<1>0. PrepTypes /\ GuardInv /\ os \in {"unix", "tcp"}
  BY Zenon DEF PrepInv, PrepTypes
<1>1. prep \in [Runs -> PrepRecords] /\ prep[r] \in PrepRecords
  BY Zenon, <1>0 DEF PrepTypes
<1>2. prep' = [prep EXCEPT ![r] = y]
  BY Zenon DEF ReadToken
<1>3. UNCHANGED <<os, broker, socket, rule_disk>>
  BY Zenon DEF ReadToken, Fixed
<1>4. prep[r].at = "load" /\ prep[r].broker = NoBroker /\ prep[r].at \notin Over
  BY Zenon, <1>0 DEF ReadToken, GuardInv, Over
<1>5. a \in {"mint", "unix", "tcp"} /\ (a # "mint" => a = os)
  BY Zenon, <1>0
<1> HIDE DEF a, t
<1>6. x \in PrepRecords /\ x.at = a /\ x.alone = prep[r].alone
  BY Zenon, <1>1, <1>5 DEF PrepRecords, Stages
<1> HIDE DEF x
<1>7. y.at = a /\ y.alone = prep[r].alone
  BY Zenon, <1>6 DEF PrepRecords
<1> HIDE DEF y
<1>8. /\ prep'[r].at = a /\ prep'[r].alone = prep[r].alone
      /\ \A q \in Runs : q # r => prep'[q] = prep[q]
  BY Zenon, <1>1, <1>2, <1>7
<1>9. Alone(r)' => Solo(r)'
  <2> SUFFICES ASSUME Alone(r)' PROVE Solo(r)'
    OBVIOUS
  <2>1. Solo(r)
    BY Zenon, <1>4, <1>8 DEF ReachInv, Alone
  <2>2. \A b \in Brokers : broker'[b].state # "starting"
    BY Zenon, <1>0, <1>3, <1>4, <2>1, NoneStarting
  <2>3. \A q \in Runs : q # r => prep'[q].at \in Over
    BY Zenon, <1>8, <2>1 DEF Solo
  <2> QED BY Zenon, <1>5, <1>8, <2>2, <2>3 DEF Solo, Established
<1>10. PortInv'
  BY Zenon, <1>3 DEF ReachInv, PortInv
<1>11. /\ prep'[r].at \in TcpOnly => os = "tcp"
       /\ prep'[r].at \in UnixOnly => os = "unix"
  BY Zenon, <1>5, <1>8 DEF TcpOnly, UnixOnly
<1> QED BY Zenon, <1>3, <1>4, <1>8, <1>9, <1>10, <1>11, OwnReach

\* ensure_tcp_host_broker_running: the port on file answers with the token, or a
\* broker is spawned.
LEMMA ProbePortReach ==
  ASSUME NEW r \in Runs, PrepInv, ReachInv, ProbePort(r) PROVE ReachInv'
<1>0. PrepTypes /\ GuardInv /\ PortInv
  BY Zenon DEF PrepInv, ReachInv
<1>1. /\ prep[r].at = "tcp" /\ prep[r].at \notin Over /\ os = "tcp"
      /\ UNCHANGED <<os, broker, socket>>
  BY Zenon DEF ProbePort, Over, ReachInv, OsInv, TcpOnly, Files, Fixed
<1>2. CASE Goto(r, "spawn")
  <2>1. Fewer
    BY Zenon, <1>1 DEF Fewer
  <2> QED
    BY Zenon, <1>0, <1>1, <1>2, <2>1, GotoReach DEF Stages, TcpOnly, UnixOnly, Established
<1>3. CASE /\ Healthy(port_file, prep[r].token)
           /\ prep' = [prep EXCEPT ![r].at = "rewrite", ![r].port = port_file]
  <2> DEFINE x == [prep[r] EXCEPT !.at = "rewrite"]
             y == [x EXCEPT !.port = port_file]
  <2>1. prep \in [Runs -> PrepRecords] /\ prep[r] \in PrepRecords
    BY Zenon, <1>0 DEF PrepTypes
  <2>2. prep' = [prep EXCEPT ![r] = y]
    BY Zenon, <1>3
  <2>3. /\ x \in PrepRecords /\ x.at = "rewrite" /\ x.token = prep[r].token
        /\ x.alone = prep[r].alone
    BY Zenon, <2>1 DEF PrepRecords, Stages
  <2> HIDE DEF x
  <2>4. /\ y.at = "rewrite" /\ y.token = prep[r].token /\ y.alone = prep[r].alone
        /\ y.port = port_file
    BY Zenon, <2>3 DEF PrepRecords
  <2> HIDE DEF y
  <2>5. /\ prep'[r].at = "rewrite" /\ prep'[r].token = prep[r].token
        /\ prep'[r].alone = prep[r].alone /\ prep'[r].port = port_file
        /\ \A q \in Runs : q # r => prep'[q] = prep[q]
    BY Zenon, <2>1, <2>2, <2>4
  <2>6. \A b \in Listening(port_file) : broker[b].token = prep[r].token
    BY Zenon, <1>0, <1>1, <1>3, OneAnswers
  <2>7. Alone(r)' => Solo(r)'
    <3> SUFFICES ASSUME Alone(r)' PROVE Solo(r)'
      OBVIOUS
    <3>1. Solo(r)
      BY Zenon, <1>1, <2>5 DEF ReachInv, Alone
    <3>2. \A q \in Runs : q # r => prep'[q].at \in Over
      BY Zenon, <2>5, <3>1 DEF Solo
    <3>3. \A b \in Brokers : broker'[b].state = "starting" =>
            broker'[b].by = r /\ broker'[b].token = prep'[r].token
      BY Zenon, <1>1, <2>5, <3>1 DEF Solo
    <3> QED BY Zenon, <1>1, <2>5, <2>6, <3>2, <3>3 DEF Solo, Listening
  <2>8. PortInv'
    BY Zenon, <1>0, <1>1 DEF PortInv
  <2> QED BY Zenon, <1>1, <2>5, <2>7, <2>8, OwnReach DEF UnixOnly
<1> QED BY Zenon, <1>2, <1>3 DEF ProbePort

\* A broker that a run alone spawns is the only one that starts, with the run's token.
LEMMA StartBrokerReach ==
  ASSUME NEW r \in Runs, NEW p \in Ports \cup {NoPort}, PrepInv, ReachInv, StartBroker(r, p)
  PROVE  ReachInv'
<1> DEFINE n == NewBroker
           m == [state |-> "starting", token |-> prep[r].token, port |-> p, by |-> r]
           w == [prep[r] EXCEPT !.at = "wait"]
           x == [w EXCEPT !.broker = n]
           y == [x EXCEPT !.port = p]
           z == [y EXCEPT !.tries = @ + 1]
<1>0. PrepTypes /\ PortInv
  BY Zenon DEF PrepInv, ReachInv
<1>1. prep \in [Runs -> PrepRecords] /\ prep[r] \in PrepRecords
  BY Zenon, <1>0 DEF PrepTypes
<1>2. n \in Brokers /\ broker[n].state = "unused" /\ broker \in [Brokers -> BrokerRecords]
  BY Zenon, <1>0 DEF StartBroker, NewBroker, Unused, PrepTypes
<1>3. prep[r].at = "spawn" /\ UNCHANGED <<os, socket>>
  BY Zenon DEF StartBroker, Fixed
<1>4. broker' = [broker EXCEPT ![n] = m] /\ prep' = [prep EXCEPT ![r] = z]
  BY Zenon DEF StartBroker
<1>5. m.state = "starting" /\ m.token = prep[r].token /\ m.by = r
  BY Zenon
<1> HIDE DEF n, m
<1>6. w \in PrepRecords /\ w.at = "wait" /\ w.token = prep[r].token /\ w.alone = prep[r].alone
  BY Zenon, <1>1 DEF PrepRecords, Stages
<1> HIDE DEF w
<1>7. x \in PrepRecords /\ x.at = "wait" /\ x.token = prep[r].token /\ x.alone = prep[r].alone
  BY Zenon, <1>2, <1>6 DEF PrepRecords
<1> HIDE DEF x
<1>8. y \in PrepRecords /\ y.at = "wait" /\ y.token = prep[r].token /\ y.alone = prep[r].alone
  BY Zenon, <1>7 DEF PrepRecords
<1> HIDE DEF y
<1>9. z.at = "wait" /\ z.token = prep[r].token /\ z.alone = prep[r].alone
  BY Zenon, <1>8 DEF PrepRecords
<1> HIDE DEF z
<1>10. /\ prep'[r].at = "wait" /\ prep'[r].token = prep[r].token
       /\ prep'[r].alone = prep[r].alone
       /\ \A q \in Runs : q # r => prep'[q] = prep[q]
  BY Zenon, <1>1, <1>4, <1>9
<1>11. broker'[n] = m /\ \A e \in Brokers : e # n => broker'[e] = broker[e]
  BY Zenon, <1>2, <1>4
<1>12. PortInv'
  <2>1. \A e \in Brokers : broker'[e].state = "serving" => e # n
    BY Zenon, <1>5, <1>11
  <2> QED BY Zenon, <1>0, <1>3, <1>11, <2>1 DEF PortInv
<1>13. Alone(r)' => Solo(r)'
  <2> SUFFICES ASSUME Alone(r)' PROVE Solo(r)'
    OBVIOUS
  <2>1. Solo(r)
    BY Zenon, <1>3, <1>10 DEF ReachInv, Alone, Over
  <2>2. \A q \in Runs : q # r => prep'[q].at \in Over
    BY Zenon, <1>10, <2>1 DEF Solo
  <2>3. \A b \in Brokers : broker'[b].state = "starting" =>
          broker'[b].by = r /\ broker'[b].token = prep'[r].token
    BY Zenon, <1>5, <1>10, <1>11, <2>1 DEF Solo
  <2> QED BY Zenon, <1>10, <2>2, <2>3 DEF Solo, Established
<1> QED BY Zenon, <1>3, <1>10, <1>12, <1>13, OwnReach DEF Over, TcpOnly, UnixOnly

\* What the beginning of a preparation writes down.
LEMMA BeginIs ==
  ASSUME NEW r \in Runs, PrepTypes, Begin(r)
  PROVE  /\ prep'[r].at = "load" /\ (prep'[r].alone <=> \A p \in Runs \ {r} : ~Preparing(p))
         /\ \A q \in Runs : q # r => prep'[q].at = prep[q].at /\ ~prep'[q].alone
<1>1. PICK g \in Flag : g = (\A p \in Runs \ {r} : ~Preparing(p))
  BY Zenon DEF Flag
<1> DEFINE x == [NoPrep EXCEPT !.at = "load"]
           y == [x EXCEPT !.alone = g]
           z(q) == [prep[q] EXCEPT !.alone = FALSE]
<1>2. prep' = [q \in Runs |-> IF q = r THEN y ELSE z(q)]
  BY Zenon, <1>1 DEF Begin
<1>3. x \in PrepRecords /\ x.at = "load"
  <2>1. NoPrep \in PrepRecords
    BY DEF NoPrep, PrepRecords, Stages, Flag
  <2> QED BY Zenon, <2>1 DEF PrepRecords, Stages
<1> HIDE DEF x
<1>4. y.at = "load" /\ y.alone = g
  BY Zenon, <1>3 DEF PrepRecords
<1> HIDE DEF y
<1>5. ASSUME NEW q \in Runs PROVE z(q).at = prep[q].at /\ z(q).alone = FALSE
  <2>1. prep[q] \in PrepRecords
    BY Zenon DEF PrepTypes
  <2> QED BY Zenon, <2>1 DEF PrepRecords
<1> HIDE DEF z
<1> QED BY Zenon, <1>1, <1>2, <1>4, <1>5

\* A run that begins alone finds no broker about to bind.
LEMMA BeginReach ==
  ASSUME NEW r \in Runs, PrepInv, ReachInv, Begin(r) PROVE ReachInv'
<1>0. PrepTypes /\ GuardInv
  BY Zenon DEF PrepInv
<1>1. /\ prep[r].at = "idle" /\ prep[r].broker = NoBroker
      /\ UNCHANGED <<os, broker, socket>>
  BY Zenon, <1>0 DEF Begin, GuardInv, serverVars
<1>2. /\ prep'[r].at = "load" /\ (prep'[r].alone <=> \A p \in Runs \ {r} : ~Preparing(p))
      /\ \A q \in Runs : q # r => prep'[q].at = prep[q].at /\ ~prep'[q].alone
  BY Zenon, <1>0, BeginIs
<1>3. OsInv' /\ PortInv'
  BY Zenon, <1>1, <1>2 DEF ReachInv, OsInv, PortInv, TcpOnly, UnixOnly
<1>4. ASSUME Alone(r)' PROVE Solo(r)'
  <2>1. \A q \in Runs : q # r => ~Preparing(q)
    BY Zenon, <1>2, <1>4 DEF Alone
  <2>2. \A q \in Runs : q # r => prep'[q].at \in Over
    BY Zenon, <1>2, <2>1 DEF Preparing
  <2>3. ASSUME NEW b \in Brokers, broker[b].state = "starting" PROVE FALSE
    <3>1. /\ broker[b].by \in Runs
          /\ prep[broker[b].by].at = "killed" \/ prep[broker[b].by].broker = b
      BY Zenon, <1>0, <2>3 DEF GuardInv, Lives
    <3>2. broker[b].by # r
      BY Zenon, <1>1, <3>1, BrokersAreNamed
    <3> QED BY Zenon, <2>1, <2>3, <3>1, <3>2 DEF Preparing
  <2> QED BY Zenon, <1>1, <1>2, <2>2, <2>3 DEF Solo, Established
<1> QED BY Zenon, <1>2, <1>3, <1>4 DEF ReachInv, Alone

\* bind_broker_socket and serve_tcp: whoever binds while a run prepares alone has the
\* run's token, and finds the port free.
LEMMA BindReach ==
  ASSUME NEW b \in Brokers, PrepInv, ReachInv, Bind(b) PROVE ReachInv'
<1>0. PrepTypes /\ os \in {"unix", "tcp"} /\ OsInv /\ PortInv
  BY Zenon DEF PrepInv, PrepTypes, ReachInv
<1>a. PICK fails \in BindFails(b) :
        /\ broker' = [broker EXCEPT ![b].state = IF fails THEN "dead" ELSE "serving"]
        /\ socket' = IF os = "unix" /\ ~fails THEN b ELSE socket
  BY Zenon DEF Bind
<1> DEFINE s == IF fails THEN "dead" ELSE "serving"
<1>1. /\ broker[b].state = "starting" /\ broker' = [broker EXCEPT ![b].state = s]
      /\ socket' \in {socket, b} /\ UNCHANGED <<os, prep, rule_disk>>
  BY Zenon, <1>a DEF Bind, Files, Fixed
<1>2. s = "serving" => os = "unix" \/ Listening(broker[b].port) = {}
  BY Zenon, <1>0, <1>a DEF BindFails
<1>3. s \in {"dead", "serving"}
  BY Zenon
<1> HIDE DEF s
<1>4. broker'[b].state = s /\ \A e \in Brokers : e # b => broker'[e] = broker[e]
  BY Zenon, <1>0, <1>1, StateKeeps
<1>5. \A e \in Brokers : /\ broker'[e].token = broker[e].token
                         /\ broker'[e].port = broker[e].port
                         /\ broker'[e].by = broker[e].by
  BY Zenon, <1>0, <1>1, StateKeeps
<1>6. PortInv'
  <2> SUFFICES ASSUME os = "tcp", NEW d \in Brokers, NEW e \in Brokers,
                      broker'[d].state = "serving", broker'[e].state = "serving",
                      broker'[d].port = broker'[e].port, d # e
               PROVE  FALSE
    BY Zenon, <1>1 DEF PortInv
  <2>1. broker[d].port = broker[e].port
    BY Zenon, <1>5
  <2>2. CASE d # b /\ e # b
    BY Zenon, <1>0, <1>4, <2>1, <2>2 DEF PortInv
  <2>3. CASE d = b
    <3>1. Listening(broker[b].port) = {}
      BY Zenon, <1>2, <1>4, <2>3
    <3> QED BY Zenon, <1>4, <2>1, <2>3, <3>1 DEF Listening
  <2>4. CASE e = b
    <3>1. Listening(broker[b].port) = {}
      BY Zenon, <1>2, <1>4, <2>4
    <3> QED BY Zenon, <1>4, <2>1, <2>4, <3>1 DEF Listening
  <2> QED BY Zenon, <2>2, <2>3, <2>4
<1>7. OsInv'
  BY Zenon, <1>0, <1>1 DEF OsInv
<1>8. ASSUME NEW r \in Runs, Alone(r)' PROVE Solo(r)'
  <2>1. Solo(r)
    BY Zenon, <1>1, <1>8 DEF ReachInv, Alone
  <2>2. broker[b].by = r /\ broker[b].token = prep[r].token
    BY Zenon, <1>1, <2>1 DEF Solo
  <2>3. \A q \in Runs : q # r => prep'[q].at \in Over
    BY Zenon, <1>1, <2>1 DEF Solo
  <2>4. \A e \in Brokers : broker'[e].state = "starting" =>
          broker'[e].by = r /\ broker'[e].token = prep'[r].token
    BY Zenon, <1>1, <1>3, <1>4, <1>5, <2>1 DEF Solo
  <2>5. os' = "unix" /\ prep'[r].at = "pid" =>
          socket' \in Brokers /\ broker'[socket'].token = prep'[r].token
    BY Zenon, <1>1, <1>5, <2>1, <2>2 DEF Solo
  <2>6. ASSUME os' = "tcp", prep'[r].at \in Established,
               NEW e \in Listening(prep[r].port)'
        PROVE  broker'[e].token = prep'[r].token
    <3>1. /\ e \in Brokers /\ broker'[e].state = "serving"
          /\ broker'[e].port = prep'[r].port
      BY Zenon, <2>6 DEF Listening
    <3>2. CASE e = b
      BY Zenon, <1>1, <1>5, <2>2, <3>2
    <3>3. CASE e # b
      <4>1. e \in Listening(prep[r].port)
        BY Zenon, <1>1, <1>4, <3>1, <3>3 DEF Listening
      <4> QED BY Zenon, <1>1, <1>5, <2>1, <2>6, <3>1, <4>1 DEF Solo
    <3> QED BY Zenon, <3>2, <3>3
  <2>7. prep'[r].at \in {"again", "activate"} => rule_disk' = prep'[r].port
    BY Zenon, <1>1, <2>1 DEF Solo
  <2> QED BY Zenon, <2>3, <2>4, <2>5, <2>6, <2>7 DEF Solo
<1> QED BY Zenon, <1>6, <1>7, <1>8 DEF ReachInv

\* A broker dies.
LEMMA DeathReach ==
  ASSUME NEW b \in Brokers, PrepInv, ReachInv, BrokerDies(b) PROVE ReachInv'
<1>0. PrepTypes
  BY Zenon DEF PrepInv
<1>1. /\ broker' = [broker EXCEPT ![b].state = "dead"]
      /\ UNCHANGED <<os, prep, socket, rule_disk>>
  BY Zenon DEF BrokerDies, Files
<1>2. broker'[b].state = "dead" /\ \A e \in Brokers : e # b => broker'[e] = broker[e]
  BY Zenon, <1>0, <1>1, StateKeeps
<1>3. \A e \in Brokers : /\ broker'[e].token = broker[e].token
                         /\ broker'[e].port = broker[e].port
                         /\ broker'[e].by = broker[e].by
  BY Zenon, <1>0, <1>1, StateKeeps
<1>4. Fewer
  BY Zenon, <1>2, <1>3 DEF Fewer
<1>5. OsInv' /\ PortInv'
  BY Zenon, <1>1, <1>4, FewerPorts DEF ReachInv, OsInv
<1>6. ASSUME NEW r \in Runs, Alone(r)' PROVE Solo(r)'
  <2>1. Solo(r)
    BY Zenon, <1>1, <1>6 DEF ReachInv, Alone
  <2>2. \A e \in Brokers : broker'[e].state = "starting" => broker[e].state = "starting"
    BY Zenon, <1>4 DEF Fewer
  <2>3. \A e \in Brokers : broker'[e].state = "serving" => broker[e].state = "serving"
    BY Zenon, <1>4 DEF Fewer
  <2>4. \A q \in Runs : q # r => prep'[q].at \in Over
    BY Zenon, <1>1, <2>1 DEF Solo
  <2>5. \A e \in Brokers : broker'[e].state = "starting" =>
          broker'[e].by = r /\ broker'[e].token = prep'[r].token
    BY Zenon, <1>1, <1>3, <2>1, <2>2 DEF Solo
  <2>6. os' = "unix" /\ prep'[r].at = "pid" =>
          socket' \in Brokers /\ broker'[socket'].token = prep'[r].token
    BY Zenon, <1>1, <1>3, <2>1 DEF Solo
  <2>7. ASSUME os' = "tcp", prep'[r].at \in Established,
               NEW e \in Listening(prep[r].port)'
        PROVE  broker'[e].token = prep'[r].token
    <3>1. e \in Brokers /\ e \in Listening(prep[r].port)
      BY Zenon, <1>1, <1>3, <2>3, <2>7 DEF Listening
    <3> QED BY Zenon, <1>1, <1>3, <2>1, <2>7, <3>1 DEF Solo
  <2>8. prep'[r].at \in {"again", "activate"} => rule_disk' = prep'[r].port
    BY Zenon, <1>1, <2>1 DEF Solo
  <2> QED BY Zenon, <2>4, <2>5, <2>6, <2>7, <2>8 DEF Solo
<1> QED BY Zenon, <1>5, <1>6 DEF ReachInv

\* One step per action of the preparation, the brokers and the commands.
LEMMA ReachStep ==
  PrepInv /\ ReachInv /\ [Next]_vars => ReachInv'
<1> SUFFICES ASSUME PrepInv, ReachInv, [Next]_vars PROVE ReachInv'
  OBVIOUS
<1>1. ASSUME UNCHANGED <<os, broker, prep, socket, rule_disk>> PROVE ReachInv'
  <2>1. OsInv' /\ PortInv'
    BY Zenon, <1>1 DEF ReachInv, OsInv, PortInv
  <2>2. ASSUME NEW r \in Runs, Alone(r)' PROVE Solo(r)'
    <3>1. Solo(r)
      BY Zenon, <1>1, <2>2 DEF ReachInv, Alone
    <3>2. Listening(prep[r].port)' = Listening(prep[r].port)
      BY Zenon, <1>1 DEF Listening
    <3> QED BY Zenon, <1>1, <3>1, <3>2 DEF Solo
  <2> QED BY Zenon, <2>1, <2>2 DEF ReachInv
<1>2. CASE UNCHANGED vars
  BY Zenon, <1>1, <1>2 DEF vars, hostVars, serverVars, prepVars
<1>3. CASE Commands
  BY Zenon, <1>1, <1>3 DEF Commands, Rest, serverVars
<1>4. ASSUME NEW r \in Runs, AskForBroker(r) PROVE ReachInv'
  BY Zenon, <1>4, BeginReach DEF AskForBroker
<1>5. ASSUME NEW r \in Runs, KillCommand(r), UNCHANGED Rest PROVE ReachInv'
  <2>1. UNCHANGED <<os, broker, socket, rule_disk>>
    BY Zenon, <1>5 DEF Rest, serverVars
  <2>2. CASE prep[r].at \in Over
    BY Zenon, <1>1, <1>5, <2>1, <2>2 DEF KillCommand
  <2>3. CASE prep[r].at \notin Over
    <3>1. Goto(r, "killed") /\ Fewer /\ PrepTypes
      BY Zenon, <1>5, <2>1, <2>3 DEF KillCommand, Fewer, PrepInv
    <3> QED
      BY Zenon, <2>1, <2>3, <3>1, GotoReach DEF Stages, TcpOnly, UnixOnly, Established
  <2> QED BY Zenon, <2>2, <2>3
<1>6. ASSUME NEW r \in Runs, PrepareStep(r) PROVE ReachInv'
  <2>1. \/ ReadToken(r) \/ ProbePort(r)
        \/ \E p \in Ports \cup {NoPort} : StartBroker(r, p)
        \/ WaitExpired(r) \/ StepFails(r) \/ Undone(r)
        \/ NothingDeclared(r) \/ WriteToken(r) \/ RemoveRule(r) \/ RulesReload(r)
        \/ ProbeUnix(r) \/ WriteRule(r) \/ Answered(r) \/ WritePort(r) \/ WritePid(r)
        \/ Undo(r)
    BY Zenon, <1>6 DEF PrepareStep, SpawnUnix, SpawnTcp
  <2> QED
    BY Zenon, <2>1, ReadTokenReach, ProbePortReach, StartBrokerReach, FailedStepReach,
       PlainStepReach
<1>7. ASSUME NEW b \in Brokers, Bind(b) \/ BrokerDies(b) PROVE ReachInv'
  BY Zenon, <1>7, BindReach, DeathReach
<1>8. CASE Serve \/ EditResources
  BY Zenon, <1>1, <1>8, ServeSpares
<1> QED
  BY Zenon, <1>2, <1>3, <1>4, <1>5, <1>6, <1>7, <1>8 DEF Next, Host

\* A reload leads from one stage to another.
LEMMA ReloadStages == \A d \in DOMAIN AfterReload : AfterReload[d] \in Stages
<1>1. /\ DOMAIN AfterReload = {"dropped", "removed", "again", "activate"}
      /\ AfterReload["dropped"] = "none" /\ AfterReload["removed"] = "probe"
      /\ AfterReload["again"] = "ready" /\ AfterReload["activate"] = "ready"
  BY Zenon DEF AfterReload
<1> QED BY Zenon, <1>1 DEF Stages

\* A run gets ready only by a probe of the socket, by writing down the pid of the broker
\* on it, or by the reload that brings its rule into force.
LEMMA ReadySteps ==
  ASSUME PrepInv, NEW r \in Runs, [Next]_vars, prep[r].at # "ready", prep'[r].at = "ready"
  PROVE  /\ ProbeUnix(r) \/ WritePid(r) \/ RulesReload(r)
         /\ prep'[r].token = prep[r].token /\ prep'[r].port = prep[r].port
<1>0. PrepTypes /\ os \in {"unix", "tcp"}
  BY Zenon DEF PrepInv, PrepTypes
<1>1. prep' # prep
  BY Zenon
<1>2. ~AskForBroker(r)
  BY Zenon, <1>0, BeginIs DEF AskForBroker
<1>3. \A q \in Runs : q # r => ~AskForBroker(q)
  BY Zenon, <1>0, BeginIs DEF AskForBroker
<1>4. ASSUME NEW q \in Runs, NEW a \in Stages, Goto(q, a) PROVE q = r /\ a = "ready"
  BY Zenon, <1>0, <1>4, GotoMoved DEF Moved
<1>5. \A q \in Runs : ~KillCommand(q)
  BY Zenon, <1>1, <1>4 DEF KillCommand, Stages
<1>6. PICK q \in Runs : PrepareStep(q)
  <2>1. ~Commands
    BY Zenon, <1>1 DEF Commands
  <2>2. ~(\E b \in Brokers : Bind(b) \/ BrokerDies(b))
    BY Zenon, <1>1 DEF Bind, BrokerDies
  <2>3. ~Serve /\ ~EditResources
    BY Zenon, <1>1, ServeSpares
  <2>4. ~UNCHANGED vars
    BY Zenon, <1>1 DEF vars, hostVars, prepVars
  <2> QED BY Zenon, <1>2, <1>3, <1>5, <2>1, <2>2, <2>3, <2>4 DEF Next, Host
<1>7. ASSUME NEW y, prep' = [prep EXCEPT ![q] = y], y.at # "ready" PROVE FALSE
  <2>1. prep \in [Runs -> PrepRecords]
    BY Zenon, <1>0 DEF PrepTypes
  <2> QED BY Zenon, <1>7, <2>1
<1>8. ~ReadToken(q)
  <2> SUFFICES ASSUME ReadToken(q) PROVE FALSE
    OBVIOUS
  <2> DEFINE a == IF token_file = NoToken THEN "mint" ELSE os
             t == IF token_file = NoToken THEN q ELSE token_file
             x == [prep[q] EXCEPT !.at = a]
             y == [x EXCEPT !.token = t]
  <2>1. prep' = [prep EXCEPT ![q] = y]
    BY Zenon DEF ReadToken
  <2>2. a \in {"mint", "unix", "tcp"} /\ prep[q] \in PrepRecords
    BY Zenon, <1>0 DEF PrepTypes
  <2> HIDE DEF a, t
  <2>3. x \in PrepRecords /\ x.at = a
    BY Zenon, <2>2 DEF PrepRecords, Stages
  <2> HIDE DEF x
  <2>4. y.at = a
    BY Zenon, <2>3 DEF PrepRecords
  <2> HIDE DEF y
  <2> QED BY Zenon, <1>7, <2>1, <2>2, <2>4
<1>9. ~ProbePort(q)
  <2> SUFFICES ASSUME ProbePort(q) PROVE FALSE
    OBVIOUS
  <2> DEFINE x == [prep[q] EXCEPT !.at = "rewrite"]
             y == [x EXCEPT !.port = port_file]
  <2>1. prep' = [prep EXCEPT ![q] = y]
    BY Zenon, <1>4 DEF ProbePort, Stages
  <2>2. prep[q] \in PrepRecords
    BY Zenon, <1>0 DEF PrepTypes
  <2>3. x \in PrepRecords /\ x.at = "rewrite"
    BY Zenon, <2>2 DEF PrepRecords, Stages
  <2> HIDE DEF x
  <2>4. y.at = "rewrite"
    BY Zenon, <2>3 DEF PrepRecords
  <2> HIDE DEF y
  <2> QED BY Zenon, <1>7, <2>1, <2>4
<1>10. ~(\E p : StartBroker(q, p))
  <2> SUFFICES ASSUME NEW p, StartBroker(q, p) PROVE FALSE
    BY Zenon
  <2> DEFINE w == [prep[q] EXCEPT !.at = "wait"]
             x == [w EXCEPT !.broker = NewBroker]
             y == [x EXCEPT !.port = p]
             z == [y EXCEPT !.tries = @ + 1]
  <2>1. prep' = [prep EXCEPT ![q] = z]
    BY Zenon DEF StartBroker
  <2>2. prep[q] \in PrepRecords
    BY Zenon, <1>0 DEF PrepTypes
  <2>3. DOMAIN prep[q] = {"at", "token", "broker", "port", "tries", "alone"}
    BY Zenon, <2>2 DEF PrepRecords
  <2>4. z.at = "wait"
    BY Zenon, <2>3
  <2> HIDE DEF z
  <2> QED BY Zenon, <1>7, <2>1, <2>4
<1>11. ProbeUnix(q) \/ WritePid(q) \/ RulesReload(q)
  <2>1. ~(NothingDeclared(q) \/ WriteToken(q) \/ RemoveRule(q) \/ WriteRule(q)
          \/ Answered(q) \/ WritePort(q) \/ Undo(q))
    BY Zenon, <1>0, <1>4 DEF NothingDeclared, WriteToken, RemoveRule, WriteRule, Answered,
       WritePort, Undo, Stages
  <2>2. ~(WaitExpired(q) \/ StepFails(q) \/ Undone(q))
    BY Zenon, <1>4 DEF WaitExpired, StepFails, Undone, Stages
  <2> QED
    BY Zenon, <1>6, <1>8, <1>9, <1>10, <2>1, <2>2 DEF PrepareStep, SpawnUnix, SpawnTcp
<1>12. PICK a \in Stages : Goto(q, a)
  <2>1. RulesReload(q) => Goto(q, AfterReload[prep[q].at]) /\ prep[q].at \in DOMAIN AfterReload
    BY Zenon DEF RulesReload
  <2>2. \A d \in DOMAIN AfterReload : AfterReload[d] \in Stages
    BY Zenon, ReloadStages
  <2>3. ProbeUnix(q) \/ WritePid(q) =>
          Goto(q, "ready") \/ Goto(q, "spawn") \/ Goto(q, "rule")
    BY Zenon DEF ProbeUnix, WritePid
  <2>4. {"ready", "spawn", "rule"} \subseteq Stages
    BY Zenon DEF Stages
  <2> QED BY Zenon, <1>11, <2>1, <2>2, <2>3, <2>4
<1>13. q = r /\ a = "ready"
  BY Zenon, <1>4, <1>12
<1> QED
  BY Zenon, <1>0, <1>11, <1>12, <1>13, GotoMoved, GotoCarries DEF Moved

\* A run that was alone throughout has, when it gets ready, an address that answers.
LEMMA ReadyReach ==
  ASSUME PrepInv, ReachInv, NEW r \in Runs, [Next]_vars,
         prep[r].at # "ready", prep'[r].at = "ready", prep[r].alone
  PROVE  Reachable(r)'
<1>0. /\ ProbeUnix(r) \/ WritePid(r) \/ RulesReload(r)
      /\ prep'[r].token = prep[r].token /\ prep'[r].port = prep[r].port
      /\ PrepTypes /\ os \in {"unix", "tcp"}
  BY Zenon, ReadySteps DEF PrepInv, PrepTypes
<1>1. UNCHANGED <<os, broker, socket>>
  BY Zenon, <1>0 DEF ProbeUnix, WritePid, RulesReload, Fixed
<1>2. /\ prep[r].at \in TcpOnly => os = "tcp"
      /\ prep[r].at \in UnixOnly => os = "unix"
  BY Zenon DEF ReachInv, OsInv
<1>3. ASSUME NEW a \in Stages, Goto(r, a) PROVE a = "ready"
  BY Zenon, <1>0, <1>3, GotoMoved DEF Moved
<1>4. CASE ProbeUnix(r)
  <2>1. Healthy(NoPort, prep[r].token) /\ os = "unix"
    BY Zenon, <1>2, <1>3, <1>4 DEF ProbeUnix, Stages, UnixOnly
  <2>2. broker[socket].token = prep[r].token
    BY Zenon, <2>1 DEF Healthy, Reached
  <2> QED BY Zenon, <1>0, <1>1, <2>1, <2>2 DEF Reachable
<1>5. CASE WritePid(r)
  <2>1. prep[r].at = "pid" /\ prep[r].at \notin Over
    BY Zenon, <1>5 DEF WritePid, Over
  <2>2. os = "unix"
    BY Zenon, <1>0, <1>3, <1>5 DEF WritePid, Stages
  <2>3. broker[socket].token = prep[r].token
    BY Zenon, <2>1, <2>2 DEF ReachInv, Alone, Solo
  <2> QED BY Zenon, <1>0, <1>1, <2>2, <2>3 DEF Reachable
<1>6. CASE RulesReload(r)
  <2>1. prep[r].at \in {"again", "activate"}
    <3>1. /\ DOMAIN AfterReload = {"dropped", "removed", "again", "activate"}
          /\ AfterReload["dropped"] = "none" /\ AfterReload["removed"] = "probe"
      BY Zenon DEF AfterReload
    <3>2. prep[r].at \in DOMAIN AfterReload /\ Goto(r, AfterReload[prep[r].at])
      BY Zenon, <1>6 DEF RulesReload
    <3>3. \A d \in DOMAIN AfterReload : AfterReload[d] \in Stages
      BY Zenon, ReloadStages
    <3> QED BY Zenon, <1>3, <3>1, <3>2, <3>3
  <2>2. os = "tcp" /\ prep[r].at \notin Over /\ prep[r].at \in Established
    BY Zenon, <1>2, <2>1 DEF TcpOnly, Over, Established
  <2>3. Solo(r)
    BY Zenon, <2>2 DEF ReachInv, Alone
  <2>4. rule_live' = prep[r].port
    BY Zenon, <1>6, <2>1, <2>3 DEF RulesReload, Solo
  <2>5. \A b \in Listening(prep[r].port) : broker[b].token = prep[r].token
    BY Zenon, <2>2, <2>3 DEF Solo
  <2> QED BY Zenon, <1>0, <1>1, <2>2, <2>4, <2>5 DEF Reachable, Listening
<1> QED BY Zenon, <1>0, <1>4, <1>5, <1>6

\* "Host broker ready" is true when it is printed: for any number of runs, brokers,
\* ports and attempts, a preparation no other one overlapped ends with the socket, or
\* the port and the daemon's rule for it, leading to a broker with its token
\* (ensure_unix_host_broker_running, ensure_tcp_host_broker_running).
THEOREM ReadyRunsReach == Spec => ReadyIsReachable
<1>1. Init => ReachInv
  <2> SUFFICES ASSUME Init PROVE ReachInv
    OBVIOUS
  <2>1. /\ prep = [r \in Runs |-> NoPrep]
        /\ broker = [b \in Brokers |->
                       [state |-> "unused", token |-> NoToken, port |-> NoPort, by |-> NoToken]]
    BY Zenon DEF Init, HostInit
  <2>2. NoPrep.at = "idle"
    BY Zenon DEF NoPrep
  <2>3. (\A r \in Runs : prep[r].at = "idle") /\ \A b \in Brokers : broker[b].state = "unused"
    BY Zenon, <2>1, <2>2
  <2> QED BY Zenon, <2>3 DEF ReachInv, OsInv, PortInv, Alone, Over, TcpOnly, UnixOnly
<1>2. PrepInv /\ ReachInv /\ [Next]_vars =>
        [\A r \in Runs :
           prep[r].at # "ready" /\ prep'[r].at = "ready" /\ prep[r].alone =>
             Reachable(r)']_hostVars
  BY Zenon, ReadyReach
<1> QED BY <1>1, <1>2, ReachStep, PrepInvariant, PTL DEF Spec, ReadyIsReachable

=============================================================================
