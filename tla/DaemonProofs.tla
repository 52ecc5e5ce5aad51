---------------------------- MODULE DaemonProofs ----------------------------
(***************************************************************************)
(* Proofs about the daemon on its host.  About ControlPlane, for any       *)
(* networks, containers, calls and bounds: what the lifecycle mutex and    *)
(* the order of a handler's steps guarantee, whatever Docker does late.    *)
(* And about DaemonRuntime, for any number of daemons, CLI processes and   *)
(* projects: which process a socket leads to, who owns the grants in the   *)
(* table, what the CLI commands conclude and leave alone, and that the     *)
(* agent socket behaves as DaemonService describes.                        *)
(***************************************************************************)
EXTENDS ControlPlane, DaemonRuntime, TLAPS

-----------------------------------------------------------------------------
(* The invariant.                                                          *)

\* The operations that take the mutex, and who holds it.
Locking == {"up", "down", "mknet", "rmnet", "mkctr"}

Holds(h) == Op(h) \in Locking /\ job[h].at # "lock"

Jobs == [op : Ops \cup {"none"}, at : Places, net : Nets, sub : Subnets \cup {NoSub}, ctr : Ctrs]

DockerTypes ==
  /\ net \in [Nets -> Subnets \cup {NoSub}]
  /\ ctr \in [Ctrs -> {"absent", "created", "running", "exited", "removed"}]
  /\ on \in [Ctrs -> Nets]
  /\ late \subseteq Calls

HostTypes == {link, table, sysctl, halfUp} \subseteq BOOLEAN

JobTypes == job \in [ApiCalls -> Jobs]

HistoryTypes == acked \subseteq Nets \cup Ctrs /\ loose \subseteq Nets \cup Ctrs

LockInv ==
  /\ lock \in ApiCalls \cup {NoCall}
  /\ \A h \in ApiCalls : Holds(h) <=> lock = h
  /\ \A h \in ApiCalls : Op(h) \notin Locking => job[h].at \in {"idle", "inspect", "call"}
  /\ \A h \in ApiCalls : Op(h) = "none" => job[h].at = "idle"

\* A call that was given up makes or starts only what its caller was not told the
\* end of; and what it starts was made on the network it names.
LateOK(x) ==
  /\ x.do \in {"mknet", "rmnid"} => x.net \in loose
  /\ x.do \in {"mkctr", "start"} => x.ctr \in loose
  /\ x.do = "start" => on[x.ctr] = x.net /\ ctr[x.ctr] # "absent"

LateInv == \A x \in late : LateOK(x)

\* Nothing runs, and nothing will: what a bridge_down found.
Quiesced ==
  /\ \A c \in Ctrs : /\ ctr[c] \in {"absent", "created", "removed"}
                     /\ ctr[c] = "created" => c \in loose
  /\ \A x \in late : x.do = "start" => ctr[x.ctr] = "removed"

\* What the holder of the mutex knows at each of its steps.
JobOK(h) ==
  /\ Op(h) = "mknet" /\ job[h].at \in {"inspect", "subnet", "create", "verify", "rollback"} =>
       link /\ (table \/ halfUp)
  /\ At(h, "mknet", "create") /\ loose = {} => \A n \in Managed : ~Overlaps(job[h].sub, net[n])
  /\ Op(h) = "mkctr" /\ job[h].at \in {"mounts", "create", "start", "record", "rollback"} =>
       link \/ job[h].net \in loose
  /\ Op(h) = "mkctr" /\ job[h].at \in {"start", "record", "rollback"} =>
       on[job[h].ctr] = job[h].net /\ ctr[job[h].ctr] # "absent"
  /\ Op(h) = "down" /\ job[h].at \in {"networks", "unlink", "untable"} => Quiesced
  /\ Op(h) = "down" /\ job[h].at \in {"unlink", "untable"} => Managed \subseteq loose
  /\ At(h, "down", "untable") => ~link

JobInv == \A h \in ApiCalls : JobOK(h)

\* What was made is in the hands of the handler that made it.
MakesNet(h, n) == Op(h) = "mknet" /\ job[h].net = n /\ job[h].at \in {"verify", "rollback"}
MakesCtr(h, c) == Op(h) = "mkctr" /\ job[h].ctr = c /\ job[h].at \in {"start", "record", "rollback"}

MadeInv ==
  /\ \A n \in Managed : n \in acked \cup loose \/ \E h \in ApiCalls : MakesNet(h, n)
  /\ \A c \in Ctrs : Present(c) => c \in acked \cup loose \/ \E h \in ApiCalls : MakesCtr(h, c)

DisjointInv == loose = {} => \A m, n \in Managed : m # n => ~Overlaps(net[m], net[n])

PolicyInv ==
  ~table /\ ~halfUp =>
    /\ Managed \subseteq loose
    /\ \A c \in Ctrs : ctr[c] = "running" => on[c] \in loose
    /\ link => \E h \in ApiCalls : Op(h) = "up" /\ job[h].at \in {"gateway", "policy"}

Types == DockerTypes /\ HostTypes /\ JobTypes /\ HistoryTypes

Inv == /\ Types /\ LockInv /\ LateInv /\ JobInv /\ NothingWithoutBridge
       /\ MadeInv /\ DisjointInv /\ PolicyInv

-----------------------------------------------------------------------------
(* Docker's calls.                                                         *)

\* Docker does to the network or to the container of a call what the call says, and
\* nothing else.
LEMMA PerformIs ==
  ASSUME DockerTypes, NEW x \in Calls, Perform(x)
  PROVE  /\ x.do = "mknet" => /\ net[x.net] = NoSub /\ net' = [net EXCEPT ![x.net] = x.sub]
                              /\ UNCHANGED <<ctr, on>>
         /\ x.do = "rmnet" => net' = [net EXCEPT ![x.net] = NoSub] /\ UNCHANGED <<ctr, on>>
         /\ x.do = "rmnid" => net' = [net EXCEPT ![x.net] = NoSub] /\ UNCHANGED <<ctr, on>>
         /\ x.do = "mkctr" => /\ ctr[x.ctr] = "absent" /\ ctr' = [ctr EXCEPT ![x.ctr] = "created"]
                              /\ on' = [on EXCEPT ![x.ctr] = x.net] /\ UNCHANGED net
         /\ x.do = "start" => /\ ctr[x.ctr] \in {"created", "exited"} /\ x.net \in Managed
                              /\ ctr' = [ctr EXCEPT ![x.ctr] = "running"] /\ UNCHANGED <<net, on>>
         /\ x.do = "stop" => /\ ctr[x.ctr] = "running" /\ ctr' = [ctr EXCEPT ![x.ctr] = "exited"]
                             /\ UNCHANGED <<net, on>>
         /\ x.do = "rmctr" => /\ Present(x.ctr) /\ ctr' = [ctr EXCEPT ![x.ctr] = "removed"]
                              /\ UNCHANGED <<net, on>>
<1>1. CASE x.do = "mknet" BY Zenon, <1>1 DEF Perform, Possible
<1>2. CASE x.do = "rmnet" BY Zenon, <1>2 DEF Perform, Possible
<1>3. CASE x.do = "rmnid" BY Zenon, <1>3 DEF Perform, Possible
<1>4. CASE x.do = "mkctr" BY Zenon, <1>4 DEF Perform, Possible
<1>5. CASE x.do = "start" BY Zenon, <1>5 DEF Perform, Possible
<1>6. CASE x.do = "stop" BY Zenon, <1>6 DEF Perform, Possible
<1>7. CASE x.do = "rmctr" BY Zenon, <1>7 DEF Perform, Possible
<1> QED BY Zenon, <1>1, <1>2, <1>3, <1>4, <1>5, <1>6, <1>7 DEF Calls

\* Docker's state stays well formed.
LEMMA PerformTypes ==
  ASSUME DockerTypes, NEW x \in Calls, Perform(x), late' \subseteq Calls
  PROVE  DockerTypes'
<1>1. x.net \in Nets /\ x.sub \in Subnets \cup {NoSub} /\ x.ctr \in Ctrs BY Zenon DEF Calls
<1>2. CASE x.do \in {"mknet", "rmnet", "rmnid"}
  BY Zenon, <1>1, <1>2, PerformIs DEF DockerTypes
<1>3. CASE x.do = "mkctr" BY Zenon, <1>1, <1>3, PerformIs DEF DockerTypes
<1>4. CASE x.do \in {"start", "stop", "rmctr"}
  BY Zenon, <1>1, <1>4, PerformIs DEF DockerTypes
<1> QED BY Zenon, <1>2, <1>3, <1>4 DEF Calls

\* What may happen to the networks and containers while nobody with the mutex makes
\* one: they go, containers exit, and a late call makes or starts one.
Tame ==
  /\ \A n \in Nets : net'[n] \in {net[n], NoSub} \/ n \in loose'
  /\ \A c \in Ctrs :
       \/ ctr'[c] = ctr[c] /\ on'[c] = on[c]
       \/ ctr[c] = "absent" /\ ctr'[c] = "created" /\ c \in loose'
       \/ /\ ctr[c] \in {"created", "exited"} /\ ctr'[c] = "running" /\ on'[c] = on[c]
          /\ on[c] \in Managed /\ \E x \in late : x.do = "start" /\ x.ctr = c
       \/ ctr[c] = "running" /\ ctr'[c] = "exited" /\ on'[c] = on[c]
       \/ Present(c) /\ ctr'[c] = "removed" /\ on'[c] = on[c]

\* A call that was given up, or that stops or removes something.
LEMMA TameCall ==
  ASSUME DockerTypes, LateInv, loose \subseteq loose', NEW x \in Calls, Perform(x),
         x \in late \/ x.do \in {"rmnet", "rmnid", "stop", "rmctr"}
  PROVE  Tame
<1>1. x.net \in Nets /\ x.sub \in Subnets \cup {NoSub} /\ x.ctr \in Ctrs BY Zenon DEF Calls
<1>2. CASE x.do \in {"mknet", "rmnet", "rmnid"}
  <2>1. x.do = "mknet" => x.net \in loose' BY Zenon, <1>2 DEF LateInv, LateOK
  <2> QED BY Zenon, <1>1, <1>2, <2>1, PerformIs DEF Tame, DockerTypes
<1>3. CASE x.do = "mkctr"
  <2>1. x.ctr \in loose' BY Zenon, <1>3 DEF LateInv, LateOK
  <2> QED BY <1>1, <1>3, <2>1, PerformIs DEF Tame, DockerTypes
<1>4. CASE x.do = "start"
  <2>1. x \in late /\ on[x.ctr] = x.net BY Zenon, <1>4 DEF LateInv, LateOK
  <2> QED BY <1>1, <1>4, <2>1, PerformIs DEF Tame, DockerTypes
<1>5. CASE x.do \in {"stop", "rmctr"}
  BY <1>1, <1>5, PerformIs DEF Tame, DockerTypes
<1> QED BY Zenon, <1>2, <1>3, <1>4, <1>5 DEF Calls

\* When Docker does nothing.
LEMMA TameNothing == UNCHANGED <<net, ctr, on>> => Tame
BY Zenon DEF Tame

-----------------------------------------------------------------------------
(* What a step by anybody but the holder of the mutex leaves.              *)

Quiet ==
  /\ Tame
  /\ link' = link /\ table' = table /\ (table \/ halfUp => table' \/ halfUp')
  /\ loose \subseteq loose' /\ acked \subseteq acked'

NoStarts == \A x \in late' : x \in late \/ x.do # "start"

\* Networks and containers after such a step.
LEMMA TameFacts ==
  ASSUME Tame
  PROVE  /\ \A n \in Managed' : n \in loose' \/ (n \in Managed /\ net'[n] = net[n])
         /\ \A c \in Ctrs : ctr[c] # "absent" => ctr'[c] # "absent" /\ on'[c] = on[c]
         /\ \A c \in Ctrs : Present(c)' => c \in loose' \/ (Present(c) /\ on'[c] = on[c])
         /\ \A c \in Ctrs : ctr'[c] = "running" =>
              on'[c] = on[c] /\ (ctr[c] = "running" \/ on[c] \in Managed)
<1>1. Managed' = {n \in Nets : net'[n] # NoSub} BY Zenon DEF Managed
<1>2. \A c \in Ctrs : Present(c)' <=> ctr'[c] \in {"created", "running", "exited"}
  BY Zenon DEF Present
<1> QED BY Zenon, <1>1, <1>2 DEF Tame, Managed, Present

\* Nothing runs, still.
LEMMA QuiescedStays ==
  ASSUME DockerTypes, Quiesced, Quiet, NoStarts
  PROVE  Quiesced'
<1>1. ASSUME NEW c \in Ctrs
      PROVE  /\ ctr'[c] \in {"absent", "created", "removed"}
             /\ ctr'[c] = "created" => c \in loose'
  BY Zenon DEF Quiesced, Quiet, Tame
<1>2. ASSUME NEW x \in late', x.do = "start" PROVE ctr'[x.ctr] = "removed"
  <2>1. x \in late /\ ctr[x.ctr] = "removed" BY Zenon, <1>2 DEF NoStarts, Quiesced
  <2>2. x.ctr \in Ctrs BY Zenon, <2>1 DEF DockerTypes, Calls
  <2> QED BY Zenon, <2>1, <2>2 DEF Quiet, Tame, Present
<1> QED BY Zenon, <1>1, <1>2 DEF Quiesced

\* What the holder of the mutex knows stays true while others take steps.
LEMMA QuietJob ==
  ASSUME Types, Quiet, NoStarts, NEW h \in ApiCalls, JobOK(h), job'[h] = job[h]
  PROVE  JobOK(h)'
<1>1. /\ \A n \in Managed' : n \in loose' \/ (n \in Managed /\ net'[n] = net[n])
      /\ \A c \in Ctrs : ctr[c] # "absent" => ctr'[c] # "absent" /\ on'[c] = on[c]
  BY Zenon, TameFacts DEF Quiet
<1>2. /\ link' = link /\ (table \/ halfUp => table' \/ halfUp') /\ loose \subseteq loose'
  BY Zenon DEF Quiet
<1>3. job[h].ctr \in Ctrs BY Zenon DEF Types, JobTypes, Jobs
<1>4. /\ Op(h)' = Op(h)
      /\ \A op, at : At(h, op, at)' <=> At(h, op, at)
  BY Zenon DEF Op, At
<1>5. Op(h) = "mknet" /\ job[h].at \in {"inspect", "subnet", "create", "verify", "rollback"} =>
        link' /\ (table' \/ halfUp')
  BY Zenon, <1>2 DEF JobOK
<1>6. At(h, "mknet", "create") /\ loose' = {} =>
        \A n \in Managed' : ~Overlaps(job[h].sub, net'[n])
  BY Zenon, <1>1, <1>2 DEF JobOK
<1>7. Op(h) = "mkctr" /\ job[h].at \in {"mounts", "create", "start", "record", "rollback"} =>
        link' \/ job[h].net \in loose'
  BY Zenon, <1>2 DEF JobOK
<1>8. Op(h) = "mkctr" /\ job[h].at \in {"start", "record", "rollback"} =>
        on'[job[h].ctr] = job[h].net /\ ctr'[job[h].ctr] # "absent"
  BY Zenon, <1>1, <1>3 DEF JobOK
<1>9. Op(h) = "down" /\ job[h].at \in {"networks", "unlink", "untable"} => Quiesced'
  BY Zenon, QuiescedStays DEF JobOK, Types
<1>10. Op(h) = "down" /\ job[h].at \in {"unlink", "untable"} => Managed' \subseteq loose'
  BY Zenon, <1>1, <1>2 DEF JobOK
<1>11. At(h, "down", "untable") => ~link' BY Zenon, <1>2 DEF JobOK
<1> QED
  BY Zenon, <1>4, <1>5, <1>6, <1>7, <1>8, <1>9, <1>10, <1>11 DEF JobOK, Overlaps, Contains

\* Who does not hold the mutex claims nothing.
LEMMA FreeJob == \A h \in ApiCalls : (~Holds(h) => JobOK(h)) /\ (~Holds(h)' => JobOK(h)')
BY Zenon DEF JobOK, Holds, Op, At, Locking

\* The rest of the invariant, when a step is quiet but for the handler that takes it.
LEMMA QuietKeeps ==
  ASSUME Inv, Types', LockInv', JobInv', Quiet,
         \A x \in late' : x \in late \/ LateOK(x)',
         \A h \in ApiCalls, n \in Nets : MakesNet(h, n) =>
           MakesNet(h, n)' \/ n \in acked' \cup loose' \/ net'[n] = NoSub,
         \A h \in ApiCalls, c \in Ctrs : MakesCtr(h, c) =>
           MakesCtr(h, c)' \/ c \in acked' \cup loose' \/ ~Present(c)',
         \A h \in ApiCalls : Op(h) = "up" /\ job[h].at \in {"gateway", "policy"} =>
           (Op(h)' = "up" /\ job'[h].at \in {"gateway", "policy"}) \/ table' \/ halfUp'
  PROVE  Inv'
<1>0. Types /\ DockerTypes BY Zenon DEF Inv, Types
<1>1. /\ \A n \in Managed' : n \in loose' \/ (n \in Managed /\ net'[n] = net[n])
      /\ \A c \in Ctrs : ctr[c] # "absent" => ctr'[c] # "absent" /\ on'[c] = on[c]
      /\ \A c \in Ctrs : Present(c)' => c \in loose' \/ (Present(c) /\ on'[c] = on[c])
      /\ \A c \in Ctrs : ctr'[c] = "running" =>
           on'[c] = on[c] /\ (ctr[c] = "running" \/ on[c] \in Managed)
  BY Zenon, TameFacts DEF Quiet
<1>2. /\ link' = link /\ table' = table /\ (table \/ halfUp => table' \/ halfUp')
      /\ loose \subseteq loose' /\ acked \subseteq acked'
  BY Zenon DEF Quiet
<1>3. \A n \in Managed : n \in Nets /\ net[n] # NoSub BY Zenon DEF Managed
<1>3p. \A n \in Managed' : n \in Nets /\ net'[n] # NoSub BY Zenon DEF Managed
<1>5. LateInv'
  <2>1. ASSUME NEW x \in late', x \in late PROVE LateOK(x)'
    <3>1. x.ctr \in Ctrs BY Zenon, <1>0, <2>1 DEF DockerTypes, Calls
    <3>2. LateOK(x) BY Zenon, <2>1 DEF Inv, LateInv
    <3> QED BY Zenon, <1>1, <1>2, <3>1, <3>2 DEF LateOK
  <2> QED BY Zenon, <2>1 DEF LateInv
<1>6. NothingWithoutBridge'
  <2> SUFFICES ASSUME ~link'
               PROVE  /\ Managed' \subseteq loose'
                      /\ \A c \in Ctrs : Present(c)' => {c, on'[c]} \cap loose' # {}
    BY Zenon DEF NothingWithoutBridge
  <2>1. /\ Managed \subseteq loose
        /\ \A c \in Ctrs : Present(c) => {c, on[c]} \cap loose # {}
    BY Zenon, <1>2 DEF Inv, NothingWithoutBridge
  <2> QED BY Zenon, <1>1, <1>2, <2>1
<1>7. MadeInv'
  <2>1. ASSUME NEW n \in Managed' PROVE n \in acked' \cup loose' \/ \E h \in ApiCalls : MakesNet(h, n)'
    <3>1. CASE n \in loose' BY Zenon, <3>1
    <3>2. CASE n \in Managed
      <4>1. n \in acked \cup loose \/ \E h \in ApiCalls : MakesNet(h, n)
        BY Zenon, <3>2 DEF Inv, MadeInv
      <4> QED BY Zenon, <1>2, <1>3p, <4>1
    <3> QED BY Zenon, <1>1, <3>1, <3>2
  <2>2. ASSUME NEW c \in Ctrs, Present(c)'
        PROVE  c \in acked' \cup loose' \/ \E h \in ApiCalls : MakesCtr(h, c)'
    <3>1. CASE c \in loose' BY Zenon, <3>1
    <3>2. CASE Present(c)
      <4>1. c \in acked \cup loose \/ \E h \in ApiCalls : MakesCtr(h, c)
        BY Zenon, <3>2 DEF Inv, MadeInv
      <4> QED BY Zenon, <1>2, <2>2, <4>1
    <3> QED BY Zenon, <1>1, <2>2, <3>1, <3>2
  <2> QED BY Zenon, <2>1, <2>2 DEF MadeInv
<1>8. DisjointInv'
  <2> SUFFICES ASSUME loose' = {}, NEW m \in Managed', NEW n \in Managed', m # n
               PROVE  ~Overlaps(net'[m], net'[n])
    BY Zenon DEF DisjointInv, Overlaps, Contains
  <2>1. m \in Managed /\ net'[m] = net[m] /\ n \in Managed /\ net'[n] = net[n]
    BY Zenon, <1>1
  <2>2. loose = {} BY Zenon, <1>2
  <2> QED BY Zenon, <2>1, <2>2 DEF Inv, DisjointInv
<1>9. PolicyInv'
  <2> SUFFICES ASSUME ~table', ~halfUp'
               PROVE  /\ Managed' \subseteq loose'
                      /\ \A c \in Ctrs : ctr'[c] = "running" => on'[c] \in loose'
                      /\ link' => \E h \in ApiCalls : Op(h)' = "up" /\ job'[h].at \in {"gateway", "policy"}
    BY Zenon DEF PolicyInv
  <2>1. /\ Managed \subseteq loose
        /\ \A c \in Ctrs : ctr[c] = "running" => on[c] \in loose
        /\ link => \E h \in ApiCalls : Op(h) = "up" /\ job[h].at \in {"gateway", "policy"}
    BY Zenon, <1>2 DEF Inv, PolicyInv
  <2>2. Managed' \subseteq loose' BY Zenon, <1>1, <1>2, <2>1
  <2>3. \A c \in Ctrs : ctr'[c] = "running" => on'[c] \in loose' BY Zenon, <1>1, <1>2, <2>1
  <2> QED BY Zenon, <1>2, <2>1, <2>2, <2>3
<1> QED BY Zenon, <1>5, <1>6, <1>7, <1>8, <1>9 DEF Inv

-----------------------------------------------------------------------------
(* How a handler moves.                                                    *)

\* An answer leaves the handler idle, and gives back the mutex if it has it.
LEMMA ReturnIs ==
  ASSUME JobTypes, LockInv, NEW h \in ApiCalls, Return(h)
  PROVE  /\ JobTypes' /\ LockInv'
         /\ job'[h] = Idle /\ ~Holds(h)' /\ \A g \in ApiCalls \ {h} : job'[g] = job[g]
         /\ lock' = IF lock = h THEN NoCall ELSE lock
<1>1. Idle \in Jobs
  <2>1. (CHOOSE c \in Ctrs : TRUE) \in Ctrs BY Zenon, ControlAssumption
  <2> QED BY Zenon, <2>1, ControlAssumption DEF Idle, Jobs, Places
<1>2. /\ job' = [job EXCEPT ![h] = Idle] /\ lock' = IF lock = h THEN NoCall ELSE lock
  BY Zenon DEF Return
<1>3. JobTypes' BY Zenon, <1>1, <1>2 DEF JobTypes
<1>4. job'[h] = Idle /\ \A g \in ApiCalls \ {h} : job'[g] = job[g]
  BY Zenon, <1>2 DEF JobTypes
<1>5. Op(h)' = "none" /\ job'[h].at = "idle" BY <1>4 DEF Op, Idle
<1>6. \A g \in ApiCalls \ {h} : (Holds(g)' <=> Holds(g)) /\ Op(g)' = Op(g)
  BY Zenon, <1>4 DEF Holds, Op
<1>7. ~Holds(h)' BY Zenon, <1>5 DEF Holds, Locking
<1>8. LockInv'
  <2>1. lock' \in ApiCalls \cup {NoCall} /\ lock' # h
    BY Zenon, <1>2, ControlAssumption DEF LockInv
  <2>2. \A g \in ApiCalls : Holds(g)' <=> lock' = g
    BY Zenon, <1>2, <1>6, <1>7, <2>1, ControlAssumption DEF LockInv
  <2>3. \A g \in ApiCalls : Op(g)' \notin Locking => job'[g].at \in {"idle", "inspect", "call"}
    BY Zenon, <1>4, <1>5, <1>6 DEF LockInv
  <2>4. \A g \in ApiCalls : Op(g)' = "none" => job'[g].at = "idle"
    BY Zenon, <1>4, <1>5, <1>6 DEF LockInv
  <2> QED BY Zenon, <2>1, <2>2, <2>3, <2>4 DEF LockInv
<1> QED BY Zenon, <1>2, <1>3, <1>4, <1>7, <1>8

\* A handler that goes on keeps its job and the mutex.
LEMMA GotoIs ==
  ASSUME JobTypes, LockInv, NEW h \in ApiCalls, NEW a \in Places \ {"lock"}, MoveTo(h, a),
         Holds(h) \/ (Op(h) \in {"stop", "remove"} /\ a = "call")
  PROVE  /\ JobTypes' /\ LockInv' /\ lock' = lock
         /\ \A g \in ApiCalls \ {h} : job'[g] = job[g]
         /\ job'[h].at = a /\ Op(h)' = Op(h)
         /\ job'[h].net = job[h].net /\ job'[h].sub = job[h].sub /\ job'[h].ctr = job[h].ctr
<1>1. job' = [job EXCEPT ![h].at = a] /\ lock' = lock BY Zenon DEF MoveTo
<1>2. JobTypes' BY Zenon, <1>1 DEF JobTypes, Jobs
<1>3. /\ job'[h].at = a /\ Op(h)' = Op(h) /\ \A g \in ApiCalls \ {h} : job'[g] = job[g]
      /\ job'[h].net = job[h].net /\ job'[h].sub = job[h].sub /\ job'[h].ctr = job[h].ctr
  BY Zenon, <1>1 DEF JobTypes, Jobs, Op
<1>4. \A g \in ApiCalls : (Holds(g)' <=> Holds(g)) /\ Op(g)' = Op(g)
  <2>1. Holds(h)' <=> Holds(h) BY Zenon, <1>3 DEF Holds, Locking
  <2>2. ASSUME NEW g \in ApiCalls \ {h} PROVE (Holds(g)' <=> Holds(g)) /\ Op(g)' = Op(g)
    BY Zenon, <1>3 DEF Holds, Op
  <2> QED BY Zenon, <1>3, <2>1, <2>2
<1>5. (Op(h) \notin Locking => a = "call") /\ Op(h) # "none" BY Zenon DEF Holds, Locking
<1>6. \A g \in ApiCalls : Op(g)' \notin Locking => job'[g].at \in {"idle", "inspect", "call"}
  BY Zenon, <1>3, <1>4, <1>5 DEF LockInv
<1>7. \A g \in ApiCalls : Op(g)' = "none" => job'[g].at = "idle"
  BY Zenon, <1>3, <1>4, <1>5 DEF LockInv
<1>8. LockInv' BY Zenon, <1>1, <1>4, <1>6, <1>7 DEF LockInv
<1> QED BY Zenon, <1>1, <1>2, <1>3, <1>8

\* When the holder of the mutex takes a step, nobody else has a claim.
LEMMA HolderJobs ==
  ASSUME LockInv, LockInv', NEW h \in ApiCalls, Holds(h), lock' \in {h, NoCall}, JobOK(h)'
  PROVE  JobInv'
<1>1. ASSUME NEW g \in ApiCalls \ {h} PROVE JobOK(g)'
  <2>1. ~Holds(g)' BY Zenon, ControlAssumption DEF LockInv
  <2> QED BY Zenon, <2>1, FreeJob
<1> QED BY Zenon, <1>1 DEF JobInv

\* When somebody else takes one, the holder's claims stand.
LEMMA OtherJobs ==
  ASSUME Types, JobInv, Quiet, NoStarts, NEW h \in ApiCalls, ~Holds(h)',
         \A g \in ApiCalls \ {h} : job'[g] = job[g]
  PROVE  JobInv'
<1>1. ASSUME NEW g \in ApiCalls \ {h} PROVE JobOK(g)' BY Zenon, QuietJob DEF JobInv
<1>2. JobOK(h)' BY Zenon, FreeJob
<1> QED BY Zenon, <1>1, <1>2 DEF JobInv

\* A quiet step of the handler h keeps the invariant, if it lets go of nothing that it
\* made and of no bridge without policy.
LEMMA HandlerKeeps ==
  ASSUME Inv, NEW h \in ApiCalls, Types', LockInv', JobInv', Quiet,
         \A x \in late' : x \in late \/ LateOK(x)',
         \A g \in ApiCalls \ {h} : job'[g] = job[g],
         \A n \in Nets : MakesNet(h, n) =>
           MakesNet(h, n)' \/ n \in acked' \cup loose' \/ net'[n] = NoSub,
         \A c \in Ctrs : MakesCtr(h, c) =>
           MakesCtr(h, c)' \/ c \in acked' \cup loose' \/ ~Present(c)',
         Op(h) = "up" /\ job[h].at \in {"gateway", "policy"} =>
           (Op(h)' = "up" /\ job'[h].at \in {"gateway", "policy"}) \/ table' \/ halfUp'
  PROVE  Inv'
<1>1. ASSUME NEW g \in ApiCalls \ {h}, NEW n \in Nets, MakesNet(g, n) PROVE MakesNet(g, n)'
  BY Zenon, <1>1 DEF MakesNet, Op
<1>2. ASSUME NEW g \in ApiCalls \ {h}, NEW c \in Ctrs, MakesCtr(g, c) PROVE MakesCtr(g, c)'
  BY Zenon, <1>2 DEF MakesCtr, Op
<1>3. ASSUME NEW g \in ApiCalls \ {h}, Op(g) = "up" /\ job[g].at \in {"gateway", "policy"}
      PROVE  Op(g)' = "up" /\ job'[g].at \in {"gateway", "policy"}
  BY Zenon, <1>3 DEF Op
<1>4. \A g \in ApiCalls, n \in Nets : MakesNet(g, n) =>
        MakesNet(g, n)' \/ n \in acked' \cup loose' \/ net'[n] = NoSub
  BY Zenon, <1>1
<1>5. \A g \in ApiCalls, c \in Ctrs : MakesCtr(g, c) =>
        MakesCtr(g, c)' \/ c \in acked' \cup loose' \/ ~Present(c)'
  BY Zenon, <1>2
<1>6. \A g \in ApiCalls : Op(g) = "up" /\ job[g].at \in {"gateway", "policy"} =>
        (Op(g)' = "up" /\ job'[g].at \in {"gateway", "policy"}) \/ table' \/ halfUp'
  BY Zenon, <1>3
<1> QED BY Zenon, <1>4, <1>5, <1>6, QuietKeeps

-----------------------------------------------------------------------------
(* Steps that only read, and the bridge.                                   *)

\* A step that leaves the host, Docker and the history alone is quiet.
LEMMA ReadsQuiet ==
  ASSUME Types, Reads, JobTypes'
  PROVE  Types' /\ Quiet /\ NoStarts /\ late' = late
<1>1. UNCHANGED <<link, table, sysctl, halfUp, net, ctr, on, late, acked, loose>>
  BY Zenon DEF Reads, hostVars, dockerVars, historyVars
<1>2. Types' BY Zenon, <1>1 DEF Types, DockerTypes, HostTypes, HistoryTypes
<1> QED BY Zenon, <1>1, <1>2, TameNothing DEF Quiet, NoStarts

\* A handler that has made nothing yet reads something and returns.
LEMMA ReadReturns ==
  ASSUME Inv, NEW h \in ApiCalls, Holds(h), Reads, Return(h),
         \A n \in Nets : ~MakesNet(h, n), \A c \in Ctrs : ~MakesCtr(h, c),
         ~(Op(h) = "up" /\ job[h].at \in {"gateway", "policy"})
  PROVE  Inv'
<1>0. Types /\ JobTypes /\ LockInv BY Zenon DEF Inv, Types
<1>1. /\ JobTypes' /\ LockInv' /\ ~Holds(h)'
      /\ \A g \in ApiCalls \ {h} : job'[g] = job[g]
  BY Zenon, <1>0, ReturnIs
<1>2. Types' /\ Quiet /\ NoStarts /\ late' = late BY Zenon, <1>0, <1>1, ReadsQuiet
<1>3. JobInv' BY Zenon, <1>0, <1>1, <1>2, OtherJobs DEF Inv
<1> QED BY Zenon, <1>1, <1>2, <1>3, HandlerKeeps

\* It reads something and goes on, with a claim that holds.
LEMMA ReadGoesOn ==
  ASSUME Inv, NEW h \in ApiCalls, Holds(h), Reads, NEW a \in Places \ {"lock"}, MoveTo(h, a), JobOK(h)',
         \A n \in Nets : ~MakesNet(h, n), \A c \in Ctrs : ~MakesCtr(h, c),
         ~(Op(h) = "up" /\ job[h].at \in {"gateway", "policy"})
  PROVE  Inv'
<1>0. Types /\ JobTypes /\ LockInv BY Zenon DEF Inv, Types
<1>1. /\ JobTypes' /\ LockInv' /\ lock' = lock
      /\ \A g \in ApiCalls \ {h} : job'[g] = job[g]
  BY Zenon, <1>0, GotoIs
<1>2. Types' /\ Quiet /\ NoStarts /\ late' = late BY Zenon, <1>0, <1>1, ReadsQuiet
<1>3. lock' = h BY Zenon, <1>0, <1>1 DEF LockInv
<1>4. JobInv' BY Zenon, <1>0, <1>1, <1>3, HolderJobs
<1> QED BY Zenon, <1>1, <1>2, <1>4, HandlerKeeps

\* The bridge or the policy changes: only what depends on them has to be shown.
LEMMA HostKeeps ==
  ASSUME Inv, NEW h \in ApiCalls, Holds(h), Op(h) \in {"up", "down"},
         HostTypes', JobTypes', LockInv', lock' \in {h, NoCall},
         UNCHANGED <<dockerVars, late, historyVars>>,
         \A g \in ApiCalls \ {h} : job'[g] = job[g],
         JobOK(h)', NothingWithoutBridge', PolicyInv'
  PROVE  Inv'
<1>0. Types /\ LockInv BY Zenon DEF Inv
<1>1. net' = net /\ ctr' = ctr /\ on' = on /\ late' = late /\ acked' = acked /\ loose' = loose
  BY Zenon DEF dockerVars, historyVars
<1>2. Types' BY Zenon, <1>0, <1>1 DEF Types, DockerTypes, HistoryTypes
<1>3. JobInv' BY Zenon, <1>0, HolderJobs
<1>4. LateInv' BY Zenon, <1>1 DEF Inv, LateInv, LateOK
<1>5. MadeInv'
  <2>1. ASSUME NEW g \in ApiCalls, NEW n, MakesNet(g, n) PROVE MakesNet(g, n)'
    BY Zenon, <2>1 DEF MakesNet, Op
  <2>2. ASSUME NEW g \in ApiCalls, NEW c, MakesCtr(g, c) PROVE MakesCtr(g, c)'
    BY Zenon, <2>2 DEF MakesCtr, Op
  <2> QED BY Zenon, <1>1, <2>1, <2>2 DEF Inv, MadeInv, Managed, Present
<1>6. DisjointInv' BY Zenon, <1>1 DEF Inv, DisjointInv, Managed, Overlaps, Contains
<1> QED BY Zenon, <1>2, <1>3, <1>4, <1>5, <1>6 DEF Inv

\* A handler of the bridge makes no network and no container.
LEMMA BridgeMakesNothing ==
  ASSUME NEW h \in ApiCalls, Op(h) \in {"up", "down", "rmnet"}
  PROVE  (\A n \in Nets : ~MakesNet(h, n)) /\ (\A c \in Ctrs : ~MakesCtr(h, c))
BY Zenon DEF MakesNet, MakesCtr

\* init: the link, the gateway's address, the policy.
LEMMA UpKeeps ==
  ASSUME Inv, NEW h \in ApiCalls, UpLink(h) \/ UpGateway(h) \/ UpPolicy(h)
  PROVE  Inv'
<1>0. Types /\ JobTypes /\ LockInv /\ HostTypes BY Zenon DEF Inv, Types
<1>1. Op(h) = "up" /\ job[h].at \in {"begin", "gateway", "policy"}
  BY Zenon DEF UpLink, UpGateway, UpPolicy, At, Op
<1>2. Holds(h) /\ lock = h BY Zenon, <1>0, <1>1 DEF Holds, Locking, LockInv
<1>3. UNCHANGED <<dockerVars, late, historyVars>> BY Zenon DEF UpLink, UpGateway, UpPolicy
<1>4. ASSUME Return(h), halfUp' = ~table', link' \in {link, TRUE}, HostTypes' PROVE Inv'
  <2>1. /\ JobTypes' /\ LockInv' /\ ~Holds(h)' /\ lock' = NoCall
        /\ \A g \in ApiCalls \ {h} : job'[g] = job[g]
    BY Zenon, <1>0, <1>2, <1>4, ReturnIs
  <2>2. JobOK(h)' BY Zenon, <2>1, FreeJob
  <2>3. PolicyInv' BY Zenon, <1>4 DEF PolicyInv
  <2>4. NothingWithoutBridge'
    <3>1. Managed' = Managed /\ loose' = loose /\ ctr' = ctr /\ on' = on
      BY Zenon, <1>3 DEF dockerVars, historyVars, Managed
    <3>2. ~link' => ~link BY Zenon, <1>0, <1>4 DEF HostTypes
    <3> QED BY Zenon, <3>1, <3>2 DEF Inv, NothingWithoutBridge, Present
  <2> QED BY Zenon, <1>1, <1>2, <1>3, <1>4, <2>1, <2>2, <2>3, <2>4, HostKeeps
<1>5. ASSUME NEW a \in {"gateway", "policy"}, MoveTo(h, a), link', table' = table, halfUp' = halfUp,
             HostTypes'
      PROVE  Inv'
  <2>0. a \in Places \ {"lock"} BY Zenon, <1>5 DEF Places
  <2>1. /\ JobTypes' /\ LockInv' /\ lock' = h
        /\ \A g \in ApiCalls \ {h} : job'[g] = job[g]
        /\ job'[h].at = a /\ Op(h)' = "up"
    BY Zenon, <1>0, <1>1, <1>2, <1>5, <2>0, GotoIs
  <2>2. JobOK(h)' BY Zenon, <2>1 DEF JobOK, At, Op
  <2>3. PolicyInv'
    <3>1. Managed' = Managed /\ loose' = loose /\ ctr' = ctr /\ on' = on
      BY Zenon, <1>3 DEF dockerVars, historyVars, Managed
    <3> QED BY Zenon, <1>5, <2>1, <3>1 DEF Inv, PolicyInv
  <2>4. NothingWithoutBridge' BY Zenon, <1>5 DEF NothingWithoutBridge
  <2> QED BY Zenon, <1>1, <1>2, <1>3, <1>5, <2>1, <2>2, <2>3, <2>4, HostKeeps
<1>6. CASE UpLink(h)
  <2>1. HostTypes' /\ table' = table BY Zenon, <1>0, <1>6 DEF UpLink, HostTypes
  <2>2. CASE link' = TRUE /\ MoveTo(h, "gateway") /\ halfUp' = halfUp
    BY Zenon, <1>5, <2>1, <2>2
  <2>3. CASE link' \in {link, TRUE} /\ Return(h) /\ halfUp' = ~table
    BY Zenon, <1>4, <2>1, <2>3
  <2> QED BY Zenon, <1>6, <2>2, <2>3 DEF UpLink
<1>7. CASE UpGateway(h)
  <2>1. HostTypes' /\ table' = table /\ link' = link
    BY Zenon, <1>0, <1>7 DEF UpGateway, HostTypes
  <2>2. CASE Return(h) /\ halfUp' = ~table BY Zenon, <1>4, <2>1, <2>2
  <2>3. CASE MoveTo(h, "policy") /\ halfUp' = halfUp
    <3>0. "policy" \in Places \ {"lock"} BY Zenon DEF Places
    <3>1. /\ JobTypes' /\ LockInv' /\ lock' = h
          /\ \A g \in ApiCalls \ {h} : job'[g] = job[g]
          /\ job'[h].at = "policy" /\ Op(h)' = "up"
      BY Zenon, <1>0, <1>1, <1>2, <2>3, <3>0, GotoIs
    <3>2. JobOK(h)' BY Zenon, <3>1 DEF JobOK, At, Op
    <3>3. Managed' = Managed /\ loose' = loose /\ ctr' = ctr /\ on' = on
      BY Zenon, <1>3 DEF dockerVars, historyVars, Managed
    <3>4. PolicyInv' BY Zenon, <2>1, <2>3, <3>1, <3>3 DEF Inv, PolicyInv
    <3>5. NothingWithoutBridge' BY Zenon, <2>1, <3>3 DEF Inv, NothingWithoutBridge, Present
    <3> QED BY Zenon, <1>1, <1>2, <1>3, <2>1, <3>1, <3>2, <3>4, <3>5, HostKeeps
  <2> QED BY Zenon, <1>7, <2>2, <2>3 DEF UpGateway
<1>8. CASE UpPolicy(h)
  <2>1. HostTypes' /\ link' = link /\ halfUp' = ~table' /\ Return(h)
    BY Zenon, <1>0, <1>8 DEF UpPolicy, EnableNetfilter, ApplyBase, HostTypes
  <2> QED BY Zenon, <1>4, <2>1
<1> QED BY Zenon, <1>6, <1>7, <1>8

\* bridge_down: no container, no network; then the link goes, then the policy.
LEMMA DownKeeps ==
  ASSUME Inv, NEW h \in ApiCalls,
         DownContainers(h) \/ DownNetworks(h) \/ DownLink(h) \/ DownTable(h)
  PROVE  Inv'
<1>0. Types /\ JobTypes /\ LockInv /\ HostTypes /\ DockerTypes /\ LateInv /\ JobOK(h)
  BY Zenon DEF Inv, Types, JobInv
<1>1. Op(h) = "down" /\ job[h].at \in {"begin", "networks", "unlink", "untable"}
  BY Zenon DEF DownContainers, DownNetworks, DownLink, DownTable, At, Op
<1>2. Holds(h) /\ lock = h BY Zenon, <1>0, <1>1 DEF Holds, Locking, LockInv
<1>3. (\A n \in Nets : ~MakesNet(h, n)) /\ (\A c \in Ctrs : ~MakesCtr(h, c))
  BY Zenon, <1>1, BridgeMakesNothing
<1>4. ASSUME NEW a \in {"networks", "unlink", "untable"}, MoveTo(h, a)
      PROVE  /\ JobTypes' /\ LockInv' /\ lock' = h
             /\ \A g \in ApiCalls \ {h} : job'[g] = job[g]
             /\ job'[h].at = a /\ Op(h)' = "down" /\ a \in Places \ {"lock"}
  <2>1. a \in Places \ {"lock"} BY Zenon, <1>4 DEF Places
  <2> QED BY Zenon, <1>0, <1>1, <1>2, <1>4, <2>1, GotoIs
<1>5. CASE DownContainers(h)
  <2>1. CASE Return(h)
    BY Zenon, <1>1, <1>2, <1>3, <1>5, <2>1, ReadReturns DEF DownContainers
  <2>2. CASE (\A c \in Ctrs : ~Present(c)) /\ MoveTo(h, "networks")
    <3>1. job'[h].at = "networks" /\ Op(h)' = "down" /\ "networks" \in Places \ {"lock"}
      BY Zenon, <1>4, <2>2
    <3>2. UNCHANGED <<ctr, late, loose>>
      BY Zenon, <1>5 DEF DownContainers, Reads, dockerVars, historyVars
    <3>3. \A c \in Ctrs : ctr[c] \in {"absent", "removed"}
      BY Zenon, <1>0, <2>2 DEF Present, DockerTypes
    <3>4. \A x \in late : x.do = "start" => ctr[x.ctr] = "removed"
      BY Zenon, <1>0, <3>3 DEF LateInv, LateOK, DockerTypes, Calls
    <3>5. Quiesced BY Zenon, <3>3, <3>4 DEF Quiesced
    <3>6. Quiesced' BY Zenon, <3>2, <3>5 DEF Quiesced
    <3>7. JobOK(h)' BY Zenon, <3>1, <3>6 DEF JobOK, At, Op
    <3> QED
      BY Zenon, <1>1, <1>2, <1>3, <1>5, <2>2, <3>1, <3>7, ReadGoesOn DEF DownContainers
  <2> QED BY Zenon, <1>5, <2>1, <2>2 DEF DownContainers
<1>6. CASE DownNetworks(h)
  <2>1. CASE Return(h)
    BY Zenon, <1>1, <1>2, <1>3, <1>6, <2>1, ReadReturns DEF DownNetworks
  <2>2. CASE Managed = {} /\ MoveTo(h, "unlink")
    <3>1. job'[h].at = "unlink" /\ Op(h)' = "down" /\ "unlink" \in Places \ {"lock"}
      BY Zenon, <1>4, <2>2
    <3>2. UNCHANGED <<net, ctr, late, loose>>
      BY Zenon, <1>6 DEF DownNetworks, Reads, dockerVars, historyVars
    <3>3. Quiesced BY Zenon, <1>0, <1>6 DEF JobOK, DownNetworks, At, Op
    <3>4. Quiesced' BY Zenon, <3>2, <3>3 DEF Quiesced
    <3>5. Managed' = {} BY Zenon, <2>2, <3>2 DEF Managed
    <3>6. JobOK(h)' BY Zenon, <3>1, <3>4, <3>5 DEF JobOK, At, Op
    <3> QED BY Zenon, <1>1, <1>2, <1>3, <1>6, <2>2, <3>1, <3>6, ReadGoesOn DEF DownNetworks
  <2> QED BY Zenon, <1>6, <2>1, <2>2 DEF DownNetworks
<1>7. CASE DownLink(h)
  <2>1. Quiesced /\ Managed \subseteq loose BY Zenon, <1>0, <1>7 DEF JobOK, DownLink, At, Op
  <2>2. /\ UNCHANGED <<dockerVars, late, historyVars>> /\ table' = table /\ halfUp' = halfUp
        /\ HostTypes' /\ link' \in {link, FALSE}
    BY Zenon, <1>0, <1>7 DEF DownLink, HostTypes
  <2>3. Managed' = Managed /\ loose' = loose /\ ctr' = ctr /\ on' = on /\ late' = late
    BY Zenon, <2>2 DEF dockerVars, historyVars, Managed
  <2>4. NothingWithoutBridge'
    <3>1. \A c \in Ctrs : Present(c) => c \in loose BY Zenon, <2>1 DEF Quiesced, Present
    <3> QED BY Zenon, <2>1, <2>3, <3>1 DEF NothingWithoutBridge, Present
  <2>5. /\ JobTypes' /\ LockInv' /\ lock' \in {h, NoCall}
        /\ \A g \in ApiCalls \ {h} : job'[g] = job[g]
    BY Zenon, <1>0, <1>2, <1>4, <1>7, ReturnIs DEF DownLink
  <2>6. JobOK(h)'
    <3>1. CASE Return(h) BY Zenon, <1>0, <3>1, ReturnIs, FreeJob
    <3>2. CASE link' = FALSE /\ MoveTo(h, "untable")
      <4>1. job'[h].at = "untable" /\ Op(h)' = "down" BY Zenon, <1>4, <3>2
      <4>2. Quiesced' /\ Managed' \subseteq loose' BY Zenon, <2>1, <2>3 DEF Quiesced
      <4> QED BY Zenon, <3>2, <4>1, <4>2 DEF JobOK, At, Op
    <3> QED BY Zenon, <1>7, <3>1, <3>2 DEF DownLink
  <2>7. PolicyInv'
    <3>1. ASSUME ~table', ~halfUp', link', NEW g \in ApiCalls,
                 Op(g) = "up", job[g].at \in {"gateway", "policy"}
          PROVE  Op(g)' = "up" /\ job'[g].at \in {"gateway", "policy"}
      <4>1. g # h BY Zenon, <1>1, <3>1
      <4> QED BY Zenon, <2>5, <3>1, <4>1 DEF Op
    <3>2. link' => link BY Zenon, <1>0, <2>2 DEF HostTypes
    <3> QED BY Zenon, <2>2, <2>3, <3>1, <3>2 DEF Inv, PolicyInv
  <2> QED BY Zenon, <1>1, <1>2, <2>2, <2>4, <2>5, <2>6, <2>7, HostKeeps
<1>8. CASE DownTable(h)
  <2>1. Quiesced /\ Managed \subseteq loose /\ ~link
    BY Zenon, <1>0, <1>8 DEF JobOK, DownTable, At, Op
  <2>2. /\ UNCHANGED <<dockerVars, late, historyVars>> /\ halfUp' = halfUp /\ link' = link
        /\ HostTypes' /\ Return(h)
    BY Zenon, <1>0, <1>8 DEF DownTable, HostTypes
  <2>3. Managed' = Managed /\ loose' = loose /\ ctr' = ctr /\ on' = on
    BY Zenon, <2>2 DEF dockerVars, historyVars, Managed
  <2>4. NothingWithoutBridge' BY Zenon, <2>2, <2>3 DEF Inv, NothingWithoutBridge, Present
  <2>5. /\ JobTypes' /\ LockInv' /\ lock' \in {h, NoCall} /\ ~Holds(h)'
        /\ \A g \in ApiCalls \ {h} : job'[g] = job[g]
    BY Zenon, <1>0, <1>2, <2>2, ReturnIs
  <2>6. JobOK(h)' BY Zenon, <2>5, FreeJob
  <2>7. PolicyInv'
    <3>1. \A c \in Ctrs : ctr[c] # "running" BY Zenon, <2>1 DEF Quiesced
    <3> QED BY Zenon, <2>1, <2>2, <2>3, <3>1 DEF PolicyInv
  <2> QED BY Zenon, <1>1, <1>2, <2>2, <2>4, <2>5, <2>6, <2>7, HostKeeps
<1> QED BY Zenon, <1>5, <1>6, <1>7, <1>8

-----------------------------------------------------------------------------
(* Networks and containers: the steps before and after Docker's calls.     *)

\* create_network: the bridge is up, the name is free, the subnet is free; Docker's
\* answer is verified.
LEMMA NetworkKeeps ==
  ASSUME Inv, NEW h \in ApiCalls, Network(h)
  PROVE  Inv'
<1>0. Types /\ JobTypes /\ LockInv /\ HostTypes /\ DockerTypes /\ JobOK(h)
  BY Zenon DEF Inv, Types, JobInv
<1>1. Op(h) \in {"mknet", "rmnet"} /\ job[h].at \in {"begin", "inspect", "subnet", "verify"}
  BY Zenon DEF Network, NetBridge, NetInspect, NetSubnet, NetVerify, NetDestroy, At, Op
<1>2. Holds(h) /\ lock = h BY Zenon, <1>0, <1>1 DEF Holds, Locking, LockInv
<1>3. \A c \in Ctrs : ~MakesCtr(h, c) BY Zenon, <1>1 DEF MakesCtr
<1>4. job[h].at # "verify" => \A n \in Nets : ~MakesNet(h, n) BY Zenon, <1>1 DEF MakesNet
<1>5. ASSUME NEW a \in {"inspect", "subnet", "remove", "rollback"}, MoveTo(h, a)
      PROVE  /\ JobTypes' /\ LockInv' /\ lock' = h
             /\ \A g \in ApiCalls \ {h} : job'[g] = job[g]
             /\ job'[h].at = a /\ Op(h)' = Op(h) /\ job'[h].net = job[h].net
             /\ a \in Places \ {"lock"}
  <2>1. a \in Places \ {"lock"} BY Zenon, <1>5 DEF Places
  <2> QED BY Zenon, <1>0, <1>2, <1>5, <2>1, GotoIs
<1>6. ASSUME Reads, Return(h), job[h].at # "verify" PROVE Inv'
  BY Zenon, <1>1, <1>2, <1>3, <1>4, <1>6, ReadReturns
<1>7. ASSUME Reads, NEW a \in {"inspect", "subnet", "remove"}, MoveTo(h, a), job[h].at # "verify",
             Op(h) = "mknet" => link /\ (table \/ halfUp)
      PROVE  Inv'
  <2>1. /\ job'[h].at = a /\ Op(h)' = Op(h) /\ a \in Places \ {"lock"} BY Zenon, <1>5, <1>7
  <2>2. UNCHANGED <<link, table, halfUp>> BY Zenon, <1>7 DEF Reads, hostVars
  <2>3. JobOK(h)' BY Zenon, <1>1, <1>7, <2>1, <2>2 DEF JobOK, At, Op
  <2> QED BY Zenon, <1>1, <1>2, <1>3, <1>4, <1>7, <2>1, <2>3, ReadGoesOn
<1>8. CASE NetBridge(h)
  <2>1. Reads /\ Op(h) = "mknet" /\ job[h].at = "begin" BY Zenon, <1>8 DEF NetBridge, At, Op
  <2>2. CASE BridgeUp /\ MoveTo(h, "inspect")
    <3>1. link BY Zenon, <2>2 DEF BridgeUp
    <3>2. \A g \in ApiCalls : ~(Op(g) = "up" /\ job[g].at \in {"gateway", "policy"})
      BY Zenon, <1>0, <1>1, <1>2 DEF LockInv, Holds, Locking
    <3>3. table \/ halfUp BY Zenon, <3>1, <3>2 DEF Inv, PolicyInv
    <3> QED BY Zenon, <1>7, <2>1, <2>2, <3>1, <3>3
  <2> QED BY Zenon, <1>6, <1>8, <2>1, <2>2 DEF NetBridge
<1>9. CASE NetInspect(h)
  <2>1. Reads /\ Op(h) = "mknet" /\ job[h].at = "inspect"
    BY Zenon, <1>9 DEF NetInspect, At, Op
  <2>2. link /\ (table \/ halfUp) BY Zenon, <1>0, <2>1 DEF JobOK
  <2> QED BY Zenon, <1>6, <1>7, <1>9, <2>1, <2>2 DEF NetInspect
<1>10. CASE NetDestroy(h)
  <2>1. Reads /\ Op(h) = "rmnet" /\ job[h].at = "begin"
    BY Zenon, <1>10 DEF NetDestroy, At, Op
  <2> QED BY Zenon, <1>6, <1>7, <1>10, <2>1 DEF NetDestroy
<1>11. CASE NetSubnet(h)
  <2>1. Reads /\ Op(h) = "mknet" /\ job[h].at = "subnet"
    BY Zenon, <1>11 DEF NetSubnet, At, Op
  <2>2. CASE Return(h) BY Zenon, <1>6, <2>1, <2>2
  <2>3. ASSUME NEW s \in Choices(job[h].net, job[h].sub),
               job' = [job EXCEPT ![h].sub = s, ![h].at = "create"], lock' = lock
        PROVE  Inv'
    <3>1. Free(s) /\ s \in Subnets
      <4>1. job[h].sub \in Subnets \cup {NoSub} BY Zenon, <1>0 DEF JobTypes, Jobs
      <4>2. CASE job[h].sub # NoSub BY Zenon, <2>3, <4>1, <4>2 DEF Choices
      <4>3. CASE job[h].sub = NoSub /\ job[h].net = Default
        <5>1. s = Sub24(0) /\ Free(s) BY Zenon, <2>3, <4>3 DEF Choices
        <5>2. 0 \in 0 .. Blocks - 1 BY ControlAssumption
        <5> QED BY Zenon, <5>1, <5>2 DEF Subnets
      <4>4. CASE job[h].sub = NoSub /\ job[h].net # Default
        BY Zenon, <2>3, <4>4 DEF Choices, Subnets
      <4> QED BY Zenon, <4>2, <4>3, <4>4
    <3>2. /\ job'[h].at = "create" /\ Op(h)' = "mknet" /\ job'[h].sub = s
          /\ \A g \in ApiCalls \ {h} : job'[g] = job[g]
      BY Zenon, <1>0, <2>1, <2>3 DEF JobTypes, Jobs, Op
    <3>3. JobTypes'
      <4>1. "create" \in Places BY Zenon DEF Places
      <4> QED BY ZenonT(30), <1>0, <2>3, <3>1, <4>1 DEF JobTypes, Jobs
    <3>4. LockInv' /\ lock' = h
      <4>1. Holds(h)' BY Zenon, <3>2 DEF Holds, Locking
      <4>2. \A g \in ApiCalls : (Holds(g)' <=> Holds(g)) /\ Op(g)' = Op(g)
        BY Zenon, <1>2, <2>1, <3>2, <4>1 DEF Holds, Op
      <4> QED BY Zenon, <1>2, <2>1, <2>3, <3>2, <4>2 DEF Inv, LockInv, Locking
    <3>5. Types' /\ Quiet /\ NoStarts /\ late' = late BY Zenon, <1>0, <2>1, <3>3, ReadsQuiet
    <3>6. JobOK(h)'
      <4>1. link /\ (table \/ halfUp) BY Zenon, <1>0, <2>1 DEF JobOK
      <4>2. UNCHANGED <<link, table, halfUp, net, loose>>
        BY Zenon, <2>1 DEF Reads, hostVars, dockerVars, historyVars
      <4>3. \A n \in Managed : ~Overlaps(s, net[n]) BY Zenon, <3>1 DEF Free, Used, Managed
      <4>4. Managed' = Managed BY Zenon, <4>2 DEF Managed
      <4>5. \A n \in Managed' : ~Overlaps(s, net'[n]) BY Zenon, <4>2, <4>3, <4>4
      <4> QED BY Zenon, <3>2, <4>1, <4>2, <4>5 DEF JobOK, At, Op, Overlaps, Contains
    <3>7. JobInv' BY Zenon, <1>0, <1>2, <3>4, <3>6, HolderJobs
    <3> QED BY Zenon, <1>1, <1>3, <1>4, <2>1, <3>2, <3>4, <3>5, <3>7, HandlerKeeps
  <2> QED BY Zenon, <1>11, <2>2, <2>3 DEF NetSubnet
<1>12. CASE NetVerify(h)
  <2>1. /\ Op(h) = "mknet" /\ job[h].at = "verify"
        /\ UNCHANGED <<link, table, sysctl, halfUp, net, ctr, on, late>>
    BY Zenon, <1>12 DEF NetVerify, At, Op, hostVars, dockerVars
  <2>2. job[h].net \in Nets BY Zenon, <1>0 DEF JobTypes, Jobs
  <2>3. CASE Return(h) /\ Acked(h)
    <3>1. loose' = loose /\ acked' = acked \cup {job[h].net}
      BY Zenon, <2>1, <2>3 DEF Acked, Made
    <3>2. /\ JobTypes' /\ LockInv' /\ ~Holds(h)'
          /\ \A g \in ApiCalls \ {h} : job'[g] = job[g]
      BY Zenon, <1>0, <2>3, ReturnIs
    <3>3. Types'
      BY Zenon, <1>0, <2>1, <2>2, <3>1, <3>2 DEF Types, DockerTypes, HostTypes, HistoryTypes
    <3>4. Quiet /\ NoStarts BY Zenon, <2>1, <3>1, TameNothing DEF Quiet, NoStarts
    <3>5. JobInv' BY Zenon, <1>0, <3>2, <3>4, OtherJobs DEF Inv
    <3>6. \A n \in Nets : MakesNet(h, n) => n \in acked' BY Zenon, <3>1 DEF MakesNet
    <3> QED BY Zenon, <1>1, <1>3, <2>1, <3>2, <3>3, <3>4, <3>5, <3>6, HandlerKeeps
  <2>4. CASE MoveTo(h, "rollback") /\ UNCHANGED historyVars
    <3>0. UNCHANGED <<acked, loose>> BY Zenon, <2>4 DEF historyVars
    <3>1. /\ JobTypes' /\ LockInv' /\ lock' = h
          /\ \A g \in ApiCalls \ {h} : job'[g] = job[g]
          /\ job'[h].at = "rollback" /\ Op(h)' = Op(h) /\ job'[h].net = job[h].net
      BY Zenon, <1>5, <2>4
    <3>2. Types'
      BY Zenon, <1>0, <2>1, <3>0, <3>1 DEF Types, DockerTypes, HostTypes, HistoryTypes
    <3>3. Quiet BY Zenon, <2>1, <3>0, TameNothing DEF Quiet
    <3>4. link /\ (table \/ halfUp) BY Zenon, <1>0, <2>1 DEF JobOK
    <3>5. JobOK(h)' BY Zenon, <2>1, <3>1, <3>4 DEF JobOK, At, Op
    <3>6. JobInv' BY Zenon, <1>0, <1>2, <3>1, <3>5, HolderJobs
    <3>7. \A n \in Nets : MakesNet(h, n) => MakesNet(h, n)' BY Zenon, <3>1 DEF MakesNet, Op
    <3> QED BY Zenon, <1>1, <1>3, <2>1, <3>1, <3>2, <3>3, <3>6, <3>7, HandlerKeeps
  <2> QED BY Zenon, <1>12, <2>3, <2>4 DEF NetVerify
<1> QED BY Zenon, <1>8, <1>9, <1>10, <1>11, <1>12 DEF Network

\* create: the netfilter sysctls, the network, the mounts; the identity cache records
\* the container.  stop and remove look it up without the mutex.
LEMMA ContainerKeeps ==
  ASSUME Inv, NEW h \in ApiCalls, Container(h)
  PROVE  Inv'
<1>0. Types /\ JobTypes /\ LockInv /\ HostTypes /\ DockerTypes /\ JobOK(h)
  BY Zenon DEF Inv, Types, JobInv
<1>1. CASE CtrInspect(h)
  <2>1. Reads /\ Op(h) \notin Locking /\ Op(h) \in {"stop", "remove"}
    BY Zenon, <1>1 DEF CtrInspect, Op, Locking
  <2>2. "call" \in Places \ {"lock"} BY Zenon DEF Places
  <2>3. JobTypes' /\ LockInv' /\ \A g \in ApiCalls \ {h} : job'[g] = job[g]
    BY Zenon, <1>0, <1>1, <2>1, <2>2, GotoIs, ReturnIs DEF CtrInspect
  <2>4. ~Holds(h)'
    <3>1. CASE Return(h) BY Zenon, <1>0, <3>1, ReturnIs
    <3>2. CASE MoveTo(h, "call")
      <4>1. Op(h)' = Op(h) BY Zenon, <1>0, <2>1, <2>2, <3>2, GotoIs
      <4> QED BY Zenon, <2>1, <4>1 DEF Holds
    <3> QED BY Zenon, <1>1, <3>1, <3>2 DEF CtrInspect
  <2>5. Types' /\ Quiet /\ NoStarts /\ late' = late BY Zenon, <1>0, <2>1, <2>3, ReadsQuiet
  <2>6. JobInv' BY Zenon, <1>0, <2>3, <2>4, <2>5, OtherJobs DEF Inv
  <2>7. (\A n \in Nets : ~MakesNet(h, n)) /\ (\A c \in Ctrs : ~MakesCtr(h, c))
    BY Zenon, <2>1 DEF MakesNet, MakesCtr
  <2> QED BY Zenon, <2>1, <2>3, <2>5, <2>6, <2>7, HandlerKeeps
<1>2. CASE ~CtrInspect(h)
  <2>1. Op(h) = "mkctr" /\ job[h].at \in {"begin", "network", "mounts", "record"}
    BY Zenon, <1>2 DEF Container, CtrNetfilter, CtrNetwork, CtrMounts, CtrRecord, At, Op
  <2>2. Holds(h) /\ lock = h BY Zenon, <1>0, <2>1 DEF Holds, Locking, LockInv
  <2>3. \A n \in Nets : ~MakesNet(h, n) BY Zenon, <2>1 DEF MakesNet
  <2>4. job[h].at # "record" => \A c \in Ctrs : ~MakesCtr(h, c) BY Zenon, <2>1 DEF MakesCtr
  <2>5. ASSUME NEW a \in {"network", "mounts", "create", "rollback"}, MoveTo(h, a)
        PROVE  /\ JobTypes' /\ LockInv' /\ lock' = h
               /\ \A g \in ApiCalls \ {h} : job'[g] = job[g]
               /\ job'[h].at = a /\ Op(h)' = "mkctr" /\ a \in Places \ {"lock"}
               /\ job'[h].net = job[h].net /\ job'[h].ctr = job[h].ctr
    <3>1. a \in Places \ {"lock"} BY Zenon, <2>5 DEF Places
    <3> QED BY Zenon, <1>0, <2>1, <2>2, <2>5, <3>1, GotoIs
  <2>6. ASSUME Reads, Return(h), job[h].at # "record" PROVE Inv'
    BY Zenon, <2>1, <2>2, <2>3, <2>4, <2>6, ReadReturns
  <2>7. ASSUME Reads, NEW a \in {"network", "mounts", "create"}, MoveTo(h, a), job[h].at # "record",
               a # "network" => link \/ job[h].net \in loose
        PROVE  Inv'
    <3>1. /\ job'[h].at = a /\ Op(h)' = "mkctr" /\ a \in Places \ {"lock"}
          /\ job'[h].net = job[h].net
      BY Zenon, <2>5, <2>7
    <3>2. UNCHANGED <<link, loose>> BY Zenon, <2>7 DEF Reads, hostVars, historyVars
    <3>3. JobOK(h)' BY Zenon, <2>7, <3>1, <3>2 DEF JobOK, At, Op
    <3> QED BY Zenon, <2>1, <2>2, <2>3, <2>4, <2>7, <3>1, <3>3, ReadGoesOn
  <2>8. CASE CtrNetfilter(h)
    <3>1. Reads /\ job[h].at = "begin" BY Zenon, <2>8 DEF CtrNetfilter, At
    <3> QED BY Zenon, <2>6, <2>7, <2>8, <3>1 DEF CtrNetfilter
  <2>9. CASE CtrNetwork(h)
    <3>1. Reads /\ job[h].at = "network" BY Zenon, <2>9 DEF CtrNetwork, At
    <3>2. CASE job[h].net \in Managed /\ MoveTo(h, "mounts")
      <4>1. link \/ job[h].net \in loose BY Zenon, <3>2 DEF Inv, NothingWithoutBridge
      <4> QED BY Zenon, <2>7, <3>1, <3>2, <4>1
    <3> QED BY Zenon, <2>6, <2>9, <3>1, <3>2 DEF CtrNetwork
  <2>10. CASE CtrMounts(h)
    <3>1. Reads /\ job[h].at = "mounts" BY Zenon, <2>10 DEF CtrMounts, At
    <3>2. link \/ job[h].net \in loose BY Zenon, <1>0, <2>1, <3>1 DEF JobOK
    <3> QED BY Zenon, <2>6, <2>7, <2>10, <3>1, <3>2 DEF CtrMounts
  <2>11. CASE CtrRecord(h)
    <3>1. job[h].at = "record" /\ UNCHANGED <<link, table, sysctl, halfUp, net, ctr, on, late>>
      BY Zenon, <2>11 DEF CtrRecord, At, hostVars, dockerVars
    <3>2. job[h].ctr \in Ctrs BY Zenon, <1>0 DEF JobTypes, Jobs
    <3>3. CASE Return(h) /\ Acked(h)
      <4>1. loose' = loose /\ acked' = acked \cup {job[h].ctr}
        BY Zenon, <2>1, <3>3 DEF Acked, Made
      <4>2. /\ JobTypes' /\ LockInv' /\ ~Holds(h)'
            /\ \A g \in ApiCalls \ {h} : job'[g] = job[g]
        BY Zenon, <1>0, <3>3, ReturnIs
      <4>3. Types'
        BY Zenon, <1>0, <3>1, <3>2, <4>1, <4>2
           DEF Types, DockerTypes, HostTypes, HistoryTypes
      <4>4. Quiet /\ NoStarts BY Zenon, <3>1, <4>1, TameNothing DEF Quiet, NoStarts
      <4>5. JobInv' BY Zenon, <1>0, <4>2, <4>4, OtherJobs DEF Inv
      <4>6. \A c \in Ctrs : MakesCtr(h, c) => c \in acked' BY Zenon, <4>1 DEF MakesCtr
      <4> QED BY Zenon, <2>1, <2>3, <3>1, <4>2, <4>3, <4>4, <4>5, <4>6, HandlerKeeps
    <3>4. CASE MoveTo(h, "rollback") /\ UNCHANGED historyVars
      <4>0. UNCHANGED <<acked, loose>> BY Zenon, <3>4 DEF historyVars
      <4>1. /\ JobTypes' /\ LockInv' /\ lock' = h
            /\ \A g \in ApiCalls \ {h} : job'[g] = job[g]
            /\ job'[h].at = "rollback" /\ Op(h)' = "mkctr"
            /\ job'[h].net = job[h].net /\ job'[h].ctr = job[h].ctr
        BY Zenon, <2>5, <3>4
      <4>2. Types'
        BY Zenon, <1>0, <3>1, <4>0, <4>1 DEF Types, DockerTypes, HostTypes, HistoryTypes
      <4>3. Quiet BY Zenon, <3>1, <4>0, TameNothing DEF Quiet
      <4>4. /\ link \/ job[h].net \in loose
            /\ on[job[h].ctr] = job[h].net /\ ctr[job[h].ctr] # "absent"
        BY Zenon, <1>0, <2>1, <3>1 DEF JobOK
      <4>5. JobOK(h)' BY Zenon, <3>1, <4>0, <4>1, <4>4 DEF JobOK, At, Op
      <4>6. JobInv' BY Zenon, <1>0, <2>2, <4>1, <4>5, HolderJobs
      <4>7. \A c \in Ctrs : MakesCtr(h, c) => MakesCtr(h, c)' BY Zenon, <4>1 DEF MakesCtr
      <4> QED BY Zenon, <2>1, <2>3, <3>1, <4>1, <4>2, <4>3, <4>6, <4>7, HandlerKeeps
    <3> QED BY Zenon, <2>11, <3>3, <3>4 DEF CtrRecord
  <2> QED BY Zenon, <1>2, <2>8, <2>9, <2>10, <2>11 DEF Container
<1> QED BY Zenon, <1>1, <1>2

-----------------------------------------------------------------------------
(* The calls of Docker that change something.                              *)

\* Which call a handler waits for, where.
LEMMA CallIs ==
  ASSUME JobTypes, NEW h \in ApiCalls, Calling(h)
  PROVE  /\ Call(h) \in Calls
         /\ Call(h).net = job[h].net /\ Call(h).sub = job[h].sub /\ Call(h).ctr = job[h].ctr
         /\ \/ Op(h) = "mknet" /\ job[h].at = "create" /\ Call(h).do = "mknet"
            \/ Op(h) = "mknet" /\ job[h].at = "rollback" /\ Call(h).do = "rmnid"
            \/ Op(h) = "rmnet" /\ job[h].at = "remove" /\ Call(h).do = "rmnet"
            \/ Op(h) = "mkctr" /\ job[h].at = "create" /\ Call(h).do = "mkctr"
            \/ Op(h) = "mkctr" /\ job[h].at = "start" /\ Call(h).do = "start"
            \/ Op(h) = "mkctr" /\ job[h].at = "rollback" /\ Call(h).do = "rmctr"
            \/ Op(h) = "stop" /\ job[h].at = "call" /\ Call(h).do = "stop"
            \/ Op(h) = "remove" /\ job[h].at = "call" /\ Call(h).do = "rmctr"
<1> DEFINE x(do) == [do |-> do, net |-> job[h].net, sub |-> job[h].sub, ctr |-> job[h].ctr]
<1>0. job[h].net \in Nets /\ job[h].sub \in Subnets \cup {NoSub} /\ job[h].ctr \in Ctrs
  BY Zenon DEF JobTypes, Jobs
<1>1. CASE At(h, "mknet", "create") BY Zenon, <1>0, <1>1 DEF Call, At, Op, Calls
<1>2. CASE At(h, "mknet", "rollback") BY Zenon, <1>0, <1>2 DEF Call, At, Op, Calls
<1>3. CASE At(h, "rmnet", "remove") BY Zenon, <1>0, <1>3 DEF Call, At, Op, Calls
<1>4. CASE At(h, "mkctr", "create") BY Zenon, <1>0, <1>4 DEF Call, At, Op, Calls
<1>5. CASE At(h, "mkctr", "start") BY Zenon, <1>0, <1>5 DEF Call, At, Op, Calls
<1>6. CASE At(h, "mkctr", "rollback") BY Zenon, <1>0, <1>6 DEF Call, At, Op, Calls
<1>7. CASE At(h, "stop", "call") BY Zenon, <1>0, <1>7 DEF Call, At, Op, Calls
<1>8. CASE At(h, "remove", "call") BY Zenon, <1>0, <1>8 DEF Call, At, Op, Calls
<1> QED BY ZenonT(30), <1>1, <1>2, <1>3, <1>4, <1>5, <1>6, <1>7, <1>8 DEF Calling, Call

\* Docker made the network: it is in the hands of the handler, the bridge is there, and
\* its subnet is free.
LEMMA NetMade ==
  ASSUME Inv, NEW h \in ApiCalls, Answered(h), At(h, "mknet", "create")
  PROVE  Inv'
<1> DEFINE n == job[h].net
<1>0. Types /\ DockerTypes /\ JobTypes /\ LockInv /\ JobOK(h)
  BY Zenon DEF Inv, Types, JobInv
<1>1. Op(h) = "mknet" /\ job[h].at = "create" /\ n \in Nets
  BY Zenon, <1>0 DEF At, Op, JobTypes, Jobs
<1>2. Holds(h) /\ lock = h BY Zenon, <1>0, <1>1 DEF Holds, Locking, LockInv
<1>3. /\ Perform(Call(h)) /\ MoveTo(h, "verify") /\ Calling(h)
      /\ UNCHANGED <<link, table, sysctl, halfUp, late, loose>>
      /\ acked' = acked \ {n}
  BY Zenon, <1>1 DEF Answered, Anew, Made, hostVars, At
<1>4. Call(h) \in Calls /\ Call(h).do = "mknet" /\ Call(h).net = n /\ Call(h).sub = job[h].sub
  BY Zenon, <1>0, <1>1, <1>3, CallIs
<1>5. net[n] = NoSub /\ net' = [net EXCEPT ![n] = job[h].sub] /\ UNCHANGED <<ctr, on>>
  BY Zenon, <1>0, <1>3, <1>4, PerformIs
<1>6. "verify" \in Places \ {"lock"} BY Zenon DEF Places
<1>7. /\ JobTypes' /\ LockInv' /\ lock' = h /\ \A g \in ApiCalls \ {h} : job'[g] = job[g]
      /\ job'[h].at = "verify" /\ Op(h)' = "mknet" /\ job'[h].net = n
  BY Zenon, <1>0, <1>1, <1>2, <1>3, <1>6, GotoIs
<1>8. link /\ (table \/ halfUp) BY Zenon, <1>0, <1>1 DEF JobOK
<1>9. Types'
  <2>1. DockerTypes' BY Zenon, <1>0, <1>3, <1>4, PerformTypes DEF DockerTypes
  <2>2. HistoryTypes' BY Zenon, <1>0, <1>3 DEF Types, HistoryTypes
  <2> QED BY Zenon, <1>0, <1>3, <1>7, <2>1, <2>2 DEF Types, HostTypes
<1>10. JobOK(h)' BY Zenon, <1>3, <1>7, <1>8 DEF JobOK, At, Op
<1>11. JobInv' BY Zenon, <1>0, <1>2, <1>7, <1>10, HolderJobs
<1>12. LateInv' BY Zenon, <1>3, <1>5 DEF Inv, LateInv, LateOK
<1>13. NothingWithoutBridge' BY Zenon, <1>3, <1>8 DEF NothingWithoutBridge
<1>14. PolicyInv' BY Zenon, <1>3, <1>8 DEF PolicyInv
<1>15. Managed' \subseteq Managed \cup {n} /\ \A m \in Managed : m # n /\ net'[m] = net[m]
  BY Zenon, <1>0, <1>5 DEF Managed, DockerTypes
<1>16. MadeInv'
  <2>1. (\A m \in Nets : ~MakesNet(h, m)) /\ (\A c \in Ctrs : ~MakesCtr(h, c))
    BY Zenon, <1>1 DEF MakesNet, MakesCtr
  <2>2. ASSUME NEW g \in ApiCalls, NEW m \in Nets, MakesNet(g, m) PROVE MakesNet(g, m)'
    BY Zenon, <1>7, <2>1, <2>2 DEF MakesNet, Op
  <2>3. ASSUME NEW g \in ApiCalls, NEW c \in Ctrs, MakesCtr(g, c) PROVE MakesCtr(g, c)'
    BY Zenon, <1>7, <2>1, <2>3 DEF MakesCtr, Op
  <2>4. ASSUME NEW m, m = n PROVE MakesNet(h, m)' BY Zenon, <1>7, <2>4 DEF MakesNet
  <2>5. ASSUME NEW m \in Managed'
        PROVE  m \in acked' \cup loose' \/ \E g \in ApiCalls : MakesNet(g, m)'
    <3>1. CASE m = n BY Zenon, <2>4, <3>1
    <3>2. CASE m \in Managed
      <4>1. m \in Nets BY Zenon, <3>2 DEF Managed
      <4>2. m # n BY Zenon, <1>15, <3>2
      <4> QED BY Zenon, <1>3, <2>2, <3>2, <4>1, <4>2 DEF Inv, MadeInv
    <3> QED BY Zenon, <1>15, <3>1, <3>2
  <2>6. ASSUME NEW c \in Ctrs, Present(c)'
        PROVE  c \in acked' \cup loose' \/ \E g \in ApiCalls : MakesCtr(g, c)'
    <3>1. c # n BY Zenon, <1>1, ControlAssumption
    <3> QED BY Zenon, <1>3, <1>5, <2>3, <2>6, <3>1 DEF Inv, MadeInv, Present
  <2> QED BY Zenon, <2>5, <2>6 DEF MadeInv
<1>17. DisjointInv'
  <2> SUFFICES ASSUME loose' = {}, NEW m \in Managed', NEW k \in Managed', m # k
               PROVE  ~Overlaps(net'[m], net'[k])
    BY Zenon DEF DisjointInv, Overlaps, Contains
  <2>1. \A r \in Managed : ~Overlaps(job[h].sub, net[r]) BY Zenon, <1>0, <1>3 DEF JobOK
  <2>2. net'[n] = job[h].sub BY Zenon, <1>0, <1>1, <1>5 DEF DockerTypes
  <2>3. CASE m = n /\ k \in Managed BY Zenon, <1>15, <2>1, <2>2, <2>3
  <2>4. CASE k = n /\ m \in Managed BY Zenon, <1>15, <2>1, <2>2, <2>4 DEF Overlaps
  <2>5. CASE m \in Managed /\ k \in Managed BY Zenon, <1>3, <1>15, <2>5 DEF Inv, DisjointInv
  <2> QED BY Zenon, <1>15, <2>3, <2>4, <2>5
<1> QED BY Zenon, <1>7, <1>9, <1>11, <1>12, <1>13, <1>14, <1>16, <1>17 DEF Inv

\* Docker made the container, or started it: it is in the hands of the handler, on a
\* network that has the bridge behind it.
LEMMA CtrMade ==
  ASSUME Inv, NEW h \in ApiCalls, Answered(h), At(h, "mkctr", "create") \/ At(h, "mkctr", "start")
  PROVE  Inv'
<1> DEFINE k == job[h].ctr
<1>0. Types /\ DockerTypes /\ JobTypes /\ LockInv /\ JobOK(h)
  BY Zenon DEF Inv, Types, JobInv
<1>1. Op(h) = "mkctr" /\ job[h].at \in {"create", "start"} /\ k \in Ctrs /\ job[h].net \in Nets
  BY Zenon, <1>0 DEF At, Op, JobTypes, Jobs
<1>2. Holds(h) /\ lock = h BY Zenon, <1>0, <1>1 DEF Holds, Locking, LockInv
<1>3. /\ Perform(Call(h)) /\ Calling(h)
      /\ MoveTo(h, IF job[h].at = "create" THEN "start" ELSE "record")
      /\ UNCHANGED <<link, table, sysctl, halfUp, late, acked, loose>>
  BY Zenon DEF Answered, hostVars, historyVars, At
<1>4. /\ Call(h) \in Calls /\ Call(h).net = job[h].net /\ Call(h).ctr = k
      /\ Call(h).do = IF job[h].at = "create" THEN "mkctr" ELSE "start"
  BY Zenon, <1>0, <1>1, <1>3, CallIs
<1>5. /\ net' = net
      /\ job[h].at = "create" =>
           /\ ctr[k] = "absent" /\ ctr' = [ctr EXCEPT ![k] = "created"]
           /\ on' = [on EXCEPT ![k] = job[h].net]
      /\ job[h].at = "start" =>
           /\ ctr[k] \in {"created", "exited"} /\ job[h].net \in Managed
           /\ ctr' = [ctr EXCEPT ![k] = "running"] /\ on' = on
  BY Zenon, <1>0, <1>1, <1>3, <1>4, PerformIs
<1>6. (IF job[h].at = "create" THEN "start" ELSE "record") \in Places \ {"lock"}
  BY Zenon DEF Places
<1>7. /\ JobTypes' /\ LockInv' /\ lock' = h /\ \A g \in ApiCalls \ {h} : job'[g] = job[g]
      /\ job'[h].at \in {"start", "record"} /\ Op(h)' = "mkctr"
      /\ job'[h].net = job[h].net /\ job'[h].ctr = k
  BY Zenon, <1>0, <1>1, <1>2, <1>3, <1>6, GotoIs
<1>8. link \/ job[h].net \in loose BY Zenon, <1>0, <1>1 DEF JobOK
<1>9. on'[k] = job[h].net /\ ctr'[k] \in {"created", "running"}
  <2>1. job[h].at = "start" => on[k] = job[h].net BY Zenon, <1>0, <1>1 DEF JobOK
  <2> QED BY Zenon, <1>0, <1>1, <1>5, <2>1 DEF DockerTypes
<1>10. \A c \in Ctrs \ {k} : ctr'[c] = ctr[c] /\ on'[c] = on[c]
  BY Zenon, <1>0, <1>1, <1>5 DEF DockerTypes
<1>11. Managed' = Managed BY Zenon, <1>5 DEF Managed
<1>12. Types'
  <2>1. DockerTypes' BY Zenon, <1>0, <1>3, <1>4, PerformTypes DEF DockerTypes
  <2> QED BY Zenon, <1>0, <1>3, <1>7, <2>1 DEF Types, HostTypes, HistoryTypes
<1>13. JobInv'
  <2>1. JobOK(h)' BY Zenon, <1>3, <1>7, <1>8, <1>9 DEF JobOK, At, Op
  <2> QED BY Zenon, <1>0, <1>2, <1>7, <2>1, HolderJobs
<1>14. LateInv'
  <2>1. ASSUME NEW x \in late PROVE LateOK(x)'
    <3>1. LateOK(x) /\ x.ctr \in Ctrs BY Zenon, <1>0 DEF Inv, LateInv, DockerTypes, Calls
    <3>2. CASE x.ctr # k BY Zenon, <1>3, <1>10, <3>1, <3>2 DEF LateOK
    <3>3. CASE x.ctr = k /\ x.do = "start"
      <4>1. job[h].at = "start" /\ on' = on BY Zenon, <1>1, <1>5, <3>1, <3>3 DEF LateOK
      <4> QED BY Zenon, <1>3, <1>9, <3>1, <3>3, <4>1 DEF LateOK
    <3>4. CASE x.do # "start" BY Zenon, <1>3, <3>1, <3>4 DEF LateOK
    <3> QED BY Zenon, <3>2, <3>3, <3>4
  <2> QED BY Zenon, <1>3, <2>1 DEF LateInv
<1>15. NothingWithoutBridge'
  <2> SUFFICES ASSUME ~link'
               PROVE  /\ Managed' \subseteq loose'
                      /\ \A c \in Ctrs : Present(c)' => {c, on'[c]} \cap loose' # {}
    BY Zenon DEF NothingWithoutBridge
  <2>1. /\ Managed \subseteq loose
        /\ \A c \in Ctrs : Present(c) => {c, on[c]} \cap loose # {}
    BY Zenon, <1>3 DEF Inv, NothingWithoutBridge
  <2>2. \A c \in Ctrs \ {k} : Present(c)' => Present(c) BY Zenon, <1>10 DEF Present
  <2> QED BY Zenon, <1>3, <1>8, <1>9, <1>10, <1>11, <2>1, <2>2
<1>16. MadeInv'
  <2>1. \A m \in Nets : ~MakesNet(h, m) BY Zenon, <1>1 DEF MakesNet
  <2>2. ASSUME NEW g \in ApiCalls, NEW m \in Nets, MakesNet(g, m) PROVE MakesNet(g, m)'
    BY Zenon, <1>7, <2>1, <2>2 DEF MakesNet, Op
  <2>3. ASSUME NEW c, c = k PROVE MakesCtr(h, c)' BY Zenon, <1>7, <2>3 DEF MakesCtr
  <2>4. ASSUME NEW g \in ApiCalls, NEW c \in Ctrs \ {k}, MakesCtr(g, c) PROVE MakesCtr(g, c)'
    BY Zenon, <1>7, <2>4 DEF MakesCtr, Op
  <2>5. ASSUME NEW m \in Managed'
        PROVE  m \in acked' \cup loose' \/ \E g \in ApiCalls : MakesNet(g, m)'
    <3>1. m \in Nets /\ m \in Managed BY Zenon, <1>11 DEF Managed
    <3> QED BY Zenon, <1>3, <2>2, <3>1 DEF Inv, MadeInv
  <2>6. ASSUME NEW c \in Ctrs, Present(c)'
        PROVE  c \in acked' \cup loose' \/ \E g \in ApiCalls : MakesCtr(g, c)'
    <3>1. CASE c = k BY Zenon, <2>3, <3>1
    <3>2. CASE c # k
      <4>1. Present(c) BY Zenon, <1>10, <2>6, <3>2 DEF Present
      <4> QED BY Zenon, <1>3, <2>4, <3>2, <4>1 DEF Inv, MadeInv
    <3> QED BY Zenon, <3>1, <3>2
  <2> QED BY Zenon, <2>5, <2>6 DEF MadeInv
<1>17. DisjointInv' BY Zenon, <1>3, <1>5, <1>11 DEF Inv, DisjointInv, Overlaps, Contains
<1>18. PolicyInv'
  <2> SUFFICES ASSUME ~table', ~halfUp'
               PROVE  /\ Managed' \subseteq loose'
                      /\ \A c \in Ctrs : ctr'[c] = "running" => on'[c] \in loose'
                      /\ link' => \E g \in ApiCalls : Op(g)' = "up" /\ job'[g].at \in {"gateway", "policy"}
    BY Zenon DEF PolicyInv
  <2>1. /\ Managed \subseteq loose
        /\ \A c \in Ctrs : ctr[c] = "running" => on[c] \in loose
        /\ link => \E g \in ApiCalls : Op(g) = "up" /\ job[g].at \in {"gateway", "policy"}
    BY Zenon, <1>3 DEF Inv, PolicyInv
  <2>2. ctr'[k] = "running" => on'[k] \in loose'
    BY Zenon, <1>0, <1>1, <1>3, <1>5, <1>9, <2>1 DEF DockerTypes
  <2>3. \A c \in Ctrs : ctr'[c] = "running" => on'[c] \in loose'
    BY Zenon, <1>3, <1>10, <2>1, <2>2
  <2>4. ASSUME NEW g \in ApiCalls, Op(g) = "up" PROVE job'[g] = job[g]
    BY Zenon, <1>1, <1>7, <2>4
  <2> QED BY Zenon, <1>3, <1>11, <2>1, <2>3, <2>4 DEF Op
<1> QED BY Zenon, <1>7, <1>12, <1>13, <1>14, <1>15, <1>16, <1>17, <1>18 DEF Inv

\* A handler gives back the mutex after a quiet step, and what it made is accounted for.
LEMMA ReturnKeeps ==
  ASSUME Inv, NEW h \in ApiCalls, Return(h), DockerTypes', HostTypes', HistoryTypes', Quiet,
         Holds(h) \/ NoStarts,
         \A x \in late' : x \in late \/ LateOK(x)',
         \A n \in Nets : MakesNet(h, n) => n \in loose' \/ net'[n] = NoSub,
         \A c \in Ctrs : MakesCtr(h, c) => c \in loose' \/ ~Present(c)',
         Op(h) = "up" => table' \/ halfUp'
  PROVE  Inv'
<1>0. Types /\ JobTypes /\ LockInv /\ JobInv BY Zenon DEF Inv, Types
<1>1. /\ JobTypes' /\ LockInv' /\ ~Holds(h)'
      /\ \A g \in ApiCalls \ {h} : job'[g] = job[g]
      /\ lock' = IF lock = h THEN NoCall ELSE lock
  BY Zenon, <1>0, ReturnIs
<1>2. Types' BY Zenon, <1>1 DEF Types
<1>3. JobInv'
  <2>1. CASE Holds(h)
    <3>1. lock' = NoCall BY Zenon, <1>0, <1>1, <2>1 DEF LockInv
    <3>2. JobOK(h)' BY Zenon, <1>1, FreeJob
    <3> QED BY Zenon, <1>0, <1>1, <2>1, <3>1, <3>2, HolderJobs
  <2>2. CASE NoStarts BY Zenon, <1>0, <1>1, <2>2, OtherJobs
  <2> QED BY Zenon, <2>1, <2>2
<1> QED BY Zenon, <1>1, <1>2, <1>3, HandlerKeeps

\* What a handler makes is a network or a container.
LEMMA MadeTypes ==
  ASSUME JobTypes, NEW h \in ApiCalls
  PROVE  /\ Made(h) \subseteq Nets \cup Ctrs
         /\ Op(h) = "mknet" => job[h].net \in Made(h)
         /\ Op(h) = "mkctr" => job[h].ctr \in Made(h)
BY DEF JobTypes, Jobs, Made

\* A removal or a stop is answered.
LEMMA RemovalAnswered ==
  ASSUME Inv, NEW h \in ApiCalls, Answered(h), ~At(h, "mknet", "create"),
         ~At(h, "mkctr", "create"), ~At(h, "mkctr", "start")
  PROVE  Inv'
<1>0. Types /\ DockerTypes /\ JobTypes /\ LateInv BY Zenon DEF Inv, Types
<1>1. /\ Calling(h) /\ Perform(Call(h)) /\ Return(h)
      /\ UNCHANGED <<link, table, sysctl, halfUp, late, acked, loose>>
  BY Zenon DEF Answered, hostVars, historyVars
<1>2. /\ Call(h) \in Calls /\ Call(h).net = job[h].net /\ Call(h).ctr = job[h].ctr
      /\ Op(h) # "up" /\ Call(h).do \in {"rmnet", "rmnid", "stop", "rmctr"}
      /\ Op(h) = "mknet" => Call(h).do = "rmnid"
      /\ Op(h) = "mkctr" => Call(h).do = "rmctr"
  BY Zenon, <1>0, <1>1, CallIs DEF At, Op
<1>3. Tame BY Zenon, <1>0, <1>1, <1>2, TameCall
<1>4. Quiet /\ NoStarts BY Zenon, <1>1, <1>3 DEF Quiet, NoStarts
<1>5. DockerTypes' /\ HostTypes' /\ HistoryTypes'
  <2>1. DockerTypes' BY Zenon, <1>0, <1>1, <1>2, PerformTypes DEF DockerTypes
  <2> QED BY Zenon, <1>0, <1>1, <2>1 DEF Types, HostTypes, HistoryTypes
<1>6. ASSUME NEW n \in Nets, MakesNet(h, n) PROVE net'[n] = NoSub
  <2>1. n = Call(h).net /\ Call(h).do = "rmnid" BY Zenon, <1>2, <1>6 DEF MakesNet
  <2> QED BY Zenon, <1>0, <1>1, <1>2, <2>1, PerformIs DEF DockerTypes
<1>7. ASSUME NEW c \in Ctrs, MakesCtr(h, c) PROVE ~Present(c)'
  <2>1. c = Call(h).ctr /\ Call(h).do = "rmctr" BY Zenon, <1>2, <1>7 DEF MakesCtr
  <2>2. ctr'[c] = "removed" BY Zenon, <1>0, <1>1, <1>2, <2>1, PerformIs DEF DockerTypes
  <2> QED BY Zenon, <2>2 DEF Present
<1> QED BY Zenon, <1>1, <1>2, <1>4, <1>5, <1>6, <1>7, ReturnKeeps

\* A container that does not start is removed again, by the handler that made it.
LEMMA StartFails ==
  ASSUME Inv, NEW h \in ApiCalls, At(h, "mkctr", "start"), MoveTo(h, "rollback"),
         UNCHANGED <<hostVars, dockerVars>>, DockerTypes', HistoryTypes',
         loose \subseteq loose', acked' = acked,
         \A x \in late' : x \in late \/ LateOK(x)'
  PROVE  Inv'
<1>0. Types /\ JobTypes /\ LockInv /\ JobOK(h) BY Zenon DEF Inv, Types, JobInv
<1>1. Op(h) = "mkctr" /\ job[h].at = "start" BY Zenon DEF At, Op
<1>2. Holds(h) /\ lock = h BY Zenon, <1>0, <1>1 DEF Holds, Locking, LockInv
<1>3. UNCHANGED <<link, table, sysctl, halfUp, net, ctr, on>>
  BY Zenon DEF hostVars, dockerVars
<1>4. "rollback" \in Places \ {"lock"} BY Zenon DEF Places
<1>5. /\ JobTypes' /\ LockInv' /\ lock' = h /\ \A g \in ApiCalls \ {h} : job'[g] = job[g]
      /\ job'[h].at = "rollback" /\ Op(h)' = "mkctr"
      /\ job'[h].net = job[h].net /\ job'[h].ctr = job[h].ctr
  BY Zenon, <1>0, <1>1, <1>2, <1>4, GotoIs
<1>6. Types' BY Zenon, <1>0, <1>3, <1>5 DEF Types, HostTypes
<1>7. Quiet BY Zenon, <1>3, TameNothing DEF Quiet
<1>8. JobInv'
  <2>1. /\ link \/ job[h].net \in loose
        /\ on[job[h].ctr] = job[h].net /\ ctr[job[h].ctr] # "absent"
    BY Zenon, <1>0, <1>1 DEF JobOK
  <2>2. JobOK(h)' BY Zenon, <1>3, <1>5, <2>1 DEF JobOK, At, Op
  <2> QED BY Zenon, <1>0, <1>2, <1>5, <2>2, HolderJobs
<1>9. \A n \in Nets : ~MakesNet(h, n) BY Zenon, <1>1 DEF MakesNet
<1>10. \A c \in Ctrs : MakesCtr(h, c) => MakesCtr(h, c)' BY Zenon, <1>5 DEF MakesCtr
<1> QED BY Zenon, <1>1, <1>5, <1>6, <1>7, <1>8, <1>9, <1>10, HandlerKeeps

\* A call fails: what a rollback could not remove is reported to be there still.
LEMMA FailedKeeps ==
  ASSUME Inv, NEW h \in ApiCalls, Failed(h)
  PROVE  Inv'
<1>0. Types /\ DockerTypes /\ HostTypes /\ HistoryTypes /\ JobTypes BY Zenon DEF Inv, Types
<1>1. Calling(h) /\ AfterFailure(h) /\ UNCHANGED <<hostVars, dockerVars, late>>
  BY Zenon DEF Failed
<1>2. loose \subseteq loose' /\ acked' = acked /\ loose' \subseteq loose \cup Made(h)
  BY Zenon DEF Failed, Loose, historyVars
<1>3. UNCHANGED <<link, table, sysctl, halfUp, net, ctr, on, late>>
  BY Zenon, <1>1 DEF hostVars, dockerVars
<1>4. DockerTypes' /\ HostTypes' /\ HistoryTypes'
  BY Zenon, <1>0, <1>2, <1>3, MadeTypes DEF DockerTypes, HostTypes, HistoryTypes
<1>5. Quiet /\ NoStarts BY Zenon, <1>2, <1>3, TameNothing DEF Quiet, NoStarts
<1>6. CASE At(h, "mkctr", "start")
  BY Zenon, <1>1, <1>2, <1>3, <1>4, <1>6, StartFails DEF AfterFailure
<1>7. CASE ~At(h, "mkctr", "start")
  <2>1. Return(h) BY Zenon, <1>1, <1>7 DEF AfterFailure
  <2>2. Op(h) # "up" BY Zenon, <1>0, <1>1, CallIs
  <2>3. job[h].at = "rollback" => loose' = loose \cup Made(h) BY Zenon DEF Failed, Loose
  <2>4. ASSUME NEW n \in Nets, MakesNet(h, n) PROVE n \in loose'
    <3>1. job[h].at = "rollback" BY Zenon, <1>0, <1>1, <2>4, CallIs DEF MakesNet
    <3> QED BY Zenon, <1>0, <2>3, <2>4, <3>1, MadeTypes DEF MakesNet
  <2>5. ASSUME NEW c \in Ctrs, MakesCtr(h, c) PROVE c \in loose'
    <3>1. job[h].at = "rollback"
      BY Zenon, <1>0, <1>1, <1>7, <2>5, CallIs DEF MakesCtr, At, Op
    <3> QED BY Zenon, <1>0, <2>3, <2>5, <3>1, MadeTypes DEF MakesCtr
  <2> QED BY Zenon, <1>3, <1>4, <1>5, <2>1, <2>2, <2>4, <2>5, ReturnKeeps
<1> QED BY Zenon, <1>6, <1>7

\* A network without an id is left, and its caller is not told what became of it.
LEMMA NamelessKeeps ==
  ASSUME Inv, NEW h \in ApiCalls, Nameless(h)
  PROVE  Inv'
<1>0. Types /\ DockerTypes /\ HostTypes /\ HistoryTypes /\ JobTypes BY Zenon DEF Inv, Types
<1>1. /\ Perform(Call(h)) /\ Return(h) /\ Loose(h)
      /\ UNCHANGED <<link, table, sysctl, halfUp, late>>
  BY Zenon DEF Nameless, hostVars
<1>2. Op(h) = "mknet" /\ job[h].at = "create" BY Zenon DEF Nameless, At, Op
<1>3. Calling(h) BY Zenon, <1>2 DEF Calling, Call, At, Op
<1>4. Call(h) \in Calls /\ Call(h).do = "mknet" /\ Call(h).net = job[h].net
  BY Zenon, <1>0, <1>2, <1>3, CallIs
<1>5. loose' = loose \cup Made(h) /\ acked' = acked BY Zenon, <1>1 DEF Loose
<1>6. Call(h).net \in loose' BY Zenon, <1>0, <1>2, <1>4, <1>5, MadeTypes
<1>7. Tame
  <2>1. net' = [net EXCEPT ![Call(h).net] = Call(h).sub] /\ UNCHANGED <<ctr, on>>
    BY Zenon, <1>0, <1>1, <1>4, PerformIs
  <2>2. ASSUME NEW n \in Nets PROVE net'[n] \in {net[n], NoSub} \/ n \in loose'
    BY Zenon, <1>0, <1>6, <2>1 DEF DockerTypes
  <2> QED BY Zenon, <2>1, <2>2 DEF Tame
<1>8. Quiet /\ NoStarts BY Zenon, <1>1, <1>5, <1>7 DEF Quiet, NoStarts
<1>9. DockerTypes' /\ HostTypes' /\ HistoryTypes'
  <2>1. DockerTypes' BY Zenon, <1>0, <1>1, <1>4, PerformTypes DEF DockerTypes
  <2> QED BY Zenon, <1>0, <1>1, <1>5, <2>1, MadeTypes DEF HostTypes, HistoryTypes
<1>10. (\A n \in Nets : ~MakesNet(h, n)) /\ (\A c \in Ctrs : ~MakesCtr(h, c))
  BY Zenon, <1>2 DEF MakesNet, MakesCtr
<1> QED BY Zenon, <1>1, <1>2, <1>8, <1>9, <1>10, ReturnKeeps

\* A call that is given up: its caller is not told the end of what it makes.
LEMMA GivenUpCall ==
  ASSUME Inv, NEW h \in ApiCalls, Calling(h), Loose(h), UNCHANGED dockerVars,
         late' = late \cup {Call(h)}
  PROVE  /\ DockerTypes' /\ HistoryTypes'
         /\ \A x \in late' : x \in late \/ LateOK(x)'
         /\ Holds(h) \/ NoStarts
<1>0. DockerTypes /\ HistoryTypes /\ JobTypes /\ JobOK(h) BY Zenon DEF Inv, Types, JobInv
<1>1. net' = net /\ ctr' = ctr /\ on' = on BY Zenon DEF dockerVars
<1>2. loose' = loose \cup Made(h) /\ acked' = acked BY Zenon DEF Loose
<1>3. /\ Call(h) \in Calls /\ Call(h).net = job[h].net /\ Call(h).ctr = job[h].ctr
      /\ Call(h).do \in {"mknet", "rmnid"} => Op(h) = "mknet"
      /\ Call(h).do \in {"mkctr", "start"} => Op(h) = "mkctr"
      /\ Call(h).do = "start" => job[h].at = "start"
  BY Zenon, <1>0, CallIs
<1>4. DockerTypes' /\ HistoryTypes'
  BY Zenon, <1>0, <1>1, <1>2, <1>3, MadeTypes DEF DockerTypes, HistoryTypes
<1>5. ASSUME NEW x \in late', x \notin late PROVE LateOK(x)'
  <2>1. x = Call(h) BY Zenon, <1>5
  <2>2. x.do \in {"mknet", "rmnid"} => x.net \in loose'
    BY Zenon, <1>0, <1>2, <1>3, <2>1, MadeTypes
  <2>3. x.do \in {"mkctr", "start"} => x.ctr \in loose'
    BY Zenon, <1>0, <1>2, <1>3, <2>1, MadeTypes
  <2>4. x.do = "start" => on[x.ctr] = x.net /\ ctr[x.ctr] # "absent"
    BY Zenon, <1>0, <1>3, <2>1 DEF JobOK
  <2> QED BY Zenon, <1>1, <2>2, <2>3, <2>4 DEF LateOK
<1>6. Holds(h) \/ NoStarts
  <2>1. CASE Call(h).do = "start" BY Zenon, <1>3, <2>1 DEF Holds, Locking
  <2>2. CASE Call(h).do # "start" BY Zenon, <2>2 DEF NoStarts
  <2> QED BY Zenon, <2>1, <2>2
<1> QED BY Zenon, <1>4, <1>5, <1>6

\* operation::run: the deadline of a call passes.
LEMMA TimesOutKeeps ==
  ASSUME Inv, NEW h \in ApiCalls, TimesOut(h)
  PROVE  Inv'
<1>0. JobTypes /\ HostTypes BY Zenon DEF Inv, Types
<1>1. /\ Calling(h) /\ late' = late \cup {Call(h)} /\ AfterFailure(h) /\ Loose(h)
      /\ UNCHANGED <<hostVars, dockerVars>>
  BY Zenon DEF TimesOut
<1>2. UNCHANGED <<link, table, sysctl, halfUp, net, ctr, on>>
  BY Zenon, <1>1 DEF hostVars, dockerVars
<1>3. loose' = loose \cup Made(h) /\ acked' = acked BY Zenon, <1>1 DEF Loose
<1>4. /\ DockerTypes' /\ HistoryTypes'
      /\ \A x \in late' : x \in late \/ LateOK(x)'
      /\ Holds(h) \/ NoStarts
  BY Zenon, <1>1, GivenUpCall
<1>5. CASE At(h, "mkctr", "start")
  BY Zenon, <1>1, <1>3, <1>4, <1>5, StartFails DEF AfterFailure
<1>6. CASE ~At(h, "mkctr", "start")
  <2>1. Return(h) BY Zenon, <1>1, <1>6 DEF AfterFailure
  <2>2. Op(h) # "up" BY Zenon, <1>0, <1>1, CallIs
  <2>3. Quiet BY Zenon, <1>2, <1>3, TameNothing DEF Quiet
  <2>4. HostTypes' BY Zenon, <1>0, <1>2 DEF HostTypes
  <2>5. \A n \in Nets : MakesNet(h, n) => n \in loose'
    BY Zenon, <1>0, <1>3, MadeTypes DEF MakesNet
  <2>6. \A c \in Ctrs : MakesCtr(h, c) => c \in loose'
    BY Zenon, <1>0, <1>3, MadeTypes DEF MakesCtr
  <2> QED BY Zenon, <1>4, <2>1, <2>2, <2>3, <2>4, <2>5, <2>6, ReturnKeeps
<1> QED BY Zenon, <1>5, <1>6

\* The client hangs up, wherever the handler is.
LEMMA HangsUpKeeps ==
  ASSUME Inv, NEW h \in ApiCalls, HangsUp(h)
  PROVE  Inv'
<1>0. JobTypes /\ HostTypes /\ DockerTypes /\ HistoryTypes BY Zenon DEF Inv, Types
<1>1. /\ late' = IF Calling(h) THEN late \cup {Call(h)} ELSE late
      /\ Return(h) /\ Loose(h) /\ halfUp' = (IF Op(h) = "up" THEN ~table ELSE halfUp)
      /\ UNCHANGED <<link, table, sysctl, dockerVars>>
  BY Zenon DEF HangsUp
<1>2. UNCHANGED <<net, ctr, on>> BY Zenon, <1>1 DEF dockerVars
<1>3. loose' = loose \cup Made(h) /\ acked' = acked BY Zenon, <1>1 DEF Loose
<1>4. /\ DockerTypes' /\ HistoryTypes'
      /\ \A x \in late' : x \in late \/ LateOK(x)'
      /\ Holds(h) \/ NoStarts
  <2>1. CASE Calling(h) BY Zenon, <1>1, <2>1, GivenUpCall
  <2>2. CASE ~Calling(h)
    <3>1. late' = late BY Zenon, <1>1, <2>2
    <3> QED
      BY Zenon, <1>0, <1>2, <1>3, <3>1, MadeTypes DEF DockerTypes, HistoryTypes, NoStarts
  <2> QED BY Zenon, <2>1, <2>2
<1>5. Quiet BY Zenon, <1>0, <1>1, <1>2, <1>3, TameNothing DEF Quiet, HostTypes
<1>6. HostTypes' BY Zenon, <1>0, <1>1 DEF HostTypes
<1>7. \A n \in Nets : MakesNet(h, n) => n \in loose'
  BY Zenon, <1>0, <1>3, MadeTypes DEF MakesNet
<1>8. \A c \in Ctrs : MakesCtr(h, c) => c \in loose'
  BY Zenon, <1>0, <1>3, MadeTypes DEF MakesCtr
<1>9. Op(h) = "up" => table' \/ halfUp' BY Zenon, <1>1
<1> QED BY Zenon, <1>1, <1>4, <1>5, <1>6, <1>7, <1>8, <1>9, ReturnKeeps

-----------------------------------------------------------------------------
(* A request arrives, takes the mutex; Docker acts by itself.              *)

\* A request arrives.
LEMMA BeginKeeps ==
  ASSUME Inv, NEW h \in ApiCalls, NEW op \in Ops, NEW n \in Nets,
         NEW s \in Explicit \cup {NoSub}, NEW c \in Ctrs, BeginCall(h, op, n, s, c)
  PROVE  Inv'
<1>0. Types /\ JobTypes /\ LockInv /\ JobInv BY Zenon DEF Inv, Types
<1> DEFINE at == IF op \in {"stop", "remove"} THEN "inspect" ELSE "lock"
           new == [op |-> op, net |-> n, sub |-> s, ctr |-> c, at |-> at]
<1>1. job[h] = Idle /\ job' = [job EXCEPT ![h] = new] /\ lock' = lock /\ late' = late
  BY Zenon DEF BeginCall
<1>2. UNCHANGED <<link, table, sysctl, halfUp, net, ctr, on, acked, loose>>
  BY Zenon DEF BeginCall, hostVars, dockerVars, historyVars
<1>3. new \in Jobs
  <2>1. at \in Places BY Zenon DEF Places
  <2>2. s \in Subnets \cup {NoSub} BY Zenon DEF Subnets
  <2> QED BY Zenon, <2>1, <2>2 DEF Jobs
<1>4. JobTypes' /\ job'[h] = new /\ \A g \in ApiCalls \ {h} : job'[g] = job[g]
  BY Zenon, <1>0, <1>1, <1>3 DEF JobTypes
<1>5. Op(h) = "none" BY <1>1 DEF Op, Idle
<1>6. ~Holds(h) BY Zenon, <1>5 DEF Holds, Locking
<1>7. Op(h)' = op /\ job'[h].at = at BY <1>4 DEF Op
<1>8. ~Holds(h)' BY Zenon, <1>7 DEF Holds, Locking
<1>9. LockInv'
  <2>1. \A g \in ApiCalls \ {h} : (Holds(g)' <=> Holds(g)) /\ Op(g)' = Op(g)
    BY Zenon, <1>4 DEF Holds, Op
  <2>2. \A g \in ApiCalls : Holds(g)' <=> lock' = g
    BY Zenon, <1>0, <1>1, <1>6, <1>8, <2>1 DEF LockInv
  <2>3. Op(h)' \notin Locking => job'[h].at \in {"idle", "inspect", "call"}
    BY Zenon, <1>7 DEF Ops, Locking
  <2>4. \A g \in ApiCalls : Op(g)' \notin Locking => job'[g].at \in {"idle", "inspect", "call"}
    BY Zenon, <1>0, <1>4, <2>1, <2>3 DEF LockInv
  <2>5. \A g \in ApiCalls : Op(g)' = "none" => job'[g].at = "idle"
    BY Zenon, <1>0, <1>4, <1>7, <2>1 DEF LockInv, Ops
  <2> QED BY Zenon, <1>0, <1>1, <2>2, <2>4, <2>5 DEF LockInv
<1>10. Types'
  BY Zenon, <1>0, <1>1, <1>2, <1>4 DEF Types, DockerTypes, HostTypes, HistoryTypes
<1>11. Quiet /\ NoStarts BY Zenon, <1>1, <1>2, TameNothing DEF Quiet, NoStarts
<1>12. JobInv' BY Zenon, <1>0, <1>4, <1>8, <1>11, OtherJobs
<1>13. (\A m \in Nets : ~MakesNet(h, m)) /\ (\A k \in Ctrs : ~MakesCtr(h, k))
  BY Zenon, <1>5 DEF MakesNet, MakesCtr
<1> QED BY Zenon, <1>1, <1>4, <1>5, <1>9, <1>10, <1>11, <1>12, <1>13, HandlerKeeps

\* It takes the mutex, which nobody holds.
LEMMA LockedKeeps ==
  ASSUME Inv, NEW h \in ApiCalls, Locked(h)
  PROVE  Inv'
<1>0. Types /\ JobTypes /\ LockInv /\ JobInv BY Zenon DEF Inv, Types
<1>1. /\ job[h].at = "lock" /\ lock = NoCall /\ lock' = h
      /\ job' = [job EXCEPT ![h].at = "begin"] /\ Reads
  BY Zenon DEF Locked
<1>2. "begin" \in Places BY Zenon DEF Places
<1>3. JobTypes' BY Zenon, <1>0, <1>1, <1>2 DEF JobTypes, Jobs
<1>4. job'[h].at = "begin" /\ Op(h)' = Op(h) /\ \A g \in ApiCalls \ {h} : job'[g] = job[g]
  BY Zenon, <1>0, <1>1 DEF JobTypes, Jobs, Op
<1>5. Op(h) \in Locking BY Zenon, <1>0, <1>1 DEF LockInv
<1>6. \A g \in ApiCalls : ~Holds(g) BY Zenon, <1>0, <1>1, ControlAssumption DEF LockInv
<1>7. Holds(h)' /\ \A g \in ApiCalls \ {h} : ~Holds(g)' /\ Op(g)' = Op(g)
  BY Zenon, <1>4, <1>5, <1>6 DEF Holds, Op
<1>8. LockInv'
  <2>1. \A g \in ApiCalls : Holds(g)' <=> lock' = g BY Zenon, <1>1, <1>7
  <2>2. \A g \in ApiCalls : Op(g)' \notin Locking => job'[g].at \in {"idle", "inspect", "call"}
    BY Zenon, <1>0, <1>4, <1>5, <1>7 DEF LockInv
  <2>3. \A g \in ApiCalls : Op(g)' = "none" => job'[g].at = "idle"
    BY Zenon, <1>0, <1>4, <1>5, <1>7 DEF LockInv, Locking
  <2> QED BY Zenon, <1>1, <2>1, <2>2, <2>3 DEF LockInv
<1>9. Types' /\ Quiet /\ late' = late BY Zenon, <1>0, <1>1, <1>3, ReadsQuiet
<1>10. JobInv'
  <2>1. JobOK(h)' BY Zenon, <1>4 DEF JobOK, At, Op
  <2>2. \A g \in ApiCalls \ {h} : JobOK(g)' BY Zenon, <1>7, FreeJob
  <2> QED BY Zenon, <2>1, <2>2 DEF JobInv
<1>11. (\A n \in Nets : ~MakesNet(h, n)) /\ (\A c \in Ctrs : ~MakesCtr(h, c))
  BY Zenon, <1>1 DEF MakesNet, MakesCtr
<1> QED BY Zenon, <1>1, <1>4, <1>8, <1>9, <1>10, <1>11, HandlerKeeps

\* Docker carries out or drops a call that was given up, or a container exits.
LEMMA DockerKeeps ==
  ASSUME Inv, (\E x \in late : Late(x)) \/ (\E c \in Ctrs : Exits(c))
  PROVE  Inv'
<1>0. Types /\ DockerTypes /\ LockInv /\ JobInv /\ LateInv BY Zenon DEF Inv, Types
<1>1. /\ UNCHANGED <<link, table, sysctl, halfUp, acked, loose, lock, job>> /\ late' \subseteq late
  BY Zenon DEF Late, Exits, hostVars, historyVars
<1>2. Tame /\ DockerTypes'
  <2>1. ASSUME NEW x \in late, Late(x) PROVE Tame /\ DockerTypes'
    <3>1. x \in Calls BY Zenon, <1>0 DEF DockerTypes
    <3>2. late' \subseteq Calls BY Zenon, <1>0, <1>1 DEF DockerTypes
    <3>3. CASE Perform(x) BY Zenon, <1>0, <1>1, <3>1, <3>2, <3>3, TameCall, PerformTypes
    <3>4. CASE UNCHANGED dockerVars
      <4>1. UNCHANGED <<net, ctr, on>> BY Zenon, <3>4 DEF dockerVars
      <4> QED BY Zenon, <1>0, <3>2, <4>1, TameNothing DEF DockerTypes
    <3> QED BY Zenon, <2>1, <3>3, <3>4 DEF Late
  <2>2. ASSUME NEW c \in Ctrs, Exits(c) PROVE Tame /\ DockerTypes'
    <3>1. /\ ctr[c] = "running" /\ ctr' = [ctr EXCEPT ![c] = "exited"]
          /\ net' = net /\ on' = on /\ late' = late
      BY Zenon, <2>2 DEF Exits
    <3> QED BY Zenon, <1>0, <3>1 DEF Tame, DockerTypes
  <2> QED BY Zenon, <2>1, <2>2
<1>3. Quiet /\ NoStarts BY Zenon, <1>1, <1>2 DEF Quiet, NoStarts
<1>4. Types' BY Zenon, <1>0, <1>1, <1>2 DEF Types, HostTypes, JobTypes, HistoryTypes
<1>5. LockInv' BY Zenon, <1>0, <1>1 DEF LockInv, Holds, Op
<1>6. JobInv'
  <2>1. ASSUME NEW h \in ApiCalls PROVE JobOK(h)'
    BY Zenon, <1>0, <1>1, <1>3, QuietJob DEF JobInv
  <2> QED BY Zenon, <2>1 DEF JobInv
<1>7. \A h \in ApiCalls, n \in Nets : MakesNet(h, n) => MakesNet(h, n)'
  BY Zenon, <1>1 DEF MakesNet, Op
<1>8. \A h \in ApiCalls, c \in Ctrs : MakesCtr(h, c) => MakesCtr(h, c)'
  BY Zenon, <1>1 DEF MakesCtr, Op
<1>9. \A h \in ApiCalls : Op(h)' = Op(h) /\ job'[h].at = job[h].at BY Zenon, <1>1 DEF Op
<1> QED BY Zenon, <1>1, <1>3, <1>4, <1>5, <1>6, <1>7, <1>8, <1>9, QuietKeeps

-----------------------------------------------------------------------------
(* The theorems.                                                           *)

\* The daemon starts with the bridge and its policy, and with nothing of its own.
LEMMA ControlStarts == ControlInit => Inv
<1> SUFFICES ASSUME ControlInit PROVE Inv OBVIOUS
<1>1. /\ link = TRUE /\ table = TRUE /\ sysctl \in BOOLEAN /\ halfUp = FALSE
      /\ net = [n \in Nets |-> NoSub] /\ ctr = [c \in Ctrs |-> "absent"]
      /\ on = [c \in Ctrs |-> Default] /\ lock = NoCall /\ job = [h \in ApiCalls |-> Idle]
      /\ late = {} /\ acked = {} /\ loose = {}
  BY Zenon DEF ControlInit
<1>2. Idle \in Jobs
  <2>1. (CHOOSE c \in Ctrs : TRUE) \in Ctrs BY Zenon, ControlAssumption
  <2> QED BY Zenon, <2>1, ControlAssumption DEF Idle, Jobs, Places
<1>3. Types
  BY Zenon, <1>1, <1>2, ControlAssumption
     DEF Types, DockerTypes, HostTypes, JobTypes, HistoryTypes
<1>4. \A h \in ApiCalls : Op(h) = "none" /\ job[h].at = "idle" BY Zenon, <1>1 DEF Op, Idle
<1>5. \A h \in ApiCalls : ~Holds(h) BY Zenon, <1>4 DEF Holds, Locking
<1>6. LockInv BY Zenon, <1>1, <1>4, <1>5, ControlAssumption DEF LockInv
<1>7. JobInv BY Zenon, <1>5, FreeJob DEF JobInv
<1>8. Managed = {} /\ \A c \in Ctrs : ~Present(c) BY Zenon, <1>1 DEF Managed, Present
<1>9. LateInv /\ NothingWithoutBridge BY Zenon, <1>1 DEF LateInv, NothingWithoutBridge
<1>10. MadeInv /\ DisjointInv /\ PolicyInv
  BY Zenon, <1>1, <1>8 DEF MadeInv, DisjointInv, PolicyInv
<1> QED BY Zenon, <1>3, <1>6, <1>7, <1>9, <1>10 DEF Inv

\* Every step keeps the invariant.
LEMMA ControlSteps == Inv /\ [ControlNext]_controlVars => Inv'
<1> SUFFICES ASSUME Inv, [ControlNext]_controlVars PROVE Inv' OBVIOUS
<1>1. ASSUME NEW h \in ApiCalls, NEW op \in Ops, NEW n \in Nets, NEW s \in Explicit \cup {NoSub},
             NEW c \in Ctrs, BeginCall(h, op, n, s, c)
      PROVE  Inv'
  BY Zenon, <1>1, BeginKeeps
<1>2. ASSUME NEW h \in ApiCalls, Step(h) PROVE Inv'
  <2>1. CASE Locked(h) BY Zenon, <2>1, LockedKeeps
  <2>2. CASE Bridge(h) BY Zenon, <2>2, UpKeeps, DownKeeps DEF Bridge
  <2>3. CASE Network(h) BY Zenon, <2>3, NetworkKeeps
  <2>4. CASE Container(h) BY Zenon, <2>4, ContainerKeeps
  <2>5. CASE Answered(h) BY Zenon, <2>5, NetMade, CtrMade, RemovalAnswered
  <2>6. CASE Failed(h) BY Zenon, <2>6, FailedKeeps
  <2>7. CASE Nameless(h) BY Zenon, <2>7, NamelessKeeps
  <2>8. CASE TimesOut(h) BY Zenon, <2>8, TimesOutKeeps
  <2>9. CASE HangsUp(h) BY Zenon, <2>9, HangsUpKeeps
  <2> QED BY Zenon, <1>2, <2>1, <2>2, <2>3, <2>4, <2>5, <2>6, <2>7, <2>8, <2>9 DEF Step
<1>3. CASE (\E x \in late : Late(x)) \/ (\E c \in Ctrs : Exits(c))
  BY Zenon, <1>3, DockerKeeps
<1>4. CASE UNCHANGED controlVars
  <2>1. UNCHANGED <<link, table, sysctl, halfUp, net, ctr, on, lock, job, late, acked, loose>>
    BY Zenon, <1>4 DEF controlVars, hostVars, dockerVars, historyVars
  <2>2. Types BY Zenon DEF Inv
  <2>3. Types'
    BY Zenon, <2>1, <2>2 DEF Types, DockerTypes, HostTypes, JobTypes, HistoryTypes
  <2>4. Quiet /\ NoStarts BY Zenon, <2>1, TameNothing DEF Quiet, NoStarts
  <2>5. LockInv' BY Zenon, <2>1 DEF Inv, LockInv, Holds, Op
  <2>6. JobInv'
    <3>1. ASSUME NEW h \in ApiCalls PROVE JobOK(h)'
      BY Zenon, <2>1, <2>2, <2>4, QuietJob DEF Inv, JobInv
    <3> QED BY Zenon, <3>1 DEF JobInv
  <2>7. \A h \in ApiCalls, n \in Nets : MakesNet(h, n) => MakesNet(h, n)'
    BY Zenon, <2>1 DEF MakesNet, Op
  <2>8. \A h \in ApiCalls, c \in Ctrs : MakesCtr(h, c) => MakesCtr(h, c)'
    BY Zenon, <2>1 DEF MakesCtr, Op
  <2>9. \A h \in ApiCalls : Op(h)' = Op(h) /\ job'[h].at = job[h].at BY Zenon, <2>1 DEF Op
  <2> QED BY Zenon, <2>1, <2>3, <2>4, <2>5, <2>6, <2>7, <2>8, <2>9, QuietKeeps
<1> QED BY Zenon, <1>1, <1>2, <1>3, <1>4 DEF ControlNext

\* The invariant holds in every reachable state of the host API.
LEMMA Invariance == ControlSpec => []Inv
BY ControlStarts, ControlSteps, PTL DEF ControlSpec

\* The host API's state is well formed, and whoever is past the mutex holds it.
THEOREM ControlTyped == ControlSpec => []ControlTypeOK
<1>1. Inv => ControlTypeOK
  <2> SUFFICES ASSUME Inv PROVE ControlTypeOK OBVIOUS
  <2>1. Types /\ LockInv BY Zenon DEF Inv
  <2>2. ASSUME NEW h \in ApiCalls, job[h].at \notin {"idle", "lock"}
        PROVE  job[h].op \in {"stop", "remove"} \/ lock = h
    <3>1. CASE Op(h) \in Locking BY Zenon, <2>1, <2>2, <3>1 DEF LockInv, Holds
    <3>2. CASE Op(h) = "none" BY Zenon, <2>1, <2>2, <3>2 DEF LockInv
    <3>3. CASE Op(h) \in Ops \ Locking BY Zenon, <3>3 DEF Op, Ops, Locking
    <3> QED BY Zenon, <2>1, <3>1, <3>2, <3>3 DEF Types, JobTypes, Jobs, Op
  <2> QED BY Zenon, <2>1, <2>2
        DEF ControlTypeOK, Types, DockerTypes, HostTypes, JobTypes, Jobs, HistoryTypes, LockInv
<1> QED BY <1>1, Invariance, PTL

\* bridge_down leaves no managed network and no container behind, whatever was given up
\* before it, except what a given-up creation made later.
THEOREM NothingIsStranded == ControlSpec => []NothingWithoutBridge
<1>1. Inv => NothingWithoutBridge BY Zenon DEF Inv
<1> QED BY <1>1, Invariance, PTL

\* A creation that fails midway is undone: what exists was reported, is in the hands of
\* the request that made it, or is the rest of a request that was given up.
THEOREM FailuresAreUndone == ControlSpec => []FailureUndone
<1>1. Inv => FailureUndone
  <2> SUFFICES ASSUME Inv PROVE FailureUndone OBVIOUS
  <2>1. \A h \in ApiCalls : Made(h) \subseteq InProgress BY Zenon DEF InProgress
  <2>2. ASSUME NEW h \in ApiCalls, NEW n, MakesNet(h, n) PROVE n \in InProgress
    BY Zenon, <2>1, <2>2 DEF MakesNet, Made
  <2>3. ASSUME NEW h \in ApiCalls, NEW c, MakesCtr(h, c) PROVE c \in InProgress
    BY Zenon, <2>1, <2>3 DEF MakesCtr, Made
  <2> QED BY Zenon, <2>2, <2>3 DEF Inv, MadeInv, FailureUndone
<1> QED BY <1>1, Invariance, PTL

\* Two subnets that do not overlap share no address: networks_overlap looks only at
\* where each one begins.
LEMMA ApartSharesNothing ==
  ASSUME NEW s, NEW r, {s.lo, s.hi, r.lo, r.hi} \subseteq Int, ~Overlaps(s, r)
  PROVE  ~ \E a \in s.lo .. s.hi : Contains(r, a)
BY DEF Overlaps, Contains

\* The bounds of a subnet are integers.
LEMMA SubnetBounds == \A s \in Subnets \cup {NoSub} : s.lo \in Int /\ s.hi \in Int
<1>1. \A i \in 0 .. Blocks - 1 : Sub24(i).lo \in Int /\ Sub24(i).hi \in Int
  BY ControlAssumption DEF Sub24
<1>2. \A s \in Explicit \cup Foreign : s.lo \in Int /\ s.hi \in Int BY ControlAssumption
<1> QED BY <1>1, <1>2 DEF Subnets, NoSub

\* No address is given to two networks, unless a creation was given up.
THEOREM SubnetsStayDisjoint == ControlSpec => []SubnetsDisjoint
<1>1. Inv => SubnetsDisjoint
  <2> SUFFICES ASSUME Inv, NEW m \in Nets, NEW n \in Nets, m # n, {m, n} \subseteq Managed, loose = {}
               PROVE  ~ \E a \in net[m].lo .. net[m].hi : Contains(net[n], a)
    BY Zenon DEF SubnetsDisjoint
  <2>1. ~Overlaps(net[m], net[n]) BY Zenon DEF Inv, DisjointInv
  <2>2. net[m] \in Subnets \cup {NoSub} /\ net[n] \in Subnets \cup {NoSub}
    BY Zenon DEF Inv, Types, DockerTypes
  <2>3. {net[m].lo, net[m].hi, net[n].lo, net[n].hi} \subseteq Int
    BY Zenon, <2>2, SubnetBounds
  <2> QED BY Zenon, <2>1, <2>3, ApartSharesNothing
<1> QED BY <1>1, Invariance, PTL

\* The policy is there while a container runs behind the bridge: teardown removes the
\* link first, and init installs the policy in the request that makes the link.
THEOREM PolicyStaysBehind == ControlSpec => []PolicyBehindContainers
<1>1. Inv => PolicyBehindContainers BY Zenon DEF Inv, PolicyInv, PolicyBehindContainers
<1> QED BY <1>1, Invariance, PTL

-----------------------------------------------------------------------------
(* The daemon's processes: the inductive invariant.                        *)

Bound == {"bridge", "dns", "proxy", "state"}

(* The types of what the daemon processes share with Docker.               *)
ProcTypes ==
    /\ container \in [Daemons -> {"absent", "running", "exited", "restarting", "foreign"}]
    /\ stopping \subseteq Daemons
    /\ pc \in [Daemons -> Startup \cup Stopping \cup {"off", "serve"}]
    /\ sock \in [Sockets -> Daemons \cup {None, Stale}]
    /\ port \in [Ports -> Daemons \cup {None}]
    /\ grants \subseteq Daemons /\ call \subseteq Daemons

(* Where a process can be while something of it is visible from outside:   *)
(* the end of each part of the shutdown takes the part with it.            *)
Alive ==
    /\ \A d \in Daemons : container[d] = "running" <=> pc[d] # "off"
    /\ \A d \in stopping : container[d] # "foreign"
    /\ \A d \in Daemons : sock["host"] = d => pc[d] \in Bound \cup {"serve"}
    /\ \A d \in Daemons : sock["agent"] = d =>
         pc[d] \in Bound \cup {"serve", "proxyDown", "dnsDown", "agentDown"}
    /\ \A d \in Daemons : port["dns"] = d =>
         pc[d] \in {"proxy", "state", "serve", "proxyDown", "dnsDown"}
    /\ \A d \in call : pc[d] \in {"serve"} \cup Stopping

(* From the bind on a daemon holds both paths or has been displaced.       *)
HoldsPaths ==
    \A d \in Daemons :
        pc[d] \in Bound \cup {"serve"} /\ d \notin displaced => \A s \in Sockets : sock[s] = d

ProcInv == ProcTypes /\ Alive /\ HoldsPaths /\ GrantsOfTheLiving

(* The types of the CLI's own state, and why a recipe run that nobody      *)
(* overtook still has its project's rules when it reaches the reload: the  *)
(* mount of a container is fixed when it is made.                          *)
CliOps == {"none", "start", "stop", "ensure", "replace"}
CliStates == [op : CliOps, at : Phases, d : Daemons \cup {None}, p : Projects \cup {None}]

CliInv ==
    /\ mount \in [Daemons -> Projects \cup {None}]
    /\ cli \in [Clis -> CliStates]
    /\ \A c \in Clis : cli[c].at # "idle" => cli[c].d \in Daemons /\ cli[c].p \in Projects
    /\ \A c \in Clis : cli[c].op \in {"ensure", "replace"} => cli[c].d = DefaultName
    /\ \A c \in Clis : cli[c].at \in {"look", "compare", "socket", "reload"} => cli[c].op = "ensure"
    /\ \A c \in Clis :
         cli[c].op = "ensure" /\ cli[c].at \in {"wait", "socket", "reload"} /\ c \notin raced =>
            mount[cli[c].d] = cli[c].p \/ container[cli[c].d] \in {"absent", "foreign"}

DaemonInv == ProcInv /\ CliInv

-----------------------------------------------------------------------------
(* Before the first command there is no process and nothing on a path.     *)
LEMMA DaemonInitInv == DaemonInit => DaemonInv
<1> SUFFICES ASSUME DaemonInit PROVE DaemonInv
  OBVIOUS
<1>1. ProcTypes
  BY DEF DaemonInit, ProcTypes
<1>2. Alive
  BY <1>1, DaemonAssumption DEF DaemonInit, Alive, Sockets, Ports
<1>3. HoldsPaths /\ GrantsOfTheLiving
  BY DEF DaemonInit, HoldsPaths, GrantsOfTheLiving, Bound
<1>4. CliInv
  BY DEF DaemonInit, CliInv, CliStates, CliOps, IdleCli, Phases
<1> QED
  BY <1>1, <1>2, <1>3, <1>4 DEF DaemonInv, ProcInv

(* Types, one step per action of a daemon *)
LEMMA StepTypes ==
  ASSUME NEW d \in Daemons, ProcTypes, DaemonStep(d)
  PROVE  ProcTypes'
<1> USE DEF docker, shared, hist, ProcTypes, Startup, Stopping, Sockets, Ports, Stale
<1>1. CASE Load(d)
  BY <1>1 DEF Load
<1>2. CASE LoadFails(d)
  BY <1>2 DEF LoadFails, Ended
<1>3. CASE BindSockets(d)
  BY <1>3 DEF BindSockets, Takes
<1>4. CASE BindFails(d)
  BY <1>4 DEF BindFails, Ended, Takes, PathsRefused, HostResidue, AgentResidue
<1>5. CASE BridgeInit(d)
  BY <1>5 DEF BridgeInit
<1>6. CASE StartDns(d)
  BY <1>6 DEF StartDns
<1>7. CASE StartProxy(d)
  BY <1>7 DEF StartProxy
<1>8. CASE StartServing(d)
  BY <1>8 DEF StartServing
<1>9. CASE StartupFails(d)
  BY <1>9 DEF StartupFails, Ended, Cleanup, Takes, Unlinked
<1>10. CASE AcceptCall(d)
  BY <1>10 DEF AcceptCall
<1>11. CASE FinishCall(d)
  BY <1>11 DEF FinishCall
<1>12. CASE DnsGrant(d)
  BY <1>12 DEF DnsGrant
<1>13. CASE BeginShutdown(d)
  BY <1>13 DEF BeginShutdown, Closed
<1>14. CASE ProxyDown(d)
  BY <1>14 DEF ProxyDown, ServiceDown
<1>15. CASE DnsDown(d)
  BY <1>15 DEF DnsDown, ServiceDown
<1>16. CASE AgentDown(d)
  BY <1>16 DEF AgentDown, Closed
<1>17. CASE WatchersDown(d)
  BY <1>17 DEF WatchersDown
<1>18. CASE FlushGrants(d)
  BY <1>18 DEF FlushGrants
<1>19. CASE ResetPolicy(d)
  BY <1>19 DEF ResetPolicy
<1>20. CASE Finish(d)
  BY <1>20 DEF Finish, Ended, Cleanup, Takes, Unlinked
<1>21. CASE Die(d)
  BY <1>21 DEF Die, Ended, Closed
<1>22. CASE Restart(d)
  BY <1>22 DEF Restart
<1> QED
  BY <1>1, <1>2, <1>3, <1>4, <1>5, <1>6, <1>7, <1>8, <1>9, <1>10, <1>11, <1>12, <1>13,
     <1>14, <1>15, <1>16, <1>17, <1>18, <1>19, <1>20, <1>21, <1>22, Zenon
     DEF DaemonStep

(* Alive, one step per action: run_with_services and shutdown take away    *)
(* what the process has when they leave the stage that has it.             *)
LEMMA StepAlive ==
  ASSUME NEW d \in Daemons, ProcTypes, Alive, DaemonStep(d)
  PROVE  Alive'
<1> USE DaemonAssumption DEF docker, shared, hist, ProcTypes, Alive, Stopping, Bound, Sockets,
   Ports, Stale
<1>1. CASE Load(d)
  BY <1>1 DEF Load
<1>2. CASE LoadFails(d)
  BY <1>2 DEF LoadFails, Ended
<1>3. CASE BindSockets(d)
  BY <1>3 DEF BindSockets, Takes
<1>4. CASE BindFails(d)
  BY <1>4 DEF BindFails, Ended, Takes, PathsRefused, HostResidue, AgentResidue
<1>5. CASE BridgeInit(d)
  BY <1>5 DEF BridgeInit
<1>6. CASE StartDns(d)
  BY <1>6 DEF StartDns
<1>7. CASE StartProxy(d)
  BY <1>7 DEF StartProxy
<1>8. CASE StartServing(d)
  BY <1>8 DEF StartServing
<1>9. CASE StartupFails(d)
  BY <1>9 DEF StartupFails, Ended, Cleanup, Takes, Unlinked
<1>10. CASE AcceptCall(d)
  BY <1>10 DEF AcceptCall
<1>11. CASE FinishCall(d)
  BY <1>11 DEF FinishCall
<1>12. CASE DnsGrant(d)
  BY <1>12 DEF DnsGrant
<1>13. CASE BeginShutdown(d)
  BY <1>13 DEF BeginShutdown, Closed
<1>14. CASE ProxyDown(d)
  BY <1>14 DEF ProxyDown, ServiceDown
<1>15. CASE DnsDown(d)
  BY <1>15 DEF DnsDown, ServiceDown
<1>16. CASE AgentDown(d)
  BY <1>16 DEF AgentDown, Closed
<1>17. CASE WatchersDown(d)
  BY <1>17 DEF WatchersDown
<1>18. CASE FlushGrants(d)
  BY <1>18 DEF FlushGrants
<1>19. CASE ResetPolicy(d)
  BY <1>19 DEF ResetPolicy
<1>20. CASE Finish(d)
  BY <1>20 DEF Finish, Ended, Cleanup, Takes, Unlinked
<1>21. CASE Die(d)
  BY <1>21 DEF Die, Ended, Closed
<1>22. CASE Restart(d)
  BY <1>22 DEF Restart
<1> QED
  BY <1>1, <1>2, <1>3, <1>4, <1>5, <1>6, <1>7, <1>8, <1>9, <1>10, <1>11, <1>12, <1>13,
     <1>14, <1>15, <1>16, <1>17, <1>18, <1>19, <1>20, <1>21, <1>22, Zenon
     DEF DaemonStep

(* Holds, one step per action: whoever binds a path, or removes its file   *)
(* on the way out, displaces the daemon that had it.                       *)
LEMMA StepHolds ==
  ASSUME NEW d \in Daemons, ProcTypes, Alive, HoldsPaths, DaemonStep(d)
  PROVE  HoldsPaths'
<1> USE DaemonAssumption DEF docker, shared, hist, ProcTypes, Alive, HoldsPaths, Stopping, Bound,
   Sockets, Stale
<1>1. CASE Load(d)
  BY <1>1 DEF Load
<1>2. CASE LoadFails(d)
  BY <1>2 DEF LoadFails, Ended
<1>3. CASE BindSockets(d)
  BY <1>3 DEF BindSockets, Takes
<1>4. CASE BindFails(d)
  BY <1>4 DEF BindFails, Ended, Takes, PathsRefused, HostResidue, AgentResidue
<1>5. CASE BridgeInit(d)
  BY <1>5 DEF BridgeInit
<1>6. CASE StartDns(d)
  BY <1>6 DEF StartDns
<1>7. CASE StartProxy(d)
  BY <1>7 DEF StartProxy
<1>8. CASE StartServing(d)
  BY <1>8 DEF StartServing
<1>9. CASE StartupFails(d)
  BY <1>9 DEF StartupFails, Ended, Cleanup, Takes, Unlinked
<1>10. CASE AcceptCall(d)
  BY <1>10 DEF AcceptCall
<1>11. CASE FinishCall(d)
  BY <1>11 DEF FinishCall
<1>12. CASE DnsGrant(d)
  BY <1>12 DEF DnsGrant
<1>13. CASE BeginShutdown(d)
  BY <1>13 DEF BeginShutdown, Closed
<1>14. CASE ProxyDown(d)
  BY <1>14 DEF ProxyDown, ServiceDown
<1>15. CASE DnsDown(d)
  BY <1>15 DEF DnsDown, ServiceDown
<1>16. CASE AgentDown(d)
  BY <1>16 DEF AgentDown, Closed
<1>17. CASE WatchersDown(d)
  BY <1>17 DEF WatchersDown
<1>18. CASE FlushGrants(d)
  BY <1>18 DEF FlushGrants
<1>19. CASE ResetPolicy(d)
  BY <1>19 DEF ResetPolicy
<1>20. CASE Finish(d)
  BY <1>20 DEF Finish, Ended, Cleanup, Takes, Unlinked
<1>21. CASE Die(d)
  BY <1>21 DEF Die, Ended, Closed
<1>22. CASE Restart(d)
  BY <1>22 DEF Restart
<1> QED
  BY <1>1, <1>2, <1>3, <1>4, <1>5, <1>6, <1>7, <1>8, <1>9, <1>10, <1>11, <1>12, <1>13,
     <1>14, <1>15, <1>16, <1>17, <1>18, <1>19, <1>20, <1>21, <1>22, Zenon
     DEF DaemonStep

(* Grants in the table belong to a process that is still there or to one   *)
(* that died: cleanup comes before the process ends.                       *)
LEMMA StepGrants ==
  ASSUME NEW d \in Daemons, ProcTypes, Alive, GrantsOfTheLiving, DaemonStep(d)
  PROVE  GrantsOfTheLiving'
<1> USE DEF docker, shared, hist, ProcTypes, Alive, GrantsOfTheLiving, Stopping
<1>1. CASE Load(d)
  BY <1>1 DEF Load
<1>2. CASE LoadFails(d)
  BY <1>2 DEF LoadFails, Ended
<1>3. CASE BindSockets(d)
  BY <1>3 DEF BindSockets, Takes
<1>4. CASE BindFails(d)
  BY <1>4 DEF BindFails, Ended, Takes, PathsRefused, HostResidue, AgentResidue
<1>5. CASE BridgeInit(d)
  BY <1>5 DEF BridgeInit
<1>6. CASE StartDns(d)
  BY <1>6 DEF StartDns
<1>7. CASE StartProxy(d)
  BY <1>7 DEF StartProxy
<1>8. CASE StartServing(d)
  BY <1>8 DEF StartServing
<1>9. CASE StartupFails(d)
  BY <1>9 DEF StartupFails, Ended, Cleanup, Takes, Unlinked
<1>10. CASE AcceptCall(d)
  BY <1>10 DEF AcceptCall
<1>11. CASE FinishCall(d)
  BY <1>11 DEF FinishCall
<1>12. CASE DnsGrant(d)
  BY <1>12 DEF DnsGrant
<1>13. CASE BeginShutdown(d)
  BY <1>13 DEF BeginShutdown, Closed
<1>14. CASE ProxyDown(d)
  BY <1>14 DEF ProxyDown, ServiceDown
<1>15. CASE DnsDown(d)
  BY <1>15 DEF DnsDown, ServiceDown
<1>16. CASE AgentDown(d)
  BY <1>16 DEF AgentDown, Closed
<1>17. CASE WatchersDown(d)
  BY <1>17 DEF WatchersDown
<1>18. CASE FlushGrants(d)
  BY <1>18 DEF FlushGrants
<1>19. CASE ResetPolicy(d)
  BY <1>19 DEF ResetPolicy
<1>20. CASE Finish(d)
  BY <1>20 DEF Finish, Ended, Cleanup, Takes, Unlinked
<1>21. CASE Die(d)
  BY <1>21 DEF Die, Ended, Closed
<1>22. CASE Restart(d)
  BY <1>22 DEF Restart
<1> QED
  BY <1>1, <1>2, <1>3, <1>4, <1>5, <1>6, <1>7, <1>8, <1>9, <1>10, <1>11, <1>12, <1>13,
     <1>14, <1>15, <1>16, <1>17, <1>18, <1>19, <1>20, <1>21, <1>22, Zenon
     DEF DaemonStep

(* No daemon touches what a CLI process knows or a mount, and only Docker's *)
(* own state of the container that the daemon runs in.                     *)
LEMMA StepCli ==
  ASSUME NEW d \in Daemons, ProcTypes, Alive, CliInv, DaemonStep(d)
  PROVE  CliInv'
<1>1. UNCHANGED <<cli, mount, raced>>
  BY Zenon DEF DaemonStep, docker, hist, Load, LoadFails, BindSockets, BindFails,
     BridgeInit, StartDns,
              StartProxy, StartServing, StartupFails, AcceptCall, FinishCall,
              DnsGrant, BeginShutdown, ProxyDown, DnsDown, AgentDown, WatchersDown,
              FlushGrants, ResetPolicy, Finish, Die, Restart, Ended, Cleanup,
              ServiceDown
<1>2. \A e \in Daemons : container[e] \in {"absent", "foreign"} => container'[e] = container[e]
  <2>1. CASE LoadFails(d) \/ BindFails(d) \/ StartupFails(d) \/ Finish(d) \/ Die(d)
    <3>1. pc[d] # "off" /\ Ended(d)
      BY <2>1 DEF LoadFails, BindFails, StartupFails, Finish, Die
    <3> QED
      BY <3>1 DEF Ended, Alive, ProcTypes
  <2>2. CASE Restart(d)
    BY <2>2 DEF Restart, ProcTypes
  <2>3. CASE ~(LoadFails(d) \/ BindFails(d) \/ StartupFails(d) \/ Finish(d) \/ Die(d)
               \/ Restart(d))
    <3>1. UNCHANGED container
      BY <2>3, Zenon DEF DaemonStep, docker, Load, BindSockets, BridgeInit, StartDns,
              StartProxy, StartServing, AcceptCall, FinishCall, DnsGrant, BeginShutdown,
              ProxyDown, DnsDown, AgentDown, WatchersDown, FlushGrants, ResetPolicy,
              ServiceDown
    <3> QED
      BY Zenon, <3>1
  <2> QED
    BY Zenon, <2>1, <2>2, <2>3
<1> QED
  BY Zenon, <1>1, <1>2 DEF CliInv

-----------------------------------------------------------------------------
(* What a CLI command does to the daemons: nothing, or one of the three    *)
(* docker commands.                                                        *)
Undisturbed == UNCHANGED <<docker, pc, shared, call, excused, displaced>>

StopAsked(d) ==
    /\ container[d] # "foreign"
    /\ stopping' = stopping \cup {d}
    /\ UNCHANGED <<container, mount, pc, shared, call, excused, displaced>>

Removed(d) ==
    /\ container[d] = "exited"
    /\ container' = [container EXCEPT ![d] = "absent"]
    /\ mount' = [mount EXCEPT ![d] = None]
    /\ UNCHANGED <<stopping, pc, shared, call, excused, displaced>>

Makes(d, p) ==
    /\ container[d] = "absent"
    /\ Created(d, p)
    /\ UNCHANGED <<stopping, shared, call, excused, displaced>>

(* What a step of the CLI can do to the daemons: ask one container to      *)
(* stop, remove it or make it, as the docker commands do.                  *)
LEMMA CliEffect ==
  ASSUME NEW c \in Clis, CliInv, CliStep(c)
  PROVE  Undisturbed \/ \E d \in Daemons : \/ StopAsked(d) \/ Removed(d)
                                      \/ \E p \in Projects : Makes(d, p)
<1> USE DEF docker, shared, hist
<1>1. CASE \E op \in {"start", "stop", "ensure"}, d \in Daemons, p \in Projects : Begin(c, op, d, p)
  BY Zenon, <1>1 DEF Begin, Undisturbed
<1>2. CASE EnsureDaemonReady(c) \/ (\E m \in BOOLEAN : CompareDaemon(c, m)) \/ Refused(c) \/ Halted(c)
           \/ WaitForDaemonStart(c) \/ WaitForDaemonSocket(c) \/ ReloadRules(c) \/ CommandFails(c) \/ CliReturns(c)
  BY Zenon, <1>2 DEF EnsureDaemonReady, CompareDaemon, Refused, Halted, WaitForDaemonStart, WaitForDaemonSocket,
              ReloadRules, CommandFails, CliReturns, cliOnly, Undisturbed
<1>3. CASE InspectContainer(c)
  <2>1. cli[c].d \in Daemons
    <3>1. cli[c].at # "idle" BY <1>3 DEF InspectContainer
    <3> QED BY Zenon, <3>1 DEF CliInv
  <2>2. UNCHANGED <<container, mount, pc, shared, call, excused, displaced>>
    BY Zenon, <1>3 DEF InspectContainer
  <2>3. ASSUME UNCHANGED stopping PROVE Undisturbed
    BY Zenon, <2>2, <2>3 DEF Undisturbed
  <2>4. ASSUME stopping' = stopping \cup {cli[c].d} PROVE StopAsked(cli[c].d)
    BY Zenon, <1>3, <2>2, <2>4 DEF StopAsked, InspectContainer, Manages
  <2> QED
    BY Zenon, <1>3, <2>1, <2>3, <2>4 DEF InspectContainer
<1>4. CASE RemoveContainer(c)
  BY Zenon, <1>4 DEF RemoveContainer, CliInv, Undisturbed, Removed
<1>5. CASE RunContainer(c)
  BY Zenon, <1>5 DEF RunContainer, CliInv, Undisturbed, Makes
<1> QED
  BY <1>1, <1>2, <1>3, <1>4, <1>5, Zenon DEF CliStep

(* The docker commands of the CLI keep what holds of the processes.        *)
LEMMA CliKeepsProc ==
  ASSUME NEW c \in Clis, ProcInv, CliInv, CliStep(c)
  PROVE  ProcInv'
<1> USE DEF ProcInv, docker, shared
<1>1. CASE Undisturbed
  <2>1. ProcTypes'
    BY Zenon, <1>1 DEF Undisturbed, ProcTypes
  <2>2. Alive' /\ HoldsPaths' /\ GrantsOfTheLiving'
    BY Zenon, <1>1 DEF Undisturbed, Alive, HoldsPaths, GrantsOfTheLiving
  <2> QED
    BY Zenon, <2>1, <2>2
<1>2. ASSUME NEW d \in Daemons, StopAsked(d) PROVE ProcInv'
  <2>1. ProcTypes'
    BY Zenon, <1>2 DEF StopAsked, ProcTypes
  <2>2. Alive' /\ HoldsPaths' /\ GrantsOfTheLiving'
    BY Zenon, <1>2 DEF StopAsked, ProcTypes, Alive, HoldsPaths, GrantsOfTheLiving
  <2> QED
    BY Zenon, <2>1, <2>2
<1>3. ASSUME NEW d \in Daemons, Removed(d) PROVE ProcInv'
  <2>1. ProcTypes'
    BY Zenon, <1>3 DEF Removed, ProcTypes
  <2>2. Alive' /\ HoldsPaths' /\ GrantsOfTheLiving'
    BY <1>3 DEF Removed, ProcTypes, Alive, HoldsPaths, GrantsOfTheLiving
  <2> QED
    BY Zenon, <2>1, <2>2
<1>4. ASSUME NEW d \in Daemons, NEW p \in Projects, Makes(d, p) PROVE ProcInv'
  <2>1. ProcTypes'
    BY Zenon, <1>4 DEF Makes, Created, ProcTypes, Startup
  <2>2. Alive'
    BY <1>4 DEF Makes, Created, ProcTypes, Alive, Bound, Stopping
  <2>3. HoldsPaths' /\ GrantsOfTheLiving'
    BY <1>4 DEF Makes, Created, ProcTypes, Alive, HoldsPaths, GrantsOfTheLiving, Bound, Stopping
  <2> QED
    BY Zenon, <2>1, <2>2, <2>3
<1> QED
  BY Zenon, <1>1, <1>2, <1>3, <1>4, CliEffect

(* Most CLI steps move one process to another phase of another operation   *)
(* for the same daemon and project.                                        *)
Moves(c, a, o) ==
    /\ cli' \in [Clis -> CliStates]
    /\ \A e \in Clis : e # c => cli'[e] = cli[e]
    /\ cli'[c].at = a /\ cli'[c].op = o
    /\ cli'[c].d = cli[c].d /\ cli'[c].p = cli[c].p

(* A command that only goes on is a move of its own record.                *)
LEMMA GotoMoves ==
  ASSUME NEW c \in Clis, CliInv, NEW a \in Phases, Goto(c, a)
  PROVE  Moves(c, a, cli[c].op)
BY Zenon DEF CliInv, CliStates, Goto, Moves

(* So is one that changes what it is about.                                *)
LEMMA ChangeMoves ==
  ASSUME NEW c \in Clis, CliInv, NEW a \in Phases, NEW o \in CliOps,
         cli' = [cli EXCEPT ![c].at = a, ![c].op = o]
  PROVE  Moves(c, a, o)
<1>1. cli[c] \in CliStates
  BY Zenon DEF CliInv
<1>2. [cli[c] EXCEPT !.at = a, !.op = o] \in CliStates
  BY <1>1, Zenon DEF CliStates
<1>3. cli' = [cli EXCEPT ![c] = [cli[c] EXCEPT !.at = a, !.op = o]]
  BY Zenon
<1>4. cli'[c] = [cli[c] EXCEPT !.at = a, !.op = o]
  BY Zenon, <1>3 DEF CliInv
<1>5. cli' \in [Clis -> CliStates] /\ \A e \in Clis : e # c => cli'[e] = cli[e]
  BY <1>2, <1>3 DEF CliInv
<1>6. cli'[c].at = a /\ cli'[c].op = o /\ cli'[c].d = cli[c].d /\ cli'[c].p = cli[c].p
  <2>1. cli'[c].at = a
    BY <1>1, <1>4, Zenon DEF CliStates
  <2>2. cli'[c].op = o
    BY <1>1, <1>4, Zenon DEF CliStates
  <2>3. cli'[c].d = cli[c].d
    BY <1>1, <1>4, Zenon DEF CliStates
  <2>4. cli'[c].p = cli[c].p
    BY <1>1, <1>4, Zenon DEF CliStates
  <2> QED
    BY Zenon, <2>1, <2>2, <2>3, <2>4
<1> QED
  BY Zenon, <1>5, <1>6 DEF Moves

(* Such a move keeps the invariant, provided that it begins a recipe run's *)
(* wait with the right rules, and that containers only disappear.          *)
LEMMA MoveKeepsCli ==
  ASSUME NEW c \in Clis, CliInv, NEW a, NEW o, Moves(c, a, o),
         cli[c].at # "idle",
         mount' \in [Daemons -> Projects \cup {None}],
         \A e \in Daemons : \/ mount'[e] = mount[e] /\ container'[e] = container[e]
                            \/ container'[e] \in {"absent", "foreign"},
         UNCHANGED raced,
         o \in {"ensure", "replace"} => cli[c].op \in {"ensure", "replace"},
         a \in {"look", "compare", "socket", "reload"} => o = "ensure",
         o = "ensure" /\ a \in {"wait", "socket", "reload"} =>
            \/ mount[cli[c].d] = cli[c].p
            \/ cli[c].op = "ensure" /\ cli[c].at \in {"wait", "socket", "reload"}
  PROVE  CliInv'
<1>1. \A e \in Clis : cli'[e].d = cli[e].d /\ cli'[e].p = cli[e].p
  BY Zenon DEF Moves
<1>2. \A e \in Clis : e # c => cli'[e].at = cli[e].at /\ cli'[e].op = cli[e].op
  BY Zenon DEF Moves
<1>3. cli' \in [Clis -> CliStates] /\ cli'[c].at = a /\ cli'[c].op = o
  BY Zenon DEF Moves
<1>4. \A e \in Clis : cli[e].at # "idle" => cli[e].d \in Daemons /\ cli[e].p \in Projects
  BY Zenon DEF CliInv
<1>5. \A e \in Clis : cli'[e].at # "idle" => cli'[e].d \in Daemons /\ cli'[e].p \in Projects
  BY Zenon, <1>1, <1>2, <1>4
<1>6. \A e \in Clis : cli'[e].op \in {"ensure", "replace"} => cli'[e].d = DefaultName
  BY <1>1, <1>2, <1>3 DEF CliInv
<1>7. \A e \in Clis : cli'[e].at \in {"look", "compare", "socket", "reload"} => cli'[e].op = "ensure"
  BY Zenon, <1>2, <1>3 DEF CliInv
<1>8. \A e \in Clis :
        cli[e].op = "ensure" /\ cli[e].at \in {"wait", "socket", "reload"} /\ e \notin raced =>
           mount'[cli[e].d] = cli[e].p \/ container'[cli[e].d] \in {"absent", "foreign"}
  BY Zenon, <1>4 DEF CliInv
<1>9. ASSUME NEW e \in Clis, cli'[e].op = "ensure",
             cli'[e].at \in {"wait", "socket", "reload"}, e \notin raced'
      PROVE  mount'[cli'[e].d] = cli'[e].p \/ container'[cli'[e].d] \in {"absent", "foreign"}
  BY <1>1, <1>2, <1>3, <1>4, <1>8, <1>9
<1> QED
  BY <1>3, <1>5, <1>6, <1>7, <1>9, Zenon DEF CliInv

(* Each CLI step keeps the types of the CLI's state and its relation to    *)
(* the mounts: one step per action.                                        *)
LEMMA CliKeepsCli ==
  ASSUME NEW c \in Clis, ProcInv, CliInv, CliStep(c)
  PROVE  CliInv'
<1> USE DEF docker, hist
<1>0. /\ mount \in [Daemons -> Projects \cup {None}]
      /\ cli[c].op \in CliOps
      /\ cli[c].at # "idle" => cli[c].d \in Daemons /\ cli[c].p \in Projects
      /\ cli[c].at \in {"look", "compare", "socket", "reload"} => cli[c].op = "ensure"
      /\ \A a \in {"compare", "halt", "rm", "wait", "socket", "reload", "ready", "ok",
                    "failed", "inspect", "run"} : a \in Phases
  BY Zenon DEF CliInv, CliStates, Phases
<1>1. ASSUME NEW op \in {"start", "stop", "ensure"}, NEW d \in Daemons, NEW p \in Projects,
             Begin(c, op, d, p)
      PROVE  CliInv'
  <2> DEFINE r == [op |-> op, d |-> d, p |-> p,
                   at |-> IF op = "ensure" THEN "look" ELSE "inspect"]
  <2>1. /\ cli' = [cli EXCEPT ![c] = r] /\ raced' = raced \ {c}
        /\ op = "ensure" => d = DefaultName
        /\ UNCHANGED <<mount, container>>
    BY <1>1, Zenon DEF Begin
  <2>2. r \in CliStates
    BY Zenon DEF CliStates, CliOps, Phases
  <2> QED
    BY Zenon, <2>1, <2>2 DEF CliInv
<1>2. ASSUME NEW m \in BOOLEAN, CompareDaemon(c, m), ~Goto(c, "failed")
      PROVE  CliInv'
  <2> DEFINE replaced == RulesMountMismatch(c) \/ m
             a == IF replaced THEN "inspect" ELSE "socket"
             o == IF replaced THEN "replace" ELSE "ensure"
  <2>1. /\ a \in Phases /\ o \in CliOps /\ o \in {"ensure", "replace"}
        /\ a \in {"socket", "inspect"}
        /\ a = "socket" => o = "ensure" /\ mount[cli[c].d] = cli[c].p
    BY <1>0, Zenon DEF CliOps, RulesMountMismatch
  <2>2. /\ cli' = [cli EXCEPT ![c].at = a, ![c].op = o]
        /\ cli[c].at = "compare" /\ UNCHANGED <<container, mount, raced>>
    BY <1>2, Zenon DEF CompareDaemon, cliOnly
  <2> HIDE DEF a, o
  <2>3. Moves(c, a, o)
    BY <2>1, <2>2, ChangeMoves, Zenon
  <2> QED
    BY Zenon, <1>0, <2>1, <2>2, <2>3, MoveKeepsCli
<1>3. ASSUME AfterRemoval(c), cli[c].at \in {"inspect", "rm"},
             mount' \in [Daemons -> Projects \cup {None}],
             \A e \in Daemons : \/ mount'[e] = mount[e] /\ container'[e] = container[e]
                                \/ container'[e] \in {"absent", "foreign"},
             UNCHANGED raced
      PROVE  CliInv'
  <2> DEFINE a == IF cli[c].op = "stop" THEN "ok"
                  ELSE IF cli[c].op = "replace" THEN "inspect" ELSE "run"
             o == IF cli[c].op = "replace" THEN "ensure" ELSE cli[c].op
  <2>1. /\ a \in Phases /\ o \in CliOps /\ a \in {"ok", "inspect", "run"}
        /\ o \in {"ensure", "replace"} => cli[c].op \in {"ensure", "replace"}
    BY <1>0, Zenon DEF CliOps
  <2>2. cli' = [cli EXCEPT ![c].at = a, ![c].op = o]
    BY <1>3, Zenon DEF AfterRemoval
  <2> HIDE DEF a, o
  <2>3. Moves(c, a, o)
    BY <2>1, <2>2, ChangeMoves, Zenon
  <2> QED
    BY Zenon, <1>3, <2>1, <2>3, MoveKeepsCli
<1>4. ASSUME NEW a \in {"compare", "inspect", "halt", "rm", "socket", "reload", "ready", "ok",
                        "failed"},
             Goto(c, a), cli[c].at # "idle", UNCHANGED <<container, mount, raced>>,
             a = "compare" => cli[c].op = "ensure",
             a \in {"socket", "reload"} =>
                cli[c].op = "ensure" /\ cli[c].at \in {"wait", "socket"}
      PROVE  CliInv'
  <2>1. Moves(c, a, cli[c].op)
    BY Zenon, <1>0, <1>4, GotoMoves
  <2> QED
    BY Zenon, <1>0, <1>4, <2>1, MoveKeepsCli
<1>5. CASE InspectContainer(c)
  <2>1. /\ cli[c].at = "inspect" /\ UNCHANGED <<container, mount, raced>>
        /\ AfterRemoval(c) \/ Goto(c, "rm") \/ Goto(c, "halt")
    BY <1>5, Zenon DEF InspectContainer
  <2> QED
    BY Zenon, <1>0, <1>3, <1>4, <2>1
<1>6. CASE Refused(c) \/ Halted(c) \/ CommandFails(c)
  <2>1. /\ cli[c].at # "idle" /\ UNCHANGED <<container, mount, raced>>
        /\ Goto(c, "failed") \/ Goto(c, "rm")
    BY <1>6, Zenon DEF Refused, Halted, CommandFails, cliOnly
  <2> QED
    BY <1>4, <2>1, Zenon
<1>7. CASE RemoveContainer(c)
  <2>1. CASE Goto(c, "failed") /\ UNCHANGED <<container, mount>>
    BY <1>4, <1>7, <2>1, Zenon DEF RemoveContainer
  <2>2. CASE AfterRemoval(c) /\ container' = [container EXCEPT ![cli[c].d] = "absent"]
             /\ mount' = [mount EXCEPT ![cli[c].d] = None]
    <3>1. cli[c].at = "rm" /\ UNCHANGED raced
      BY Zenon, <1>7 DEF RemoveContainer
    <3>2. /\ mount' \in [Daemons -> Projects \cup {None}]
          /\ \A e \in Daemons : \/ mount'[e] = mount[e] /\ container'[e] = container[e]
                                \/ container'[e] \in {"absent", "foreign"}
      BY <1>0, <2>2, Zenon DEF ProcInv, ProcTypes
    <3> QED
      BY Zenon, <1>3, <2>2, <3>1, <3>2
  <2> QED
    BY <1>7, <2>1, <2>2, Zenon DEF RemoveContainer
<1>8. CASE RunContainer(c)
  <2>1. CASE Goto(c, "failed") /\ UNCHANGED <<container, mount, raced>>
    BY Zenon, <1>4, <1>8, <2>1 DEF RunContainer
  <2>2. CASE /\ Created(cli[c].d, cli[c].p) /\ Goto(c, "wait")
             /\ raced' = raced \cup ({e \in Clis : cli[e].at # "idle"} \ {c})
    <3>1. cli[c].at = "run"
      BY Zenon, <1>8 DEF RunContainer
    <3>2. Moves(c, "wait", cli[c].op)
      BY Zenon, <1>0, <2>2, GotoMoves
    <3>3. /\ mount' \in [Daemons -> Projects \cup {None}]
          /\ mount'[cli[c].d] = cli[c].p
      BY Zenon, <1>0, <2>2, <3>1 DEF Created
    <3>4. \A e \in Clis : e # c /\ e \notin raced' => cli[e].at = "idle"
      BY Zenon, <2>2
    <3> QED
      BY <3>1, <3>2, <3>3, <3>4, ZenonT(60) DEF CliInv, Moves
  <2> QED
    BY <1>8, <2>1, <2>2, Zenon DEF RunContainer
<1>9. CASE WaitForDaemonStart(c)
  <2>1. /\ cli[c].at = "wait" /\ UNCHANGED <<container, mount, raced>>
        /\ \/ cli[c].op = "ensure" /\ Goto(c, "socket")
           \/ Goto(c, "ok") \/ Goto(c, "failed")
    BY Zenon, <1>9 DEF WaitForDaemonStart, cliOnly
  <2> QED
    BY <1>4, <2>1, Zenon
<1>10. CASE WaitForDaemonSocket(c) \/ ReloadRules(c)
  <2>1. /\ UNCHANGED <<container, mount, raced>> /\ cli[c].at \in {"socket", "reload"}
        /\ \/ cli[c].at = "socket" /\ Goto(c, "reload")
           \/ Goto(c, "ready") \/ Goto(c, "failed")
    BY Zenon, <1>10 DEF WaitForDaemonSocket, ReloadRules, cliOnly
  <2> QED
    BY Zenon, <1>0, <1>4, <2>1
<1>12. CASE EnsureDaemonReady(c)
  <2>1. /\ cli[c].at = "look" /\ UNCHANGED <<container, mount, raced>>
        /\ Goto(c, "compare") \/ Goto(c, "inspect")
    BY Zenon, <1>12 DEF EnsureDaemonReady, cliOnly
  <2> QED
    BY Zenon, <1>0, <1>4, <2>1
<1>13. ASSUME NEW m \in BOOLEAN, CompareDaemon(c, m)
       PROVE  CliInv'
  <2>1. cli[c].at = "compare" /\ UNCHANGED <<container, mount, raced>>
    BY Zenon, <1>13 DEF CompareDaemon, cliOnly
  <2> QED
    BY Zenon, <1>2, <1>4, <1>13, <2>1
<1>11. CASE CliReturns(c)
  <2>1. IdleCli \in CliStates
    BY Zenon DEF IdleCli, CliStates, CliOps, Phases
  <2>2. cli' = [cli EXCEPT ![c] = IdleCli] /\ UNCHANGED <<container, mount, raced>>
    BY Zenon, <1>11 DEF CliReturns, cliOnly
  <2> QED
    BY Zenon, <2>1, <2>2 DEF CliInv, IdleCli
<1> QED
  BY <1>1, <1>5, <1>6, <1>7, <1>8, <1>9, <1>10, <1>11, <1>12, <1>13, ZenonT(30) DEF CliStep

(* A step of nobody changes nothing the invariant reads.                   *)
LEMMA StutterKeepsInv == DaemonInv /\ UNCHANGED dvars => DaemonInv'
<1> SUFFICES ASSUME DaemonInv, UNCHANGED dvars PROVE DaemonInv'
  OBVIOUS
<1>1. ProcTypes'
  BY Zenon DEF dvars, DaemonInv, ProcInv, ProcTypes
<1>2. Alive' /\ HoldsPaths' /\ GrantsOfTheLiving'
  BY Zenon DEF dvars, DaemonInv, ProcInv, Alive, HoldsPaths, GrantsOfTheLiving
<1>3. CliInv'
  BY Zenon DEF dvars, DaemonInv, CliInv
<1> QED
  BY Zenon, <1>1, <1>2, <1>3 DEF DaemonInv, ProcInv

(* The invariant holds whatever starts, stops, fails, dies or overlaps.    *)
THEOREM DaemonInvariant == DaemonSpec => []DaemonInv
<1>1. ASSUME DaemonInv, DaemonNext PROVE DaemonInv'
  <2>1. ASSUME NEW d \in Daemons, DaemonStep(d) PROVE DaemonInv'
    BY <1>1, <2>1, StepTypes, StepAlive, StepHolds, StepGrants, StepCli, Zenon
       DEF DaemonInv, ProcInv
  <2>2. ASSUME NEW c \in Clis, CliStep(c) PROVE DaemonInv'
    BY <1>1, <2>2, CliKeepsProc, CliKeepsCli, Zenon DEF DaemonInv
  <2> QED
    BY Zenon, <1>1, <2>1, <2>2 DEF DaemonNext
<1>2. DaemonInv /\ [DaemonNext]_dvars => DaemonInv'
  BY Zenon, <1>1, StutterKeepsInv
<1> QED
  BY <1>2, DaemonInitInv, PTL DEF DaemonSpec

(* A container is "running" exactly while its process is there, and a      *)
(* socket file never leads to a process that has not bound it or has       *)
(* already closed it (ApiSockets::bind, the shutdown of runtime::run).     *)
THEOREM DaemonTyped == DaemonSpec => []DaemonTypeOK
<1>1. DaemonInv => DaemonTypeOK
  <2> SUFFICES ASSUME DaemonInv PROVE DaemonTypeOK
    OBVIOUS
  <2>1. ASSUME NEW s \in Sockets, sock[s] \in Daemons
        PROVE  pc[sock[s]] \notin {"off", "load", "bind", "cleanup"}
    BY <2>1, Zenon DEF DaemonInv, ProcInv, Alive, Sockets, Bound
  <2>2. \A d \in Daemons : container[d] = "running" <=> pc[d] # "off"
    BY Zenon DEF DaemonInv, ProcInv, Alive
  <2> QED
    BY Zenon, <2>1, <2>2 DEF DaemonInv, ProcInv, CliInv, CliStates, CliOps, ProcTypes, DaemonTypeOK
<1> QED
  BY <1>1, DaemonInvariant, PTL

(* Every dynamic grant in the table belongs to a daemon that can still     *)
(* take it back, with the exceptions GrantsOfTheLiving names, however      *)
(* many daemons start, stop, fail or die (BridgeManager::init, flush and   *)
(* reset_policy).                                                          *)
THEOREM GrantsAreOwned == DaemonSpec => []GrantsOfTheLiving
<1>1. DaemonInv => GrantsOfTheLiving
  BY ZenonT(30) DEF DaemonInv, ProcInv
<1> QED
  BY <1>1, DaemonInvariant, PTL

(* A serving daemon is reached at both of its sockets until another daemon *)
(* takes or removes the files (ApiSockets::bind and cleanup).              *)
THEOREM ServingIsReached == DaemonSpec => []SocketsReach
<1>1. DaemonInv => SocketsReach
  BY Zenon DEF DaemonInv, ProcInv, HoldsPaths, SocketsReach, Bound
<1> QED
  BY <1>1, DaemonInvariant, PTL

-----------------------------------------------------------------------------
(* Only the commands of a CLI process move it.                             *)
LEMMA CliOfOthers ==
  ASSUME CliInv, DaemonNext, NEW c \in Clis, cli'[c].at # cli[c].at
  PROVE  CliStep(c)
<1>1. ASSUME NEW d \in Daemons, DaemonStep(d) PROVE UNCHANGED cli
  BY <1>1, Zenon DEF DaemonStep, Load, LoadFails, BindSockets, BindFails, BridgeInit, StartDns,
              StartProxy, StartServing, StartupFails, AcceptCall, FinishCall,
              DnsGrant, BeginShutdown, ProxyDown, DnsDown, AgentDown, WatchersDown,
              FlushGrants, ResetPolicy, Finish, Die, Restart, ServiceDown
<1>2. ASSUME NEW e \in Clis, e # c, CliStep(e) PROVE cli'[c] = cli[c]
  <2>1. \E r : cli' = [cli EXCEPT ![e] = r]
    BY Zenon, <1>2 DEF CliStep, Begin, EnsureDaemonReady, CompareDaemon, InspectContainer, Refused, Halted,
              RemoveContainer, RunContainer, WaitForDaemonStart, WaitForDaemonSocket,
              ReloadRules, CommandFails, CliReturns, Goto, AfterRemoval
  <2> QED
    BY <1>2, <2>1, ZenonT(30) DEF CliInv
<1> QED
  BY Zenon, <1>1, <1>2 DEF DaemonNext

(* `daemon start` never reports success for a process that has not bound   *)
(* its sockets, unless another daemon answers at the path.                 *)
THEOREM StartsAreReported == DaemonSpec => StartReported
<1>1. ASSUME DaemonInv, [DaemonNext]_dvars, NEW c \in Clis,
             cli[c].at = "wait", cli'[c].at \in {"ok", "socket"}
      PROVE  \/ pc[cli[c].d] \in {"bridge", "dns", "proxy", "state", "serve"} \cup Stopping
             \/ \E e \in Daemons \ {cli[c].d} : sock["host"] = e
  <2>1. CliStep(c)
    BY Zenon, <1>1, CliOfOthers DEF dvars, DaemonInv
  <2>2. ~Goto(c, "failed")
    BY Zenon, <1>1, GotoMoves DEF DaemonInv, Moves, Phases
  <2>3. Connects
    BY Zenon, <1>1, <2>1, <2>2 DEF CliStep, Begin, EnsureDaemonReady, CompareDaemon, InspectContainer, Refused,
              Halted, RemoveContainer, RunContainer, WaitForDaemonStart,
              WaitForDaemonSocket, ReloadRules, CommandFails, CliReturns
  <2> QED
    BY Zenon, <1>1, <2>3 DEF Connects, DaemonInv, ProcInv, Alive, Bound
<1>2. DaemonInv /\ [DaemonNext]_dvars =>
        [\A c \in Clis :
           cli[c].at = "wait" /\ cli'[c].at \in {"ok", "socket"} =>
              \/ pc[cli[c].d] \in {"bridge", "dns", "proxy", "state", "serve"} \cup Stopping
              \/ \E e \in Daemons \ {cli[c].d} : sock["host"] = e]_dvars
  BY Zenon, <1>1
<1> QED
  BY <1>2, DaemonInvariant, PTL DEF DaemonSpec, StartReported

(* A container without Outcall's labels is never stopped, removed or       *)
(* replaced, by any interleaving of commands (require_managed).            *)
THEOREM ForeignIsLeftAlone == DaemonSpec => ForeignLeftAlone
<1>1. ASSUME DaemonInv, NEW d \in Daemons, container[d] = "foreign",
             NEW e \in Daemons, DaemonStep(e)
      PROVE  container'[d] = "foreign" /\ d \notin stopping'
  <2> USE <1>1 DEF DaemonInv, ProcInv, ProcTypes, Alive
  <2>1. CASE LoadFails(e) \/ BindFails(e) \/ StartupFails(e) \/ Finish(e) \/ Die(e)
    <3>1. pc[e] # "off" /\ Ended(e)
      BY Zenon, <2>1 DEF LoadFails, BindFails, StartupFails, Finish, Die
    <3> QED
      BY Zenon, <3>1 DEF Ended
  <2>2. CASE Restart(e)
    BY Zenon, <2>2 DEF Restart
  <2>3. CASE ~(LoadFails(e) \/ BindFails(e) \/ StartupFails(e) \/ Finish(e) \/ Die(e)
               \/ Restart(e))
    <3>1. UNCHANGED <<container, stopping>>
      BY <2>3, Zenon DEF DaemonStep, docker, Load, BindSockets, BridgeInit, StartDns,
              StartProxy, StartServing, AcceptCall, FinishCall, DnsGrant, BeginShutdown,
              ProxyDown, DnsDown, AgentDown, WatchersDown, FlushGrants, ResetPolicy,
              ServiceDown
    <3> QED
      BY Zenon, <3>1
  <2> QED
    BY Zenon, <2>1, <2>2, <2>3
<1>2. ASSUME DaemonInv, NEW d \in Daemons, container[d] = "foreign",
             NEW c \in Clis, CliStep(c)
      PROVE  container'[d] = "foreign" /\ d \notin stopping'
  BY <1>2, CliEffect DEF DaemonInv, ProcInv, ProcTypes, Alive, Undisturbed, docker, StopAsked,
     Removed, Makes, Created
<1>3. DaemonInv /\ [DaemonNext]_dvars =>
        [\A d \in Daemons :
           container[d] = "foreign" => container'[d] = "foreign" /\ d \notin stopping']_dvars
  BY <1>1, <1>2, Zenon DEF DaemonNext
<1> QED
  BY <1>3, DaemonInvariant, PTL DEF DaemonSpec, ForeignLeftAlone

(* A recipe run that no other command overtook goes on with the rules of   *)
(* its own project (ensure_daemon_ready).                                  *)
THEOREM RulesAreRight == DaemonSpec => RightRules
<1>1. ASSUME DaemonInv, [DaemonNext]_dvars, NEW c \in Clis,
             cli[c].at = "reload", cli'[c].at = "ready"
      PROVE  mount[sock["host"]] = cli[c].p \/ c \in raced \/ sock["host"] # DefaultName
  <2>1. CliStep(c)
    BY Zenon, <1>1, CliOfOthers DEF dvars, DaemonInv
  <2>0. ~Goto(c, "failed")
    BY Zenon, <1>1, GotoMoves DEF DaemonInv, Moves, Phases
  <2>2. Connects
    BY Zenon, <1>1, <2>0, <2>1 DEF CliStep, Begin, EnsureDaemonReady, CompareDaemon, InspectContainer, Refused,
              Halted, RemoveContainer, RunContainer, WaitForDaemonStart,
              WaitForDaemonSocket, ReloadRules, CommandFails, CliReturns
  <2>3. sock["host"] = DefaultName => container[DefaultName] = "running"
    BY Zenon, <1>1, <2>2 DEF Connects, DaemonInv, ProcInv, Alive, Bound
  <2> QED
    BY Zenon, <1>1, <2>3 DEF DaemonInv, CliInv
<1>2. DaemonInv /\ [DaemonNext]_dvars =>
        [\A c \in Clis :
           cli[c].at = "reload" /\ cli'[c].at = "ready" =>
              \/ mount[sock["host"]] = cli[c].p
              \/ c \in raced
              \/ sock["host"] # DefaultName]_dvars
  BY Zenon, <1>1
<1> QED
  BY <1>2, DaemonInvariant, PTL DEF DaemonSpec, RightRules

-----------------------------------------------------------------------------
(* The refinement: what a step of one daemon is to the agent socket.       *)
LEMMA StepServes ==
  ASSUME NEW d \in Daemons, DaemonInv, DaemonStep(d)
  PROVE  Service!ServiceNext \/ AgentLife' = AgentLife
<1> DEFINE holder == sock["agent"]
           Served == {"serve", "proxyDown", "dnsDown", "agentDown"}
           Goal == Service!ServiceNext \/ AgentLife' = AgentLife
<1>a. /\ pc = [e \in Daemons |-> pc[e]]
      /\ holder = d => pc[d] \in {"bridge", "dns", "proxy", "state"} \cup Served
      /\ container[d] = "running" <=> pc[d] # "off"
  BY Zenon DEF DaemonInv, ProcInv, ProcTypes, Alive, Bound
<1>b. /\ sock = [s \in Sockets |-> sock[s]]
      /\ {"host", "agent"} = Sockets /\ {None, Stale} \cap Daemons = {}
  BY Zenon, DaemonAssumption DEF DaemonInv, ProcInv, ProcTypes, Sockets, Stale
<1>c. ASSUME NEW x, sock'["agent"] = holder, pc' = [pc EXCEPT ![d] = x],
             \/ holder # d
             \/ pc[d] = "bridge" /\ x = "dns"
             \/ {pc[d], x} \subseteq {"dns", "proxy", "state"}
             \/ pc[d] = "state" /\ x = "serve"
             \/ {pc[d], x} \subseteq Served
      PROVE  Goal
  BY Zenon, <1>a, <1>c DEF AgentLife, Service!ServiceNext, Service!ApplyPolicy, Service!Serve
<1>d. ASSUME sock'["agent"] \notin Daemons
      PROVE  Goal
  BY <1>d, Zenon DEF AgentLife, Service!ServiceNext, Service!Fall
<1>e. ASSUME UNCHANGED <<pc, sock>>
      PROVE  Goal
  BY <1>e, Zenon DEF AgentLife
<1>f. \A ss : "agent" \notin ss \/ holder # d => Closed(d, ss)["agent"] = holder
  BY Zenon, <1>b DEF Closed
<1>g. \A ss : "agent" \in ss /\ holder = d => Closed(d, ss)["agent"] \notin Daemons
  BY Zenon, <1>b DEF Closed
<1> SUFFICES Goal
  OBVIOUS
<1> HIDE DEF Goal
<1>1. CASE Load(d)
  BY Zenon, <1>1, <1>a, <1>c DEF Load, shared
<1>2. CASE LoadFails(d)
  BY Zenon, <1>2, <1>a, <1>c DEF LoadFails, Ended
<1>3. CASE BindSockets(d)
  <2>1. sock'["agent"] = d /\ pc'[d] = "bridge"
    BY Zenon, <1>3, <1>a, <1>b DEF BindSockets
  <2> QED
    BY <2>1, Zenon DEF Goal, AgentLife, Service!ServiceNext, Service!Bind
<1>4. CASE BindFails(d)
  <2>1. holder # d /\ pc' = [pc EXCEPT ![d] = "off"]
    BY Zenon, <1>4, <1>a DEF BindFails, Ended
  <2>2. sock'["agent"] \in {holder, None, Stale}
    BY <1>4, <1>b DEF BindFails, PathsRefused, HostResidue, AgentResidue
  <2> QED
    BY <2>1, <2>2, <1>b, <1>c, <1>d, Zenon
<1>5. CASE BridgeInit(d)
  BY <1>5, <1>c, Zenon DEF BridgeInit
<1>6. CASE StartDns(d)
  BY <1>6, <1>c, Zenon DEF StartDns
<1>7. CASE StartProxy(d)
  BY <1>7, <1>c, Zenon DEF StartProxy
<1>8. CASE StartServing(d)
  BY <1>8, <1>c, Zenon DEF StartServing, shared
<1>9. CASE StartupFails(d)
  BY <1>9, <1>b, <1>d, Zenon DEF StartupFails, Cleanup, Unlinked
<1>10. CASE AcceptCall(d)
  BY <1>10, <1>e, Zenon DEF AcceptCall, shared
<1>11. CASE FinishCall(d)
  BY <1>11, <1>e, Zenon DEF FinishCall
<1>12. CASE DnsGrant(d)
  BY <1>12, <1>e, Zenon DEF DnsGrant
<1>13. CASE BeginShutdown(d)
  BY <1>13, <1>c, <1>f, Zenon DEF BeginShutdown
<1>14. CASE ProxyDown(d)
  BY <1>14, <1>c, Zenon DEF ProxyDown, ServiceDown
<1>15. CASE DnsDown(d)
  BY <1>15, <1>c, Zenon DEF DnsDown, ServiceDown
<1>16. CASE AgentDown(d)
  BY <1>16, <1>c, <1>d, <1>f, <1>g, Zenon DEF AgentDown
<1>17. CASE WatchersDown(d)
  BY Zenon, <1>17, <1>a, <1>c DEF WatchersDown, shared
<1>18. CASE FlushGrants(d)
  BY Zenon, <1>18, <1>a, <1>c DEF FlushGrants
<1>19. CASE ResetPolicy(d)
  BY Zenon, <1>19, <1>a, <1>c DEF ResetPolicy
<1>20. CASE Finish(d)
  BY Zenon, <1>20, <1>b, <1>d DEF Finish, Cleanup, Unlinked
<1>21. CASE Die(d)
  BY <1>21, <1>b, <1>c, <1>d, <1>f, <1>g, Zenon DEF Die, Ended
<1>22. CASE Restart(d)
  BY Zenon, <1>22, <1>a, <1>c DEF Restart, shared
<1> QED
  BY <1>1, <1>2, <1>3, <1>4, <1>5, <1>6, <1>7, <1>8, <1>9, <1>10, <1>11, <1>12, <1>13,
     <1>14, <1>15, <1>16, <1>17, <1>18, <1>19, <1>20, <1>21, <1>22, ZenonT(30)
     DEF DaemonStep

(* The daemons implement DaemonService at the agent socket: whatever       *)
(* starts, fails, dies or overlaps, nothing answers there before its own   *)
(* process has applied the base policy (the order of runtime::run).        *)
THEOREM DaemonsServe == DaemonSpec => ImplementsService
<1>1. DaemonInit => Service!ServiceInit
  BY Zenon, DaemonAssumption DEF DaemonInit, Service!ServiceInit, AgentLife, Sockets
<1>2. ASSUME DaemonInv, NEW c \in Clis, CliStep(c) PROVE AgentLife' = AgentLife
  <2>1. CASE Undisturbed \/ \E d \in Daemons : StopAsked(d) \/ Removed(d)
    <3>1. UNCHANGED <<sock, pc>>
      BY Zenon, <2>1 DEF Undisturbed, StopAsked, Removed, shared
    <3> QED
      BY Zenon, <3>1 DEF AgentLife
  <2>2. ASSUME NEW d \in Daemons, NEW p \in Projects, Makes(d, p) PROVE AgentLife' = AgentLife
    <3>1. UNCHANGED sock /\ sock["agent"] # d /\ \A e \in Daemons : e # d => pc'[e] = pc[e]
      BY <1>2, <2>2 DEF Makes, Created, shared, DaemonInv, ProcInv, ProcTypes, Alive, Bound
    <3> QED
      BY Zenon, <3>1 DEF AgentLife
  <2> QED
    BY Zenon, <1>2, <2>1, <2>2, CliEffect DEF DaemonInv
<1>3. DaemonInv /\ [DaemonNext]_dvars => [Service!ServiceNext]_AgentLife
  <2>1. UNCHANGED dvars => AgentLife' = AgentLife
    BY Zenon DEF dvars, AgentLife
  <2> QED
    BY Zenon, <1>2, <2>1, StepServes DEF DaemonNext
<1> QED
  BY <1>1, <1>3, DaemonInvariant, PTL DEF DaemonSpec, ImplementsService, Service!ServiceSpec
=============================================================================
