---------------------------- MODULE ControlPlane ----------------------------
(***************************************************************************)
(* The host API of outcalld that builds what agents run in: the bridge and *)
(* its nftables policy, the Docker networks on it, and the containers      *)
(* (outcalld/src/api, bridge, network, docker/create.rs, containers.rs).   *)
(*                                                                         *)
(* A handler holds the lifecycle mutex from its first step to its answer,  *)
(* except when it stops or removes a container.  Docker and the kernel are *)
(* called one step at a time.  A call may be answered, may fail, or may be *)
(* given up - its deadline passes, or the client hangs up - and Docker may *)
(* then still carry it out, after the mutex was released.                  *)
(***************************************************************************)
EXTENDS Integers, FiniteSets

CONSTANTS
  ApiCalls,      \* requests of the host API in progress
  NoCall,
  Nets,          \* names of managed networks
  Default,       \* DEFAULT_NETWORK_NAME
  Ctrs,          \* ids of managed containers, never reused
  Blocks,        \* AllocationBlock: the number of its /24 subnets
  Explicit,      \* subnets that requests name
  Foreign,       \* subnets of networks that are not managed
  Unit,          \* addresses of a /24
  MaxJobs,       \* bound: requests
  MaxGivenUp     \* bound: calls that are given up, and hang-ups

VARIABLES
  link,          \* the kernel has the bridge
  table,         \* nftables has the base policy
  sysctl,        \* bridge traffic traverses netfilter
  net,           \* Docker: the subnet of each managed network
  ctr,           \* Docker: the state of each managed container
  on,            \* Docker: its network
  lock,          \* AppState.lifecycle
  job,           \* what each handler does, and where it is
  late,          \* calls given up, which Docker has not begun or dropped
  jobs, givenUp,
  acked,         \* history: the networks and containers a caller was told of
  loose,         \* history: what a caller could not be told the end of
  halfUp         \* history: the last bridge up ended without the policy

hostVars    == <<link, table, sysctl, halfUp>>
dockerVars  == <<net, ctr, on>>
historyVars == <<acked, loose>>
boundVars   == <<jobs, givenUp>>

controlVars == <<hostVars, dockerVars, lock, job, late, boundVars, historyVars>>

-----------------------------------------------------------------------------
(* Subnets: network_cidr.rs and network/allocation.rs.  A subnet is an     *)
(* interval of addresses.                                                  *)

NoSub == [lo |-> -1, hi |-> -1]

Sub24(i) == [lo |-> i * Unit, hi |-> i * Unit + Unit - 1]

Subnets == {Sub24(i) : i \in 0 .. Blocks - 1} \cup Explicit \cup Foreign

ASSUME ControlAssumption ==
  /\ NoCall \notin ApiCalls /\ Default \in Nets /\ Ctrs # {} /\ Nets \cap Ctrs = {}
  /\ Explicit \cup Foreign \subseteq [lo : Nat, hi : Nat]
  /\ {Blocks, Unit} \subseteq Nat \ {0} /\ {MaxJobs, MaxGivenUp} \subseteq Nat

Contains(s, a) == s.lo <= a /\ a <= s.hi

\* Mutant: a larger subnet around the candidate is not noticed.
OverlapsInside(s, r) == Contains(s, r.lo)

\* networks_overlap
Overlaps(s, r) == Contains(s, r.lo) \/ Contains(r, s.lo)

\* collect_used_subnets
Used == Foreign \cup ({net[n] : n \in Nets} \ {NoSub})

Free(s) == \A r \in Used : ~Overlaps(s, r)

\* create_network: an explicit subnet; the first one of the block for the
\* default network; otherwise the first free one (allocate_subnet).
Choices(n, s) ==
  IF s # NoSub THEN {r \in {s} : Free(r)}
  ELSE IF n = Default THEN {r \in {Sub24(0)} : Free(r)}
  ELSE {Sub24(i) : i \in {i \in 0 .. Blocks - 1 :
          Free(Sub24(i)) /\ \A k \in 0 .. i - 1 : ~Free(Sub24(k))}}

-----------------------------------------------------------------------------
(* Docker's side of a call.  A network is removed by its name or by its id. *)

Present(c) == ctr[c] \in {"created", "running", "exited"}

RunningOn(n) == {c \in Ctrs : ctr[c] = "running" /\ on[c] = n}

\* list_networks
Managed == {n \in Nets : net[n] # NoSub}

\* Docker carries the call out, if it does not refuse it.
Possible(x) ==
  CASE x.do = "mknet" -> net[x.net] = NoSub
    [] x.do = "rmnet" -> x.net \in Managed /\ RunningOn(x.net) = {}
    [] x.do = "rmnid" -> net[x.net] = x.sub /\ RunningOn(x.net) = {}
    [] x.do = "mkctr" -> ctr[x.ctr] = "absent"
    [] x.do = "start" -> ctr[x.ctr] \in {"created", "exited"} /\ x.net \in Managed
    [] x.do = "stop"  -> ctr[x.ctr] = "running"
    [] x.do = "rmctr" -> Present(x.ctr)

Perform(x) ==
  /\ Possible(x)
  /\ net' = CASE x.do = "mknet" -> [net EXCEPT ![x.net] = x.sub]
              [] x.do \in {"rmnet", "rmnid"} -> [net EXCEPT ![x.net] = NoSub]
              [] OTHER -> net
  /\ ctr' = CASE x.do = "mkctr" -> [ctr EXCEPT ![x.ctr] = "created"]
              [] x.do = "start" -> [ctr EXCEPT ![x.ctr] = "running"]
              [] x.do = "stop"  -> [ctr EXCEPT ![x.ctr] = "exited"]
              [] x.do = "rmctr" -> [ctr EXCEPT ![x.ctr] = "removed"]
              [] OTHER -> ctr
  /\ on' = IF x.do = "mkctr" THEN [on EXCEPT ![x.ctr] = x.net] ELSE on

\* A call that was given up is carried out after all, or never.
Late(x) ==
  /\ x \in late
  /\ late' = late \ {x}
  /\ Perform(x) \/ UNCHANGED dockerVars
  /\ UNCHANGED <<hostVars, lock, job, boundVars, historyVars>>

\* A container's process ends.
Exits(c) ==
  /\ ctr[c] = "running"
  /\ ctr' = [ctr EXCEPT ![c] = "exited"]
  /\ UNCHANGED <<hostVars, net, on, lock, job, late, boundVars, historyVars>>

-----------------------------------------------------------------------------
(* A handler.                                                              *)

Idle == [op |-> "none", at |-> "idle", net |-> Default, sub |-> NoSub,
         ctr |-> CHOOSE c \in Ctrs : TRUE]

Op(h) == job[h].op

At(h, op, at) == job[h].op = op /\ job[h].at = at

MoveTo(h, at) ==
  /\ job' = [job EXCEPT ![h].at = at]
  /\ UNCHANGED lock

\* The handler answers, and its guard of the mutex is dropped.
Return(h) ==
  /\ job' = [job EXCEPT ![h] = Idle]
  /\ lock' = IF lock = h THEN NoCall ELSE lock

\* What the job makes.
Made(h) == IF Op(h) = "mknet" THEN {job[h].net}
           ELSE IF Op(h) = "mkctr" THEN {job[h].ctr} ELSE {}

Acked(h) == acked' = acked \cup Made(h) /\ UNCHANGED loose
Loose(h) == loose' = loose \cup Made(h) /\ UNCHANGED acked

\* A network made under a name that was used before is not the one a caller was told of.
Anew(h) == acked' = acked \ Made(h) /\ UNCHANGED loose

\* A step that only reads.
Reads == UNCHANGED <<hostVars, dockerVars, late, boundVars, historyVars>>

BeginCall(h, op, n, s, c) ==
  /\ job[h] = Idle
  /\ jobs < MaxJobs
  /\ jobs' = jobs + 1
  /\ s # NoSub => op = "mknet"
  /\ op \notin {"mknet", "rmnet", "mkctr"} => n = Idle.net
  /\ op \notin {"mkctr", "stop", "remove"} => c = Idle.ctr
  /\ op = "mkctr" => ctr[c] = "absent" /\ \A g \in ApiCalls : c \notin Made(g)
  /\ job' = [job EXCEPT ![h] =
       [op |-> op, net |-> n, sub |-> s, ctr |-> c,
        at |-> IF op \in {"stop", "remove"} THEN "inspect" ELSE "lock"]]
  /\ UNCHANGED <<hostVars, dockerVars, lock, late, givenUp, historyVars>>

Locked(h) ==
  /\ job[h].at = "lock"
  /\ lock = NoCall
  /\ lock' = h
  /\ job' = [job EXCEPT ![h].at = "begin"]
  /\ Reads

\* Where the handler waits for a call of Docker that changes something.
Call(h) ==
  LET x(do) == [do |-> do, net |-> job[h].net, sub |-> job[h].sub, ctr |-> job[h].ctr]
  IN  CASE At(h, "mknet", "create")   -> x("mknet")
        [] At(h, "mknet", "rollback") -> x("rmnid")
        [] At(h, "rmnet", "remove")   -> x("rmnet")
        [] At(h, "mkctr", "create")   -> x("mkctr")
        [] At(h, "mkctr", "start")    -> x("start")
        [] At(h, "mkctr", "rollback") -> x("rmctr")
        [] At(h, "stop", "call")      -> x("stop")
        [] At(h, "remove", "call")    -> x("rmctr")
        [] OTHER -> x("none")

Calling(h) == Call(h).do # "none"

\* Where a failed call leads: a container that does not start is removed again.
AfterFailure(h) ==
  IF At(h, "mkctr", "start") THEN MoveTo(h, "rollback") ELSE Return(h)

\* The call succeeds.
Answered(h) ==
  /\ Calling(h)
  /\ Perform(Call(h))
  /\ CASE At(h, "mknet", "create") -> MoveTo(h, "verify")
       [] At(h, "mkctr", "create") -> MoveTo(h, "start")
       [] At(h, "mkctr", "start")  -> MoveTo(h, "record")
       [] OTHER -> Return(h)
  /\ IF At(h, "mknet", "create") THEN Anew(h) ELSE UNCHANGED historyVars
  /\ UNCHANGED <<hostVars, late, boundVars>>

\* Docker refuses it, or an error is returned.  A removal that fails is part of
\* the error; a conflict ends with the network that is there, or an error.
Failed(h) ==
  /\ Calling(h)
  /\ AfterFailure(h)
  /\ IF job[h].at = "rollback" THEN Loose(h) ELSE UNCHANGED historyVars
  /\ UNCHANGED <<hostVars, dockerVars, late, boundVars>>

\* Docker made the network but returned no id: it is not removed by its name.
Nameless(h) ==
  /\ At(h, "mknet", "create")
  /\ Perform(Call(h))
  /\ Return(h)
  /\ Loose(h)
  /\ UNCHANGED <<hostVars, late, boundVars>>

\* operation::run: the deadline passes.
TimesOut(h) ==
  /\ Calling(h)
  /\ givenUp < MaxGivenUp
  /\ givenUp' = givenUp + 1
  /\ late' = late \cup {Call(h)}
  /\ AfterFailure(h)
  /\ Loose(h)
  /\ UNCHANGED <<hostVars, dockerVars, jobs>>

\* The client hangs up: the handler's future is dropped where it waits, and the
\* mutex with it.  No cleanup runs.
HangsUp(h) ==
  /\ job[h] # Idle
  /\ givenUp < MaxGivenUp
  /\ givenUp' = givenUp + 1
  /\ late' = IF Calling(h) THEN late \cup {Call(h)} ELSE late
  /\ Return(h)
  /\ Loose(h)
  /\ halfUp' = IF Op(h) = "up" THEN ~table ELSE halfUp
  /\ UNCHANGED <<link, table, sysctl, dockerVars, jobs>>

-----------------------------------------------------------------------------
(* The bridge: bridge.rs.                                                  *)

\* netfilter::enable, which may have to leave the sysctls as they are.
EnableNetfilter == sysctl' \in {sysctl, TRUE}

\* nft::apply_base: one nft transaction, which may fail, also after it took
\* effect.
ApplyBase == table' \in {table, TRUE}

\* init: ensure_link.  It may fail after the link was made.
UpLink(h) ==
  /\ At(h, "up", "begin")
  /\ \/ link' = TRUE /\ MoveTo(h, "gateway") /\ UNCHANGED halfUp
     \/ link' \in {link, TRUE} /\ Return(h) /\ halfUp' = ~table
  /\ UNCHANGED <<table, sysctl, dockerVars, late, boundVars, historyVars>>

\* Mutant: the old policy is deleted in a transaction of its own.
UpPolicySplit(h) ==
  /\ At(h, "up", "policy")
  /\ sysctl' \in {sysctl, TRUE}
  /\ table' \in BOOLEAN
  /\ Return(h)
  /\ UNCHANGED <<link, halfUp, dockerVars, late, boundVars, historyVars>>

\* init: ensure_gateway_address.
UpGateway(h) ==
  /\ At(h, "up", "gateway")
  /\ \/ MoveTo(h, "policy") /\ UNCHANGED halfUp
     \/ Return(h) /\ halfUp' = ~table
  /\ UNCHANGED <<link, table, sysctl, dockerVars, late, boundVars, historyVars>>

\* init: what remains.
UpPolicy(h) ==
  /\ At(h, "up", "policy")
  /\ EnableNetfilter
  /\ ApplyBase
  /\ halfUp' = ~table'
  /\ Return(h)
  /\ UNCHANGED <<link, dockerVars, late, boundVars, historyVars>>

\* bridge_down: no managed container may exist, running or not.
DownContainers(h) ==
  /\ At(h, "down", "begin")
  /\ \/ (\A c \in Ctrs : ~Present(c)) /\ MoveTo(h, "networks")
     \/ Return(h)
  /\ Reads

\* Mutant: networks may stay.
DownNetworksAny(h) ==
  /\ At(h, "down", "networks")
  /\ MoveTo(h, "unlink") \/ Return(h)
  /\ Reads

\* bridge_down: nor a managed network.
DownNetworks(h) ==
  /\ At(h, "down", "networks")
  /\ \/ Managed = {} /\ MoveTo(h, "unlink")
     \/ Return(h)
  /\ Reads

\* teardown: remove_link, which may fail before or after the link is gone.
DownLink(h) ==
  /\ At(h, "down", "unlink")
  /\ \/ link' = FALSE /\ MoveTo(h, "untable")
     \/ link' \in {link, FALSE} /\ Return(h)
  /\ UNCHANGED <<table, sysctl, halfUp, dockerVars, late, boundVars, historyVars>>

\* teardown: delete_table.
DownTable(h) ==
  /\ At(h, "down", "untable")
  /\ table' \in {table, FALSE}
  /\ Return(h)
  /\ UNCHANGED <<link, sysctl, halfUp, dockerVars, late, boundVars, historyVars>>

-----------------------------------------------------------------------------
(* Networks: network/mod.rs.                                               *)

\* BridgeManager::status: the bridge counts as up when it has a link.
BridgeUp == link

\* validate_created: Docker has the network as it was asked for.
AsRequested(h) == net[job[h].net] = job[h].sub

\* create_network: the request is well formed and the bridge is up.
NetBridge(h) ==
  /\ At(h, "mknet", "begin")
  /\ (BridgeUp /\ MoveTo(h, "inspect")) \/ Return(h)
  /\ Reads

\* A network of that name is the answer if it is configured as requested.
NetInspect(h) ==
  /\ At(h, "mknet", "inspect")
  /\ (job[h].net \notin Managed /\ MoveTo(h, "subnet")) \/ Return(h)
  /\ Reads

NetSubnet(h) ==
  /\ At(h, "mknet", "subnet")
  /\ \/ /\ \E s \in Choices(job[h].net, job[h].sub) :
             job' = [job EXCEPT ![h].sub = s, ![h].at = "create"]
        /\ UNCHANGED lock
     \/ Return(h)
  /\ Reads

\* Mutant: an answer that does not verify is only an error.
NetVerifyKept(h) ==
  /\ At(h, "mknet", "verify")
  /\ \/ AsRequested(h) /\ Return(h) /\ Acked(h)
     \/ Return(h) /\ UNCHANGED historyVars
  /\ UNCHANGED <<hostVars, dockerVars, late, boundVars>>

\* The new network is inspected by its id, and rolled back unless it is what was
\* asked for.
NetVerify(h) ==
  /\ At(h, "mknet", "verify")
  /\ \/ AsRequested(h) /\ Return(h) /\ Acked(h)
     \/ MoveTo(h, "rollback") /\ UNCHANGED historyVars
  /\ UNCHANGED <<hostVars, dockerVars, late, boundVars>>

\* destroy_network: nothing to do, or refused while a container is connected.
NetDestroy(h) ==
  /\ At(h, "rmnet", "begin")
  /\ \/ job[h].net \in Managed /\ RunningOn(job[h].net) = {} /\ MoveTo(h, "remove")
     \/ Return(h)
  /\ Reads

-----------------------------------------------------------------------------
(* Containers: api/containers.rs, docker/create.rs, docker/containers.rs.  *)

\* require_netfilter_enforceable
Enforceable == sysctl

\* create: container_request::validate follows.
CtrNetfilter(h) ==
  /\ At(h, "mkctr", "begin")
  /\ (Enforceable /\ MoveTo(h, "network")) \/ Return(h)
  /\ Reads

\* create_container: check_network.
CtrNetwork(h) ==
  /\ At(h, "mkctr", "network")
  /\ (job[h].net \in Managed /\ MoveTo(h, "mounts")) \/ Return(h)
  /\ Reads

\* create_container: the helper sources, the bind mounts and the environment.
CtrMounts(h) ==
  /\ At(h, "mkctr", "mounts")
  /\ MoveTo(h, "create") \/ Return(h)
  /\ Reads

\* The identity cache inspects and records the container, or it is rolled back.
CtrRecord(h) ==
  /\ At(h, "mkctr", "record")
  /\ \/ Present(job[h].ctr) /\ Return(h) /\ Acked(h)
     \/ MoveTo(h, "rollback") /\ UNCHANGED historyVars
  /\ UNCHANGED <<hostVars, dockerVars, late, boundVars>>

\* stop_container and remove_container look the container up, then call Docker.
CtrInspect(h) ==
  /\ job[h].op \in {"stop", "remove"} /\ job[h].at = "inspect"
  /\ \/ /\ Present(job[h].ctr)
        /\ job[h].op = "stop" => ctr[job[h].ctr] = "running"
        /\ MoveTo(h, "call")
     \/ Return(h)
  /\ Reads

-----------------------------------------------------------------------------
\* The daemon brought the bridge up when it started; the sysctls are the host's.
ControlInit ==
  /\ link = TRUE /\ table = TRUE /\ sysctl \in BOOLEAN /\ halfUp = FALSE
  /\ net = [n \in Nets |-> NoSub]
  /\ ctr = [c \in Ctrs |-> "absent"]
  /\ on = [c \in Ctrs |-> Default]
  /\ lock = NoCall
  /\ job = [h \in ApiCalls |-> Idle]
  /\ late = {}
  /\ jobs = 0 /\ givenUp = 0
  /\ acked = {} /\ loose = {}

Bridge(h) ==
  \/ UpLink(h) \/ UpGateway(h) \/ UpPolicy(h)
  \/ DownContainers(h) \/ DownNetworks(h) \/ DownLink(h) \/ DownTable(h)

Network(h) == NetBridge(h) \/ NetInspect(h) \/ NetSubnet(h) \/ NetVerify(h) \/ NetDestroy(h)

Container(h) == CtrNetfilter(h) \/ CtrNetwork(h) \/ CtrMounts(h) \/ CtrRecord(h) \/ CtrInspect(h)

Step(h) ==
  \/ Locked(h) \/ Bridge(h) \/ Network(h) \/ Container(h)
  \/ Answered(h) \/ Failed(h) \/ Nameless(h) \/ TimesOut(h) \/ HangsUp(h)

Ops == {"up", "down", "mknet", "rmnet", "mkctr", "stop", "remove"}

ControlNext ==
  \/ \E h \in ApiCalls, op \in Ops, n \in Nets, s \in Explicit \cup {NoSub}, c \in Ctrs :
       BeginCall(h, op, n, s, c)
  \/ \E h \in ApiCalls : Step(h)
  \/ \E x \in late : Late(x)
  \/ \E c \in Ctrs : Exits(c)

ControlSpec == ControlInit /\ [][ControlNext]_controlVars

-----------------------------------------------------------------------------
(* Properties.                                                             *)

Calls == [do : {"mknet", "rmnet", "rmnid", "mkctr", "start", "stop", "rmctr"},
          net : Nets, sub : Subnets \cup {NoSub}, ctr : Ctrs]

Places == {"idle", "lock", "begin", "gateway", "policy", "networks", "unlink", "untable",
           "inspect", "subnet", "create", "verify", "rollback", "remove",
           "network", "mounts", "start", "record", "call"}

\* The host, Docker and the handlers are well formed, and whoever is past the
\* mutex holds it.
ControlTypeOK ==
  /\ {link, table, sysctl, halfUp} \subseteq BOOLEAN
  /\ net \in [Nets -> Subnets \cup {NoSub}]
  /\ ctr \in [Ctrs -> {"absent", "created", "running", "exited", "removed"}]
  /\ on \in [Ctrs -> Nets]
  /\ lock \in ApiCalls \cup {NoCall}
  /\ job \in [ApiCalls -> [op : Ops \cup {"none"}, at : Places, net : Nets,
                           sub : Subnets \cup {NoSub}, ctr : Ctrs]]
  /\ late \subseteq Calls
  /\ acked \subseteq Nets \cup Ctrs /\ loose \subseteq Nets \cup Ctrs
  /\ \A h \in ApiCalls : job[h].at \notin {"idle", "lock"} =>
       job[h].op \in {"stop", "remove"} \/ lock = h

\* What is being made right now.
InProgress == UNION {Made(h) : h \in ApiCalls}

\* Without the bridge there is no managed network, and no managed container,
\* except one whose creation was given up, and containers on such a network:
\* bridge_down looks for both, and while it does nobody makes one; and a
\* container is made without a look at the bridge.
NothingWithoutBridge ==
  ~link => /\ Managed \subseteq loose
           /\ \A c \in Ctrs : Present(c) => {c, on[c]} \cap loose # {}

\* network/mod.rs and create.rs: a creation that fails midway is undone.  What
\* exists was reported to a caller, is being made, or is the rest of a request
\* whose caller was told that the end is not known, or has gone.
FailureUndone ==
  /\ Managed \subseteq acked \cup loose \cup InProgress
  /\ \A c \in Ctrs : Present(c) => c \in acked \cup loose \cup InProgress

\* network/allocation.rs: two networks share an address only if the creation of
\* one was given up and carried out later.
SubnetsDisjoint ==
  \A m, n \in Nets : m # n /\ {m, n} \subseteq Managed /\ loose = {} =>
    ~ \E a \in net[m].lo .. net[m].hi : Contains(net[n], a)

\* bridge.rs, teardown: "Remove the bridge first, then remove policy that
\* protects that interface."  A container runs without the policy only after a
\* bridge up that ended before it was installed, or on a network that Docker made
\* after its creation was given up.
PolicyBehindContainers ==
  \A c \in Ctrs : ctr[c] = "running" => table \/ halfUp \/ on[c] \in loose
=============================================================================
