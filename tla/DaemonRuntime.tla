--------------------------- MODULE DaemonRuntime ---------------------------
(***************************************************************************)
(* The life of the daemon process: the order in which outcalld starts its  *)
(* services and takes them down, the container it runs in, and the CLI     *)
(* commands (`daemon start`, `daemon stop`, and the start-up a recipe run  *)
(* makes) that create and replace that container.                          *)
(*                                                                         *)
(* Several daemons may exist: `daemon start --name` gives the container    *)
(* another name, while the socket paths, the DNS and proxy addresses and   *)
(* the nftables table of the host stay the same.  What happens to those    *)
(* shared things when daemons start, stop, fail half way, are killed or    *)
(* overlap is what this module is about.  Inside the table only the        *)
(* dynamic grants matter here: `grants` holds the daemons whose grant is   *)
(* in the table.                                                           *)
(***************************************************************************)
EXTENDS Naturals, FiniteSets

CONSTANTS Daemons,    \* container names
          DefaultName,    \* the name used when none is given
          None,       \* no daemon
          Clis,       \* CLI processes
          Projects,   \* rules directories
          MaxCmds,    \* bound: CLI commands begun
          MaxFaults,  \* bound: failing steps and failing docker commands
          MaxKills,   \* bound: daemon processes killed from outside
          MaxCalls    \* bound: API or DNS requests that insert a grant

ASSUME DaemonAssumption ==
    DefaultName \in Daemons /\ None \notin Daemons /\ "stale" \notin Daemons

VARIABLES container,       \* Docker's state of each container
          mount,     \* the rules directory mounted into it
          stopping,  \* containers under `docker stop`
          pc,        \* what the daemon process is about to do
          sock,      \* where the socket files lead
          port,      \* who listens on the DNS and proxy addresses
          grants,    \* daemons whose dynamic grant is in the table
          call,      \* daemons with a request in flight that will insert one
          cli,       \* the CLI processes
          budget,    \* what is left of the bounds
          excused,   \* history: grants whose owner could not take them back
          displaced, \* history: daemons whose socket files another one took
          raced      \* history: CLI processes another command overtook

docker == <<container, mount, stopping>>
shared == <<sock, port, grants>>
hist == <<excused, displaced, raced>>
dvars == <<container, mount, stopping, pc, sock, port, grants, call, cli, budget,
           excused, displaced, raced>>

Stale == "stale"
Sockets == {"host", "agent"}
Ports == {"dns", "proxy"}

Startup == {"load", "bind", "bridge", "dns", "proxy", "state"}
Stopping == {"proxyDown", "dnsDown", "agentDown", "watchersDown", "flush", "reset",
             "cleanup"}

IdleCli == [op |-> "none", at |-> "idle", d |-> None, p |-> None]

DaemonInit ==
    /\ container \in [Daemons -> {"absent", "foreign"}]
    /\ mount = [d \in Daemons |-> None]
    /\ stopping = {}
    /\ pc = [d \in Daemons |-> "off"]
    /\ sock = [s \in Sockets |-> None]
    /\ port = [a \in Ports |-> None]
    /\ grants = {}
    /\ call = {}
    /\ cli = [c \in Clis |-> IdleCli]
    /\ budget = [cmds |-> MaxCmds, faults |-> MaxFaults, kills |-> MaxKills,
                 calls |-> MaxCalls]
    /\ excused = {}
    /\ displaced = {}
    /\ raced = {}

Spend(what) ==
    /\ budget[what] > 0
    /\ budget' = [budget EXCEPT ![what] = @ - 1]

-----------------------------------------------------------------------------
(* The end of a daemon process                                             *)

(* Its listeners close with it.  Docker's restart policy is                *)
(* "unless-stopped": a process that ends by itself is started again.       *)
Ended(d) ==
    /\ pc' = [pc EXCEPT ![d] = "off"]
    /\ call' = call \ {d}
    /\ port' = [a \in Ports |-> IF port[a] = d THEN None ELSE port[a]]
    /\ container' = [container EXCEPT ![d] = IF d \in stopping THEN "exited" ELSE "restarting"]
    /\ stopping' = stopping \ {d}
    /\ UNCHANGED mount

(* remove_stale: the socket file at the path goes, whoever made it         *)
Unlinked == [s \in Sockets |-> None]

(* The files of a closed listener stay and lead nowhere                    *)
Closed(d, ss) == [s \in Sockets |-> IF s \in ss /\ sock[s] = d THEN Stale ELSE sock[s]]

Takes(new) == {d \in Daemons : pc[d] # "off" /\ \E s \in Sockets :
                                 sock[s] = d /\ new[s] # d}

(* ApiSockets is dropped or cleaned up: both files are removed             *)
Cleanup(d) ==
    /\ sock' = Unlinked
    /\ displaced' = (displaced \cup Takes(Unlinked)) \ {d}

-----------------------------------------------------------------------------
(* Start-up: runtime::run up to the point where it serves                  *)

(* The rules are loaded, and --no-proxy is refused when a rule needs it    *)
Load(d) ==
    /\ pc[d] = "load"
    /\ pc' = [pc EXCEPT ![d] = "bind"]
    /\ UNCHANGED <<docker, shared, call, cli, budget, hist>>

LoadFails(d) ==
    /\ pc[d] = "load"
    /\ Spend("faults")
    /\ Ended(d)
    /\ UNCHANGED <<sock, grants, cli, hist>>

(* Mutant: only the host socket is bound again                             *)
BindHostOnly(d) ==
    /\ pc[d] = "bind"
    /\ sock' = [sock EXCEPT !["host"] = d]
    /\ displaced' = displaced \ {d}
    /\ pc' = [pc EXCEPT ![d] = "bridge"]
    /\ UNCHANGED <<docker, port, grants, call, cli, budget, excused, raced>>

(* Mutant: the bridge is initialised after the services have started       *)
BridgeInitLast(d) ==
    /\ pc[d] = "bridge"
    /\ pc' = [pc EXCEPT ![d] = "serve"]
    /\ UNCHANGED <<docker, shared, call, cli, budget, hist>>

(* Each bind first removes whatever socket is at its path                  *)
BindSockets(d) ==
    LET new == [s \in Sockets |-> d] IN
    /\ pc[d] = "bind"
    /\ sock' = new
    /\ displaced' = (displaced \cup Takes(new)) \ {d}
    /\ pc' = [pc EXCEPT ![d] = "bridge"]
    /\ UNCHANGED <<docker, port, grants, call, cli, budget, excused, raced>>

(* What a failing bind leaves: nothing has changed when the paths or their *)
(* directory are refused;                                                  *)
PathsRefused == {sock}

(* bind_host fails once the old file is gone, or after the bind, when its  *)
(* mode or owner cannot be set and the new file stays;                     *)
HostResidue == {[sock EXCEPT !["host"] = None], [sock EXCEPT !["host"] = Stale]}

(* bind_agent fails in the same places, and the host socket is removed.    *)
AgentResidue ==
    {[sock EXCEPT !["host"] = None, !["agent"] = a] : a \in {sock["agent"], None, Stale}}

BindFails(d) ==
    /\ pc[d] = "bind"
    /\ Spend("faults")
    /\ Ended(d)
    /\ \E new \in PathsRefused \cup HostResidue \cup AgentResidue :
         /\ sock' = new
         /\ displaced' = (displaced \cup Takes(new)) \ {d}
    /\ UNCHANGED <<grants, cli, excused, raced>>

(* bridge init ends by replacing the table with the base policy: no grant  *)
(* of any earlier or other daemon survives it                              *)
BridgeInit(d) ==
    /\ pc[d] = "bridge"
    /\ grants' = {}
    /\ excused' = {}
    /\ pc' = [pc EXCEPT ![d] = "dns"]
    /\ UNCHANGED <<docker, sock, port, call, cli, budget, displaced, raced>>

(* The DNS filter binds its address; another daemon may hold it            *)
StartDns(d) ==
    /\ pc[d] = "dns"
    /\ port["dns"] = None
    /\ port' = [port EXCEPT !["dns"] = d]
    /\ pc' = [pc EXCEPT ![d] = "proxy"]
    /\ UNCHANGED <<docker, sock, grants, call, cli, budget, hist>>

StartProxy(d) ==
    /\ pc[d] = "proxy"
    /\ port["proxy"] = None
    /\ port' = [port EXCEPT !["proxy"] = d]
    /\ pc' = [pc EXCEPT ![d] = "state"]
    /\ UNCHANGED <<docker, sock, grants, call, cli, budget, hist>>

(* Network manager, rate limits, stored rule requests, routers             *)
StartServing(d) ==
    /\ pc[d] = "state"
    /\ pc' = [pc EXCEPT ![d] = "serve"]
    /\ UNCHANGED <<docker, shared, call, cli, budget, hist>>

(* A later step fails: run returns the error and its locals are dropped,   *)
(* which closes and removes the sockets but leaves the table alone         *)
StartupFails(d) ==
    /\ pc[d] \in {"bridge", "dns", "proxy", "state"}
    /\ \/ Spend("faults")
       \/ /\ \/ pc[d] = "dns" /\ port["dns"] # None
             \/ pc[d] = "proxy" /\ port["proxy"] # None
          /\ UNCHANGED budget
    /\ Ended(d)
    /\ Cleanup(d)
    /\ excused' = IF d \in grants THEN excused \cup {d} ELSE excused
    /\ UNCHANGED <<grants, cli, raced>>

-----------------------------------------------------------------------------
(* Requests that insert a dynamic grant                                    *)

(* The host API spawns a task per connection, which nothing waits for when *)
(* the server stops                                                        *)
AcceptCall(d) ==
    /\ pc[d] = "serve"
    /\ sock["host"] = d
    /\ d \notin call
    /\ Spend("calls")
    /\ call' = call \cup {d}
    /\ UNCHANGED <<docker, pc, shared, cli, hist>>

FinishCall(d) ==
    /\ d \in call
    /\ call' = call \ {d}
    /\ grants' = grants \cup {d}
    /\ excused' = IF pc[d] = "cleanup" THEN excused \cup {d} ELSE excused
    /\ UNCHANGED <<docker, pc, sock, port, cli, budget, displaced, raced>>

(* An allowed query with direct egress inserts grants as soon as the DNS   *)
(* filter runs, whatever else has started                                  *)
DnsGrant(d) ==
    /\ port["dns"] = d
    /\ d \notin grants
    /\ Spend("calls")
    /\ grants' = grants \cup {d}
    /\ UNCHANGED <<docker, pc, sock, port, call, cli, hist>>

-----------------------------------------------------------------------------
(* Shutdown: what run does after its select, one await after the other     *)

(* SIGTERM, SIGINT, or one of the two API servers ending.  The host        *)
(* listener goes with the select.                                          *)
BeginShutdown(d) ==
    /\ pc[d] = "serve"
    /\ \/ d \in stopping /\ UNCHANGED budget
       \/ d \notin stopping /\ Spend("kills")
    /\ pc' = [pc EXCEPT ![d] = "proxyDown"]
    /\ sock' = Closed(d, {"host"})
    /\ UNCHANGED <<docker, port, grants, call, cli, hist>>

(* proxy.shutdown and dns.shutdown: signal, wait, abort at the deadline    *)
ServiceDown(d, here, a, next) ==
    /\ pc[d] = here
    /\ pc' = [pc EXCEPT ![d] = next]
    /\ port' = [port EXCEPT ![a] = IF @ = d THEN None ELSE @]
    /\ UNCHANGED <<docker, sock, grants, call, cli, budget, hist>>

ProxyDown(d) == ServiceDown(d, "proxyDown", "proxy", "dnsDown")
DnsDown(d) == ServiceDown(d, "dnsDown", "dns", "agentDown")

AgentDown(d) ==
    /\ pc[d] = "agentDown"
    /\ pc' = [pc EXCEPT ![d] = "watchersDown"]
    /\ sock' = Closed(d, {"agent"})
    /\ UNCHANGED <<docker, port, grants, call, cli, budget, hist>>

(* The expiry and event tasks are cancelled and joined, each with its own  *)
(* deadline, before anything is flushed                                    *)
WatchersDown(d) ==
    /\ pc[d] = "watchersDown"
    /\ pc' = [pc EXCEPT ![d] = "flush"]
    /\ UNCHANGED <<docker, shared, call, cli, budget, hist>>

(* DynamicRuleManager::shutdown removes the grants this daemon lists; a    *)
(* failure is only logged                                                  *)
FlushGrants(d) ==
    /\ pc[d] = "flush"
    /\ pc' = [pc EXCEPT ![d] = "reset"]
    /\ \/ grants' = grants \ {d} /\ UNCHANGED budget
       \/ Spend("faults") /\ UNCHANGED grants
    /\ UNCHANGED <<docker, sock, port, call, cli, hist>>

(* Mutant: the flush is trusted to have removed every grant                *)
ResetSkipped(d) ==
    /\ pc[d] = "reset"
    /\ pc' = [pc EXCEPT ![d] = "cleanup"]
    /\ UNCHANGED <<docker, shared, call, cli, budget, hist>>

(* reset_policy replaces the whole table; a failure is only logged         *)
ResetPolicy(d) ==
    /\ pc[d] = "reset"
    /\ pc' = [pc EXCEPT ![d] = "cleanup"]
    /\ \/ grants' = {} /\ excused' = {} /\ UNCHANGED budget
       \/ /\ Spend("faults")
          /\ excused' = IF d \in grants THEN excused \cup {d} ELSE excused
          /\ UNCHANGED grants
    /\ UNCHANGED <<docker, sock, port, call, cli, displaced, raced>>

(* bridge.shutdown, docker.shutdown, sockets.cleanup, and the process ends *)
Finish(d) ==
    /\ pc[d] = "cleanup"
    /\ Ended(d)
    /\ Cleanup(d)
    /\ UNCHANGED <<grants, cli, budget, excused, raced>>

(* The process dies where it stands: SIGTERM before its handler is         *)
(* registered, SIGKILL when `docker stop` has waited 30 s, or a crash      *)
Die(d) ==
    /\ pc[d] # "off"
    /\ \/ d \in stopping /\ pc[d] # "serve" /\ UNCHANGED budget
       \/ Spend("kills")
    /\ Ended(d)
    /\ sock' = Closed(d, Sockets)
    /\ displaced' = displaced \ {d}
    /\ excused' = IF d \in grants THEN excused \cup {d} ELSE excused
    /\ UNCHANGED <<grants, cli, raced>>

(* Docker starts the container again                                       *)
Restart(d) ==
    /\ container[d] = "restarting"
    /\ container' = [container EXCEPT ![d] = IF d \in stopping THEN "exited" ELSE "running"]
    /\ pc' = [pc EXCEPT ![d] = IF d \in stopping THEN "off" ELSE "load"]
    /\ stopping' = stopping \ {d}
    /\ UNCHANGED <<mount, shared, call, cli, budget, hist>>

-----------------------------------------------------------------------------
(* The CLI: cmd_daemon_start, cmd_daemon_stop, ensure_recipe_runtime_ready *)

Goto(c, at) == cli' = [cli EXCEPT ![c].at = at]

cliOnly == <<docker, pc, shared, call, hist>>

(* Arguments and, for a start, the rules directory and the image are       *)
(* checked before anything is touched                                      *)
Begin(c, op, d, p) ==
    /\ cli[c].at = "idle"
    /\ op = "ensure" => d = DefaultName
    /\ Spend("cmds")
    /\ cli' = [cli EXCEPT ![c] = [op |-> op, d |-> d, p |-> p,
                                  at |-> IF op = "ensure" THEN "look" ELSE "inspect"]]
    /\ raced' = raced \ {c}
    /\ UNCHANGED <<docker, pc, shared, call, excused, displaced>>

(* daemon_container_info: a container of that name without Outcall's       *)
(* labels is refused                                                       *)
Manages(d) == container[d] # "foreign"

NeedsStop(d) == container[d] \notin {"absent", "exited"}

(* What `docker run` makes: a container that restarts unless stopped, with *)
(* the project's rules mounted                                             *)
Created(d, p) ==
    /\ container' = [container EXCEPT ![d] = "running"]
    /\ mount' = [mount EXCEPT ![d] = p]
    /\ pc' = [pc EXCEPT ![d] = "load"]

(* Mutant: any running daemon will do                                      *)
MismatchIgnored(c) == FALSE

RulesMountMismatch(c) == mount[cli[c].d] # cli[c].p

(* ensure_daemon_ready: a container that does not run is made anew         *)
EnsureDaemonReady(c) ==
    /\ cli[c].at = "look"
    /\ Manages(cli[c].d)
    /\ Goto(c, IF container[cli[c].d] \in {"running", "restarting"} THEN "compare"
               ELSE "inspect")
    /\ UNCHANGED <<cliOnly, budget>>

(* A second docker inspect asks for the mount, and fails if the container  *)
(* has gone.  The image that was found may not be the one wanted: it comes *)
(* from any earlier `daemon start`, the other from the environment of this *)
(* command or from preferred_daemon_image.                                 *)
CompareDaemon(c, image_mismatch) ==
    LET replaced == RulesMountMismatch(c) \/ image_mismatch IN
    /\ cli[c].at = "compare"
    /\ IF container[cli[c].d] = "absent" THEN Goto(c, "failed")
       ELSE cli' = [cli EXCEPT ![c].at = IF replaced THEN "inspect" ELSE "socket",
                               ![c].op = IF replaced THEN "replace" ELSE "ensure"]
    /\ UNCHANGED <<cliOnly, budget>>

AfterRemoval(c) ==
    cli' = [cli EXCEPT ![c].at = IF cli[c].op = "stop" THEN "ok"
                                 ELSE IF cli[c].op = "replace" THEN "inspect" ELSE "run",
                       ![c].op = IF cli[c].op = "replace" THEN "ensure" ELSE cli[c].op]

(* remove_daemon_container: inspect, `docker stop` if it is needed, `rm`   *)
InspectContainer(c) ==
    LET d == cli[c].d IN
    /\ cli[c].at = "inspect"
    /\ Manages(d)
    /\ \/ container[d] = "absent" /\ AfterRemoval(c) /\ UNCHANGED stopping
       \/ container[d] = "exited" /\ Goto(c, "rm") /\ UNCHANGED stopping
       \/ /\ NeedsStop(d)
          /\ stopping' = stopping \cup {d}
          /\ Goto(c, "halt")
    /\ UNCHANGED <<container, mount, pc, shared, call, budget, hist>>

Refused(c) ==
    /\ cli[c].at \in {"look", "inspect"}
    /\ ~Manages(cli[c].d)
    /\ Goto(c, "failed")
    /\ UNCHANGED <<cliOnly, budget>>

Halted(c) ==
    /\ cli[c].at = "halt"
    /\ cli[c].d \notin stopping
    /\ Goto(c, "rm")
    /\ UNCHANGED <<cliOnly, budget>>

RemoveContainer(c) ==
    LET d == cli[c].d IN
    /\ cli[c].at = "rm"
    /\ \/ /\ container[d] = "exited"
          /\ container' = [container EXCEPT ![d] = "absent"]
          /\ mount' = [mount EXCEPT ![d] = None]
          /\ AfterRemoval(c)
       \/ container[d] # "exited" /\ Goto(c, "failed") /\ UNCHANGED <<container, mount>>
    /\ UNCHANGED <<stopping, pc, shared, call, budget, hist>>

(* `docker run` fails when another command has made the name again         *)
RunContainer(c) ==
    LET d == cli[c].d IN
    /\ cli[c].at = "run"
    /\ \/ /\ container[d] = "absent"
          /\ Created(d, cli[c].p)
          /\ Goto(c, "wait")
          /\ raced' = raced \cup ({e \in Clis : cli[e].at # "idle"} \ {c})
       \/ /\ container[d] # "absent"
          /\ Goto(c, "failed")
          /\ UNCHANGED <<container, mount, pc, raced>>
    /\ UNCHANGED <<stopping, shared, call, budget, excused, displaced>>

(* Ready means that a connection to the host socket is accepted            *)
Connects == sock["host"] \in Daemons

WaitForDaemonStart(c) ==
    LET d == cli[c].d IN
    /\ cli[c].at = "wait"
    /\ \/ Connects /\ Goto(c, IF cli[c].op = "ensure" THEN "socket" ELSE "ok")
       \/ ~Connects /\ container[d] \in {"exited", "absent"} /\ Goto(c, "failed")
    /\ UNCHANGED <<cliOnly, budget>>

WaitForDaemonSocket(c) ==
    /\ cli[c].at = "socket"
    /\ \/ Connects /\ Goto(c, "reload")
       \/ /\ ~Connects
          /\ container[cli[c].d] \in {"restarting", "exited"}
          /\ Goto(c, "failed")
    /\ UNCHANGED <<cliOnly, budget>>

(* cmd_rules_reload and the default network: answered by whichever daemon  *)
(* the host socket leads to                                                *)
ReloadRules(c) ==
    /\ cli[c].at = "reload"
    /\ \/ Connects /\ pc[sock["host"]] = "serve" /\ Goto(c, "ready")
       \/ ~Connects /\ Goto(c, "failed")
    /\ UNCHANGED <<cliOnly, budget>>

(* A docker command fails or exceeds its deadline, or a wait gives up      *)
CommandFails(c) ==
    /\ cli[c].at \notin {"idle", "ok", "ready", "failed"}
    /\ Spend("faults")
    /\ Goto(c, "failed")
    /\ UNCHANGED cliOnly

CliReturns(c) ==
    /\ cli[c].at \in {"ok", "ready", "failed"}
    /\ cli' = [cli EXCEPT ![c] = IdleCli]
    /\ UNCHANGED <<cliOnly, budget>>

-----------------------------------------------------------------------------
DaemonStep(d) ==
    \/ Load(d) \/ LoadFails(d) \/ BindSockets(d) \/ BindFails(d)
    \/ BridgeInit(d) \/ StartDns(d) \/ StartProxy(d) \/ StartServing(d)
    \/ StartupFails(d)
    \/ AcceptCall(d) \/ FinishCall(d) \/ DnsGrant(d)
    \/ BeginShutdown(d) \/ ProxyDown(d) \/ DnsDown(d) \/ AgentDown(d)
    \/ WatchersDown(d)
    \/ FlushGrants(d) \/ ResetPolicy(d) \/ Finish(d)
    \/ Die(d) \/ Restart(d)

CliStep(c) ==
    \/ \E op \in {"start", "stop", "ensure"}, d \in Daemons, p \in Projects :
         Begin(c, op, d, p)
    \/ EnsureDaemonReady(c) \/ \E m \in BOOLEAN : CompareDaemon(c, m)
    \/ InspectContainer(c) \/ Refused(c) \/ Halted(c)
    \/ RemoveContainer(c) \/ RunContainer(c) \/ WaitForDaemonStart(c)
    \/ WaitForDaemonSocket(c) \/ ReloadRules(c) \/ CommandFails(c) \/ CliReturns(c)

DaemonNext == (\E d \in Daemons : DaemonStep(d)) \/ (\E c \in Clis : CliStep(c))

DaemonSpec == DaemonInit /\ [][DaemonNext]_dvars

-----------------------------------------------------------------------------
(* Properties                                                              *)

Phases == {"idle", "look", "compare", "inspect", "halt", "rm", "run", "wait", "socket",
           "reload", "ok", "ready", "failed"}

(* The variables have their types, a container without a running process   *)
(* is not "running", and a socket file that leads to a daemon leads to one *)
(* that has bound it and not ended.                                        *)
DaemonTypeOK ==
    /\ container \in [Daemons -> {"absent", "running", "exited", "restarting", "foreign"}]
    /\ mount \in [Daemons -> Projects \cup {None}]
    /\ stopping \subseteq Daemons
    /\ pc \in [Daemons -> Startup \cup Stopping \cup {"off", "serve"}]
    /\ sock \in [Sockets -> Daemons \cup {None, Stale}]
    /\ port \in [Ports -> Daemons \cup {None}]
    /\ grants \subseteq Daemons /\ call \subseteq Daemons
    /\ cli \in [Clis -> [op : {"none", "start", "stop", "ensure", "replace"},
                         at : Phases, d : Daemons \cup {None},
                         p : Projects \cup {None}]]
    /\ \A d \in Daemons : container[d] = "running" <=> pc[d] # "off"
    /\ \A s \in Sockets : sock[s] \in Daemons =>
         pc[sock[s]] \notin {"off", "load", "bind", "cleanup"}

(* A dynamic grant in the table belongs to a daemon that is still there to *)
(* take it back.  The only exceptions are a daemon that died or failed to  *)
(* start with grants in the table, one whose flush and reset both failed,  *)
(* and a host request still in flight when the shutdown had reset the      *)
(* table; and each of them lasts only until a daemon applies the base      *)
(* policy again (runtime::run, BridgeManager::init and reset_policy).      *)
GrantsOfTheLiving ==
    \A d \in grants :
        d \in excused \/ pc[d] \in {"proxy", "state", "serve"} \cup (Stopping \ {"cleanup"})

(* A serving daemon can be reached at both of its sockets, unless another  *)
(* daemon has since bound the same paths or removed the files on its way   *)
(* out (ApiSockets::bind, cleanup; remove_stale asks for no owner).        *)
SocketsReach ==
    \A d \in Daemons :
        pc[d] = "serve" /\ d \notin displaced => \A s \in Sockets : sock[s] = d

(* `daemon start` reports success only when the process it started has     *)
(* bound its sockets, or when another daemon answers at the same path      *)
(* (wait_for_daemon_start).                                                *)
StartReported ==
    [][\A c \in Clis :
         cli[c].at = "wait" /\ cli'[c].at \in {"ok", "socket"} =>
            \/ pc[cli[c].d] \in {"bridge", "dns", "proxy", "state", "serve"} \cup Stopping
            \/ \E e \in Daemons \ {cli[c].d} : sock["host"] = e]_dvars

(* The commands never stop, remove or replace a container that is not an   *)
(* Outcall daemon (daemon_container_info, require_managed).                *)
ForeignLeftAlone ==
    [][\A d \in Daemons :
         container[d] = "foreign" => container'[d] = "foreign" /\ d \notin stopping']_dvars

(* A recipe run goes on only with a daemon that serves the rules of its    *)
(* own project, unless another command made a daemon while it ran or a     *)
(* daemon of another name holds the socket (ensure_daemon_ready compares   *)
(* the mount once, and the socket is opened later).                        *)
RightRules ==
    [][\A c \in Clis :
         cli[c].at = "reload" /\ cli'[c].at = "ready" =>
            \/ mount[sock["host"]] = cli[c].p
            \/ c \in raced
            \/ sock["host"] # DefaultName]_dvars

(* What is behind the agent socket, as those see it who can only connect   *)
AgentLife ==
    IF sock["agent"] \notin Daemons THEN "down"
    ELSE IF pc[sock["agent"]] = "bridge" THEN "bound"
    ELSE IF pc[sock["agent"]] \in {"dns", "proxy", "state"} THEN "policed"
    ELSE "serving"

Service == INSTANCE DaemonService WITH life <- AgentLife

(* The daemons, with all their overlaps, failures and restarts, give the   *)
(* agent socket the behaviour DaemonService describes: nothing answers     *)
(* there before its process has put the base policy in force (the order    *)
(* of runtime::run).                                                       *)
ImplementsService == Service!ServiceSpec

=============================================================================
