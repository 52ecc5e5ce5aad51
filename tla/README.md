# Outcall in TLA+

Outcall confines agents that run in Docker containers. A daemon, `outcalld`,
owns a bridge with a default-drop firewall, answers the containers' DNS
requests, proxies their HTTP traffic and opens short-lived holes in the
firewall for what a rule set allows. A command, `outcall`, starts the daemon,
prepares a project and launches agents; a shim, `outcall-agent`, runs inside
the container and asks for permission. This directory models the parts whose
correctness depends on the order of things: which firewall rules exist and whom
they belong to, which policy a decision comes from, which process a socket
leads to, and what survives a failure, a dropped connection, a timeout or a
restart.

Paths below are relative to `src/outcalld/src/` unless they say otherwise.

## 1. The system

| Part | State | Operations | Module |
|---|---|---|---|
| Dynamic rules, `dynamic/` | records of the allow rules in the kernel, one mutex | insert, renew, remove, sweep, flush, reset | `DynamicRules` |
| Identity cache and event watcher, `docker/identity.rs`, `docker/events.rs` | address → container, health, generation | refresh, invalidate, record, look up; broadcast | `ContainerIdentity` |
| Policy updates, `api/policy_reload.rs` | update mutex, policy barrier | reload, restore | `PolicyReload` |
| Rule requests, `agent_api/rule_requests.rs`, `api/rule_requests.rs` | map of requests, state file | submit, prune, approve, reject, load | `RuleRequests` |
| Agent API, `agent_api/` | sessions, rate windows, evaluation permits | check in, ask, submit, clean up | `AgentSessions` |
| Operator API, bridge, networks, containers: `api/`, `bridge/`, `network/`, `docker/` | bridge, table, networks, containers, lifecycle mutex | up, down, create, destroy, stop, remove | `ControlPlane` |
| Rule engine, `rules/` | rule files, live rule set | load, order, evaluate, prepare, commit | `RulePolicy` |
| DNS filter, `dns/` | queries, cache, grants | judge, resolve, cache, grant, shut down | `DnsFilter` |
| Proxy, `proxy/` | accept loop, permits, tunnels | accept, refuse, judge, relay, shut down | `ProxyServer` |
| Runtime, `runtime/`; `daemon` commands and the start a recipe run makes, `src/outcall/src/daemon_commands/`, `recipe_runtime/daemon.rs` | containers, processes, sockets, ports | start, fail, shut down, die; start, stop, replace | `DaemonRuntime`, `DaemonService` |
| Shim, `src/outcall-agent/src/` | session, heartbeat, command | check in, ask, run, beat, stop | `AgentShim` |
| Host broker server, `src/outcall/src/host_broker/`, `process_control.rs` | permits, worker threads, tools | accept, authenticate, judge, run, time out | `BrokerServer` |
| Host broker preparation, `host_broker/runtime.rs` | token, port, pid, socket, transport rule | probe, spawn, guard, write, undo | `HostBroker` |
| `outcall run`, `setup`, `recipe run` | recipe files, image, credential, container | scaffold, stage, build, launch, remove | `RecipeRun` |

What makes it hard:

- Every handler is an async task. It awaits nft commands and Docker calls, some
  of them with a mutex held, some not; what it read before an await may be
  stale after it.
- An HTTP client that hangs up drops its handler at an await, and its lock
  guards with it. A blocking task or a Docker operation that it had started
  goes on.
- An nft command, an atomic file replacement or a flush can fail after it took
  effect, or after part of it did.
- Docker's events arrive late, are lost while no stream is open, and the
  channel that redistributes them drops the oldest messages of a slow receiver.
- The daemon may stop between any two steps, and starts from the files. Its
  socket paths, addresses and table are shared with any other daemon.
- Commands of one project share its files without any lock.

## 2. The modules

| Module | Models | Stands on |
|---|---|---|
| `DynamicRules`, `DynamicRulesProofs` | the rule manager, one action per stretch between two awaits | – |
| `ContainerIdentity` | cache, watcher, channel; Docker and the container API around them | – |
| `DynamicLifecycle`, `LifecycleProofs` | the manager asks the cache and hears the watcher | extends `ContainerIdentity` and `DynamicRules`, implements both |
| `AgentSessions`, `AgentSessionsProofs` | agent API; its clean-up task hears the watcher | extends `ContainerIdentity` |
| `PolicyReload`, proved about in `RuleRequestsProofs` | updates of the live policy against DNS requests | – |
| `RuleRequests`, `RuleRequestsProofs` | the request queue, approval, restart | extends `PolicyReload`, implements it |
| `ControlPlane`, proved about in `DaemonProofs` | bridge, networks and containers under the lifecycle mutex | – |
| `RulePolicy` | loading and evaluation as operators; reload as actions | – |
| `DnsFilter`, `ProxyServer` | the two ways out of a container | extend `RulePolicy` |
| `Egress`, `EgressProofs` | both under one rule engine | extends both |
| `DaemonService` | what the agent socket promises | – |
| `DaemonRuntime`, proved about in `DaemonProofs` | daemons, their containers, the commands | implements `DaemonService` |
| `AgentShim`, proved about in `RuleRequestsProofs` | the shim against any such service | extends `DaemonService` |
| `BrokerServer` | requests to a host broker | – |
| `HostBroker`, `HostBrokerProofs` | the brokers' start by several runs | extends `BrokerServer` |
| `RecipeRun`, `RecipeRunProofs` | the commands around it | extends `HostBroker` |
| `MC...` | constants for TLC | the module of that name |

`PROJECT.json` maps every definition to its lines. In every module a `pc`, `at`
or label says what a task is awaiting, and an action is the stretch of code from
one await to the next. Where one module extends another, or one module proves
about two, the specifications have names of their own: `ControlSpec`, `IdSpec`,
`LifeSpec`, `RequestSpec` and so on; a bare `Spec` is that of `DynamicRules`,
`PolicyReload`, `RecipeRun` or `AgentSessions`. Operators whose comment begins with *Mutant* are faulty
versions of the definition they name; no specification uses them.

### DynamicRules

`rules` is `DynState.rules`, `lock` its mutex, `kernel` the rules in the forward
chain. An inserter goes `lookup` → `waitlock` → `nft` → `recheck` (→ `rollback`
→ `reset`), a clean-up goes `waitlock` → `delete` → `reset`. A request is a
container, an address, a flow (destination, protocol and port: resolving the
destination is folded into it) and a TTL. `lost` marks the rules whose insertion
took effect without the manager learning of it; the code has no way to know
their handles. Handles are numbered per table, and replacing the table starts
again at 1, which is the least favourable choice: a stale record may name the
handle of a new rule. What Docker answers is a free parameter here.

### ContainerIdentity

`entries`, `healthy` are the cache; the generation counter is abstracted to
`fresh`, the lookups that would still find it unchanged. The watcher's labels
are the awaits of `watch`. Docker's list or inspection is read in one step and
used in a later one. A `restart` event is a `start`, as in the code. `missed` is
a history variable: the containers that exit between the watcher's list and the
opening of its stream, or are registered after they exited.

### DynamicLifecycle

Inserters perform the lookups of `ContainerIdentity` for their two ownership
checks, and the event task consumes its channel. All requests are managed ones
and the expiry sweep is left out, since it only removes rules. `unseen` is the
history of exits that no open stream reported, and of registrations later than
the exit.

### AgentSessions

The registry's two maps, the sliding windows per container and class of request,
and the permits of the evaluation executor, which an evaluation that timed out
keeps until its thread ends. A request stops at each await of its handler and its
client may hang up there. The clean-up task clears sessions and limits in two
steps, of one container or, after it lagged, of everything. Several requests of one
instant are told apart by a number beside the time. `issued` and
`admitted` are histories of whom a token was made for and when requests passed;
`excused` are containers whose end the clean-up cannot learn.

### PolicyReload

A policy is the set of files it was loaded from. A grant or a cached answer is
identified by the policy that produced it, which is all that the properties
distinguish; grants are the tracked ones, and an insertion whose answer is lost is
`DynamicRules`' subject. `updateLock` is `policy_update`, `readers` and `writer` are the
barrier: a tokio `RwLock`, in which a reader does not overtake a waiting writer.
An update is a plain reload, or stages a file first and may undo itself. The
operator's `allow`, which takes the read lease and does not evaluate the policy,
is left out.

### RuleRequests

The queue is a status per request, in memory and on disk, and the write of it
is a step between taking and releasing the map's mutex. A request's rule file
has the request's name. All policy variables change by actions of
`PolicyReload`, whose files are the queue's; the operator's own edits of the rule
directory are only there. `doubtful` (reported
as failed, but on disk) and `interrupted` (approval cut short, or not cleaned
up) are histories that name the exceptions which the code cannot avoid.

### ControlPlane

`link`, `table`, `sysctl` are the kernel's part of the bridge, `net`, `ctr` and
`on` Docker's. A handler holds `lock` from its first step to its answer, except
when it stops or removes a container. Each call may be answered, fail, or be
given up; one that was given up is in `late` and may be carried out at any later
moment. Subnets are intervals of blocks: a network's subnet is explicit or the
first that fits beside Docker's, and creation checks for overlap before it asks
Docker. Rollback after each failing step is part of the handler. `loose` and
`halfUp` are the histories of the two things the code cannot know: how an
abandoned call ended, and that the last bridge up stopped half way. `acked` is the
history of what a caller was told of; a network that is made again under a used name
has to be reported again.

### RulePolicy, DnsFilter, ProxyServer, Egress

A rule file is a sequence of rules and definitions. `RulePolicy` loads a
directory the way `loader.rs` does: limits on files and rules, `$name`
references to the file's definitions expanded to a bounded depth, conditions
compiled, distinct ids, rules sorted stably by priority. A
condition is a conjunction of facts; two special facts stand for an expression
that does not compile and one that raises an error. A reload reads the files in
one step and commits in another.

`DnsFilter` counts half seconds, since TTLs are whole seconds and the cache
rounds; entries carry their age instead of a time. The cache is a map from names
to entries and the order of their use, the oldest of which makes room. `DnsCache::get`
reads the clock twice, once for the expiry and once for the TTL: the clock may tick
in between (`CacheGet`, `CacheRead`), with the cache's mutex held, and then what is left
is zero by the saturating subtraction. The clock also ticks while a handler has the
records in its hands, before it stores or sends them; `held` is the history of that
time, which no TTL accounts for.
`ProxyServer` follows a
connection from the accept loop through identification, request, verdict,
resolution, the server name of the TLS hello and the relay; a CONNECT keeps the
rule set of its first verdict. Shutdown has its two deadlines. The two services
share nothing but the rules; `Egress` puts both under one engine.

### DaemonRuntime, DaemonService, AgentShim

`pc[d]` is where the daemon in container `d` is in `run_with_services` or in its
shutdown; `sock` says where each socket file leads, `port` who listens; `grants`
are the daemons with a dynamic grant in the table. Commands inspect, stop, remove
and create containers, one `docker` call per step. A recipe run inspects twice, for
the state and for the rules mount, and a container that is gone at the second time is
an error; whether its image is the preferred one is a free choice, since any earlier
command may have made it and the environment names the one that is wanted.
`DaemonService` is the abstract view from the agent socket: down, bound, policed,
serving. `AgentShim` composes the shim with nothing but this abstract service, so that
what is shown of the shim holds behind every daemon that implements it, and
`DaemonRuntime` is shown to. A command counts as stopped once the shim has sent its
SIGKILL, whether or not the five seconds of the last wait were enough to reap it;
`WaitFails` is the wait that returns an error and leaves the command as it is.

### BrokerServer, HostBroker, RecipeRun

`BrokerServer` follows a connection from its permit to its answer, with the tool
it runs and a descendant of the tool that holds the pipes, inside or outside the
tool's process group. `HostBroker` is `maybe_prepare_host_broker`: the files two
runs share, the probe, the spawned broker with its guard, the transport rule and
the reload that makes it live. A broker fails to bind when its port is taken, and of
two that start together one may lose the race for the socket's path. `RecipeRun` is the command around it: preflight,
scaffold, smoke test, staging of the credential, image, daemon, broker, container
and removal, with a user who edits, signs in and out and removes things. The arguments
after the recipe are none, a prompt, or ones that need no credential. Image names are
the same for all projects, so a command of another project may replace an image at any
time (`Foreign`), and `loose` are the docker builds and pulls whose command was killed or
gave up: dockerd may still finish them. Four histories name what a command cannot
know: `touched` (the credentials changed after its preflight), `broken` (it lost
`docker logs` or its terminal), `lost` (its container was removed under it), and
`mixed` (some image or fingerprint was made by a build that was cut short, was
finished by docker after its command, overlapped another one, or saw the directory
change).

## 3. What the runs show

| Run | Shows |
|---|---|
| `dynamic_safety` | two insertions, the event task and the sweeper, with a failed or half-applied command and a rebuilt table: one record per rule, no rule in force is forgotten, a flush that succeeds has revoked everything, the sweep spares renewed rules |
| `dynamic_liveness` | an expired rule goes, although two operations fail or are abandoned on the way |
| `identity` | a caught-up watcher leaves a wrong entry only for an exit nobody could see, and the cache recovers once Docker stops changing |
| `lifecycle` | an address that passes from one container to another, with the container API, an outage and an overflow: a dead container's rule stays only after an unseen exit |
| `policy` | no grant and no cached answer outlives its policy, grants are made only under the live policy, updates get through |
| `requests` | two operators, a full queue, writes that fail or outlive their call, a DNS request and a restart: decisions are final, acknowledged requests are on disk, rejected rules are not in force, approved ones are, and all of it implements the updates of `PolicyReload` |
| `sessions` | no container gets more requests through than its rate allows in any window, an evaluation keeps its permit until its thread ends, and a session outlives its container only where the clean-up could not learn of the end |
| `control` | with calls that fail, time out and are carried out late: a failed creation is undone, subnets stay disjoint, and no network or container is left without bridge and policy except by an abandoned call or a bridge up that stopped half way |
| `runtime` | grants outlive their daemon only where nobody could take them back, serving daemons are reachable, a recipe run gets its own rules, and the daemons implement `DaemonService` |
| `shim` | no command runs unwatched, and a command whose daemon stays away is stopped |
| `egress` | verdicts are those of the files, TTLs and grants stay within what was answered and allowed, a connection is judged by one rule set, a shutdown ends |
| `host` | two commands of a project and their broker: announced brokers are reachable, none is left by a run that gave up, runs share the token, permits are exact, workers return, builds are skipped only when the image is current or another project's |

Every passing property has at least one mutant in `PROJECT.json`: a plausible
mistake in the code under which TLC finds the property violated. The modules state
further properties that no run lists, since a theorem covers them; section 4
names them.

### Where the guarantees stop

The exceptions in the properties are the places where the code gives less than
one might expect. Each is named by a history variable, so that a property says
exactly when it does not apply:

- Bridge up replaces the nftables table and leaves the records of dynamic rules:
  the list then shows rules that are not in force (`ListedUntilRebuild`, which is
  proved, is about the time before).
- A rule that is inserted, or a session that is opened, for a container that
  exited while the event stream was down stays until it expires or until the
  next exit that is seen (`DeadRuleExplained`, `DeadSessionExplained`). So may one that
  an nft command failed to remove.
- A write of the request queue whose caller hung up can finish after a later
  write and replace it on disk (`AcknowledgedDurable`).
- A Docker call that was given up is carried out late, without the lifecycle
  mutex (`NothingWithoutBridge`, `FailureUndone`).
- A daemon of another name takes over the socket files of a running one, and
  removes whatever is there when it ends (`SocketsReach`).
- Two first runs of a project can mint two tokens (`TokenShared`).
- A refusal with 503 is written by the accept loop itself, for up to a second; a
  shutdown that meets several of them aborts the loop at its deadline and leaves
  the count of connections as it was (`ActiveExact`). Tunnels opened under old
  rules survive a reload (`TunnelPoliced` speaks of the moment of the verdict).
- A command that loses `docker logs` removes its container while the agent runs
  (`RunningSpared`); one that is killed or gives up between build and fingerprint, or
  builds while the directory is edited, makes a later cache hit unreliable. So does a
  build of the same recipe in another project, which has the same image name but not the
  same fingerprint file (`CacheHitCurrent`).
- A cached answer's TTL is rounded up by less than a second, and the time an answer is in
  a handler's hands is not subtracted (`AnswerFresh`).

### Bounds

- Two tasks of a kind are enough for most races in the code: each is between a
  check and a use of the same mutex, barrier, file or name. Two containers, two
  addresses and two flows give equal and different keys; two connections
  against a limit of one fill the proxy. `MaxRules` is 1 or 2, so that the cap is
  reached; `MaxRequests` is 1 with two requests, so that the queue is pruned.
- `MaxFaults`, `MaxSlips`, `MaxOrphans`, `MaxBreaks`, `MaxRebuilds`, `MaxGivenUp`,
  `MaxFalls`, `MaxKills`, `MaxSigKills` and `MaxUpsets` count what goes wrong in one
  behaviour: at least one thing goes wrong in every run that is about failures,
  and two where an error path has further error paths.
- `MaxTime`, `MaxClock`, `MaxHandle`, `MaxChanges`, `MaxEdits`, `MaxReloads`,
  `MaxJobs`, `MaxCmds`, `MaxCalls`, `MaxVersion` and `MaxNames` bound the length of
  a behaviour. Three changes of Docker are a start, an exit and the reuse of the
  name or address; four operator requests are a bridge, a network, a container
  and one that interferes. In `sessions` the window is one tick and the clock has
  three, so that it slides over stamps old and new and stale limiters are reaped; the
  limit is two. `MaxHeld` is how long an answer may be in a handler's hands in `egress`.
- `Attempts` is 2 where the code has 3 spawns: the step to the next attempt is what
  matters. `Limit` is 1 in `host`, where the one connection fills the broker for a
  probe; that a refused connection gives its permit back is in the theorem
  `PermitsAreExact` for any number of connections.
- `Apart` in `Egress` starts one of the two services, which share only the rules.
  In `HostBroker` it keeps requests at the broker's door while a run prepares,
  since a preparation meets no more of a request than its permit. In `RecipeRun`
  the projects are either plain, with the whole command, or declare host
  resources, with the whole preparation.
- The symmetry sets permute tasks or requests that no constant tells apart,
  and are used in runs without liveness properties only.
- `CHECK_DEADLOCK FALSE` is set where the system may stop: at the bound on Docker's
  changes, on commands or on requests nothing is left to do, a stopped service
  stays stopped, and an ended command stays ended. The runs of `DynamicRules`,
  `PolicyReload` and `RuleRequests` check for deadlock.

### Fairness

- `DynamicRules`: the sweeper ticks every second (`dynamic/expiry.rs`); a task
  that holds the mutex goes on, since every nft command and Docker call in
  there has a timeout; tokio's mutex is fair, so the sweeper, when it waits
  again and again, gets its turn (strong fairness).
- `ContainerIdentity`: the watcher is a task that awaits only calls with
  timeouts. Nothing is assumed of Docker, lookups or API calls.
- `PolicyReload`: an update that holds its mutex goes on and a DNS request ends
  (both have timeouts); the mutex is fair. That a request ends is assumed, not
  that it reaches any particular step.
- `AgentShim`: the shim's main task and its heartbeat are scheduled, and each of
  their calls has a timeout. Nothing is assumed of the daemon or the command, and no
  failure is ever due.
- `Egress`: a refusal ends within its second, and the accept loop and the
  deadlines of the shutdown come. Nothing is assumed of clients and servers.
- `RecipeRun`: the thread of a worker is scheduled, and with it the timeout it
  watches. Nothing is assumed of the tool.

The other specifications state safety only and assume no fairness.

## 4. What is proved

TLAPS checks the proofs for all values of the constants under the assumptions
named in the modules that declare them: sentinels differ from real values, task
sets are disjoint, bounds are natural numbers, and caps, limits and permits are
positive. Beyond that, every container has a name, the control plane's networks
include the default one and are told apart from its containers, its subnets are intervals of natural numbers, and some
combination of a recipe's flags is in use. An answer of the upstream that is not
empty has a record with the least TTL. Sets of containers, requests, tasks,
daemons, commands and runs may be infinite; the connections of a broker and of
the proxy and the tokens and callers of the agent API are finite, since they are
counted.

### Dynamic rules

`DynamicRulesProofs`, from the inductive invariant `IInv`:

- `TypeCorrect`: the state stays well formed.
- `Inductive`: `IInv` holds always.
- `RulesTracked`: `KernelRulesTracked`. The manager never forgets a rule that is
  in force, except one whose insertion never returned.
- `OneRecord`, `CapRespected`: `OneRecordPerRule` and `CapHolds`.
- `FlushComplete`: `FlushRevokes`.

The properties are not inductive by themselves. `LockHeld` ties the mutex to
the tasks' labels, so that two tasks are never in the middle of their changes.
`ChecksHold` says that the duplicate and cap checks still hold when the nft
command returns. `HandlesFresh` says that a handle names one rule of a table, so
that a delete removes the rule it means. `DoomedCovered` is the crucial one: a
record that a flush or a removal is going to forget is either still to be
deleted or already out of the kernel; without it the clearing of all records at
the end could forget a live rule.

The converse, that every record is a rule in force, fails once the table is
rebuilt or an nft command fails half way, so it is proved of the time before:

- `CalmRecords`: `CalmInv` holds always.
- `ListedAreInForce`: `ListedUntilRebuild`. What `GET /rules/dynamic` lists while no
  operation is in progress is in force.

`CalmInv` says, until the first fault or rebuild, that a handle names one record,
that each record is in force or is on the list of the clean-up at work, that what
that clean-up has still to delete is in force, and that what an insertion may have
to roll back is in force. Only the last two keep a delete from failing, and a
failed delete would reset the manager.

- `SweepSpares`: `SweepSparesLiveRules`, an action property, from `SweepInv`: the
  clock reading of a sweep is not ahead of the clock, and everything the sweep is
  still to delete had expired at it. The clock is read before the mutex is taken;
  the list is made, and every delete happens, under it, so a renewal comes before
  the list or after the last delete.

### Rules of containers that are gone

`LifecycleProofs`, about `DynamicLifecycle`, on top of the proofs of the rule
manager. What the two parts need to agree on is `CompositionAssumption`: the
lookups are those of the inserters, the addresses are Docker's, the containers
are the names of its ids, and every request is a managed one.

- `ManagerComposed`, `IdentityComposed`: the composition implements
  `DynamicRules` and `ContainerIdentity`. In `DynamicRules` alone Docker's answer is
  free; here it comes from the cache, and that is one of the free answers. So the
  theorems about either part hold of both together.
- `DeadRulesExplained`: `DeadRuleExplained`, from `LifeInvariant`, that `LifeInv`
  holds always.

`DeadRuleExplained` speaks of the moment when all is settled; `RuleInv`, the heart of
`LifeInv`, accounts for each rule at every other. The pair of a container and an
address is `Standing` if the container has the address, or its end was seen by
nobody, or a message that removes its rules is in the event stream or in the event
task's queue, or the stream is lost and the watcher will tell the event task to
flush, or the event task has its message and waits for the manager's lock. A rule is either standing, or about to be removed by
the event task, or not yet confirmed by the second lookup of its own insertion. The
last case is why the second lookup exists: an exit between the first one and the
record is handled before there is anything to remove. So `LookInv` says that the list
of a second lookup, made when the rule was recorded, names only standing pairs,
and `CacheInv` says the same of a healthy cache, of the watcher's snapshot and of
a list that a lookup may still install, up to the messages that have not reached the
event task. `RuleInv` is about the time before the first failed command: a failed
delete makes the manager reset itself, and when the reset fails too, the records stay
until a later clean-up or the sweep.

### Policy updates and rule requests

`RuleRequestsProofs`, about `PolicyReload` alone, from its `IInv`:

- `PolicyTypeCorrect`, `PolicyInductive`: as above.
- `GrantsFollow`: `GrantsFollowPolicy`. No grant and no cached answer outlives the
  policy it came from, outside an update and up to a failed revocation.
- `PreviousRemain`: `PreviousRulesRemain`.
- `GrantsLive`: `GrantsAreLive`, an action property.

Here `LocksHeld` ties the update mutex and both sides of the barrier to the
labels. From it, `BasisLive`: the policy a request was evaluated under stays the
live one, because the lease keeps every commit and restore out. `Flushed` says
that nothing is granted between the flush and the commit, so the new policy
starts without grants. `Derived` is `GrantsFollowPolicy` behind the barrier too,
with the one window the code has: between a restored policy and its revocation.

The same module, about `RuleRequests`:

- `RequestsImplementPolicy`: `ImplementsPolicyReload`. Every step of the request
  queue is a step of `PolicyReload` or leaves its variables alone. The only
  invariant it needs is that a call's `aim` is a request. With it the theorems
  about `PolicyReload` hold of approvals as well.
- `RequestsTyped`: `RequestTypeOK`. With it, `Calls`: only the holder of the queue's mutex
  writes, and a call on its way has a request and a verdict.
- `AcknowledgedIsDurable`, `DecisionsAreFinal`: `AcknowledgedDurable` and
  `DecisionsFinal`, from `Durable`. Neither map by itself is enough: the one on
  disk and the one being written agree with the one in memory on every decision,
  up to what a full queue prunes, because a failed write may have replaced the
  file and the next restart reads it.
- `ApprovedAreInForce`: `ApprovedInForce`, from `InForce`. `Good(r)` says that `r` is
  in force whatever becomes of the update in progress: it is in the directory,
  the policy, the policy to be restored and the one about to be committed, and is
  not the file to be removed. `InForce` says it of every request that is approved
  in memory, on disk or in a write that outlived its call. `Linked` and `Copied`
  tie a call to its update and to what it writes, so that `r` is recorded as
  approved only by the call whose update has put it in force.
- `RejectedAreNotInForce`: `RejectedNotInForce`, from `Settled`. A request whose
  approval was never cut short is `Out`, its file being there only while an
  update has it staged, or `Good` and neither pending nor rejected anywhere.

### Identity cache and agent API

`AgentSessionsProofs`, first about `ContainerIdentity`, from `IdInv`:

- `IdentityTyped`, `StaleEntriesExplained`: the type invariant and `StaleEntryExplained`.

`StaleEntryExplained` speaks of a caught-up watcher; the invariant has to account
for a wrong entry at every other moment. `CacheFresh` says that each wrong entry, in
the cache or in a list that a lookup is still allowed to install, is covered by a
missed exit, by a message that is announced, or by the one in the watcher's hands.
`SnapshotFresh` and `RecordFresh` say the same of what the watcher itself has read
and not yet stored, and `WatcherPhase` that before the stream is open nothing is in
it, and that until the watcher's own list is installed no lookup installs one.

Then about `AgentSessions`:

- `AgentTyped`: the type invariant.
- `RatesHold`: `RateHolds`, from `RateInv`: every stamp that passed within the window
  is in its limiter, so a limiter that is reaped forgets nothing that counts.
  `EveryRequestCounted`, an action property, makes the set of stamps a count: an
  admitted request takes a stamp that the window does not have yet.
- `RegistriesConsistent`, `RequestsActForOwnSession`, from
  `RegistryInv`: the two maps are inverse to each other, and every token in a map or
  in a request's hands was issued for that container.
- `EvaluationsStayBounded`: `EvaluationsBounded`, from `EvalInv`: free permits, evaluations waited for and
  evaluations abandoned add up to `EvalPermits`.
- `DeadSessionsExplained`: `DeadSessionExplained`, from `SessionInv`: the container of
  each session runs, or is excused, or its end is on its way to the clean-up.

### Control plane

`DaemonProofs`, from `Inv`: `ControlTyped`, `NothingIsStranded`,
`FailuresAreUndone`, `SubnetsStayDisjoint` and `PolicyStaysBehind`, which is the type
invariant and the four invariants of the run.

`LockInv` ties the lifecycle mutex to the handlers' steps. `LateInv` says that a
call that was given up can make or start only what is in `loose` already. `JobInv`
is what the holder of the mutex knows at each step: for bridge down, `Quiesced`,
that nothing runs and nothing will, which has to survive every late call and every
stop or removal that runs beside it without the mutex. `MadeInv` says that what was
made is reported, loose or still in the hands of its maker; `DisjointInv` and
`PolicyInv` strengthen the two properties to hold between the steps of a handler.

### Egress

`EgressProofs`, from `EgressInv` (`EgressInvariant`):

- `EgressTyped`: the type invariant.
- `AnswersAreFresh`: `AnswerFresh`, from `CacheInv` and `QueryFresh`: an entry is kept
  no longer than its shortest record, in half seconds, and a query that is about to
  store an answer has the upstream's own TTLs. The rounding up of what is left is
  what makes the bound less than a second and not zero; a query
  that waits grows older and `held` by the same time, and an entry keeps the `held` of
  the query that stored it.
- `GrantsAreAllowed`: `GrantsAllowed`, from `QueryJudged`: a query that holds the
  policy lease has the verdict and the egress settings of the rules in force, since a
  commit waits for the lease, and the addresses it still has to grant were filtered
  by them. A commit revokes every grant in the same step.
- `TunnelsArePoliced`: `TunnelPoliced`, from `TunnelInv`. A CONNECT is judged twice,
  for its target and, after the ClientHello, for its names, and a reload may come in
  between. `Policed` follows the rule set through this: up to the ClientHello it is
  the snapshot of the first verdict, from there on some rule set of the connection's
  history that allows target and names together, and last the address as well.
- `ActiveIsExact`: `ActiveExact`, from `CountInv`, which ties the count and the accept
  loop to the life of the server.

Nothing in these proofs depends on how rules are loaded, ordered or matched: they
hold for whatever verdicts `RulePolicy`'s operators give.

### Daemon and shim

`DaemonProofs`, about `DaemonRuntime`, from `DaemonInv`:

- `DaemonTyped`, `GrantsAreOwned`, `ServingIsReached`: the type invariant and the two
  invariants of the run; `RulesAreRight`: its action property; `StartsAreReported`
  and `ForeignIsLeftAlone`: a start is reported when it happened, and foreign
  containers are left alone.
- `DaemonsServe`: the refinement of `DaemonService`.

`Alive` says at which steps a process can own a socket, a port or a call, since
each part of the shutdown takes its part away before the next begins. `HoldsPaths`
strengthens `SocketsReach` back to the bind: from then on a daemon holds both
paths or has been displaced. `CliInv` says why a command that nobody overtook
still has its own rules at the reload: the mount of a container is fixed when it
is made, and only a command makes one.

`RuleRequestsProofs`, about `AgentShim`, from `ShimInv`: `ShimTyped`,
`CommandsWatched`, `SuccessIsExplained` (losing the daemon is never reported as
success). The invariant says which heartbeat, session and child go with each place
of the main task.

### Host broker and recipe runs

`HostBrokerProofs`, about `RecipeRun`'s whole specification, without the
restriction `Apart` puts on the runs:

- `PermitsAreExact`, `ToolsAreSanctioned`, `AnsweredToolsAreGone`, from `ServerInv`:
  each connection's record is sound (a child lives only while its worker is at
  `run` and after both checks) and the permits equal the number of workers.
- `BrokersAreGuarded`, from `GuardInv`: before its first spawn a run answers for no
  broker, and when it spawns another one the one before is dead.
- `TokensAreShared`, from `TokenInv`: without a race every token in use is the one
  on file, and while a run mints one nobody has a token yet.
- `ReadyRunsReach`: `ReadyIsReachable`, from `ReachInv`. For a run that prepares alone,
  whatever starts is its own, and the answer its probe or its broker gave is still
  that of its address when it goes on; over TCP, `PortInv` says that two serving
  brokers have two ports.

`RecipeRunProofs`, about the same specification:

- `RecipeTypesHold`, `RefusalsExplained`, `RemovalsOwn`, `RunningAgentsSpared` and
  `UserEditsKept`, from `RecipeInv`: a command works through the files in their order,
  a credential that its preflight accepted is still found unless `touched`, and the
  container it follows is its own unless `lost`.
- `CacheHitsCurrent`: `CacheHitCurrent`, from `CacheInv`: unless `mixed`, a command that
  is choosing has seen the directory's present version, only one command builds, and
  the fingerprint on file is that of the local image or the image is another project's.
  A pull that ends late needs no exception: the built-in image is used only for the
  directory as it was generated.

### What is only model-checked

- The liveness properties `ExpiredRulesLeave`, `CacheConverges`, `UpdatesReturn`,
  `UnreachableStops`, `ShutdownEnds` and `WorkersReturn`: fairness is out of the
  prover's reach.
- `VerdictByFiles`, which compares what `RulePolicy`'s operators compute (expansion,
  stable sort, first match) with a reference over the directories of `MCEgress`: for
  every directory it would take an induction over sequences, and the induction
  theorems have an operator as a parameter, which the provers cannot instantiate.

`EgressTypeOK` and `ActiveExact`, like the other properties that no run lists, are
proved; the `egress` run leaves them out for its length.

## 5. What is not modelled

- The text of nft rulesets, DNS and HTTP messages, TLS records, command lines,
  YAML and CEL: a parser either yields what the rules see or fails.
- Input validation that reads no state: container requests, mounts, environment,
  names, CIDR syntax; CA handling.
- The race between upstream DNS servers: one answer or none comes back.
- Image pulls and garbage collection in the daemon.
- The end of a broker between the removal of the old socket file and its own bind,
  which leaves no socket; of brokers that start together, the loser's failure is.
- The exec transport of the shim on macOS; the shim over the socket is modelled.
- Of the recipes: the catalogue, `recipe doctor`, the saved default recipe, a
  user's own `image:`, copies to the global configuration, and the composition
  of mounts, environment and arguments. `ensure_recipe_initialized` is one step.
- Read-only commands and handlers, the UI and its relay, output.
