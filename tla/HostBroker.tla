----------------------------- MODULE HostBroker -----------------------------
(***************************************************************************)
(* maybe_prepare_host_broker: what `outcall run` does before the container *)
(* starts so that the agent can reach a host broker.  The state it shares  *)
(* with other runs of the same project is in files: the token, the port    *)
(* and the pid under .outcall/run, the socket a broker listens on and the  *)
(* transport rule, which the daemon uses only after a reload.  On Linux    *)
(* the broker is reached over the socket, on macOS over a loopback port.   *)
(* The broker outlives the run that started it; until that run has written *)
(* everything down a guard kills the broker when the run fails.            *)
(***************************************************************************)
EXTENDS BrokerServer

CONSTANTS
  Runs,         \* runs of `outcall run` in one project; a run's token is itself
  Ports,        \* loopback ports
  NoPort,       \* no port in a file or a rule
  Attempts,     \* spawns ensure_tcp_host_broker_running tries: 3 in the code
  MaxUpsets,    \* bound: failed steps, commands killed, brokers that die, user's acts
  Apart         \* bound: while a run prepares, requests get no further than routing

VARIABLES
  os,           \* "unix" (Linux) or "tcp" (macOS)
  token_file, port_file, pid_file,
  socket,       \* the broker whose listener the socket path names
  rule_disk,    \* the port of the transport rule on disk
  rule_live,    \* the port of the transport rule the daemon applies
  prep,         \* prep[r]: where run r's preparation is
  raced,        \* history: two runs were minting a token at once
  upsets

prepVars == <<os, token_file, port_file, pid_file, socket, rule_disk, rule_live, prep, raced,
              upsets>>

ASSUME TokensAreRuns == Tokens = Runs /\ NoToken \notin Runs

NoPrep == [at |-> "idle", token |-> NoToken, broker |-> NoBroker, port |-> NoPort,
           tries |-> 0, alone |-> FALSE]

Over == {"idle", "none", "ready", "failed", "killed"}

\* r, or a broker r has just spawned, may still change what others find.
Preparing(r) ==
  \/ prep[r].at \notin Over
  \/ \E b \in Brokers : broker[b].by = r /\ broker[b].state = "starting"

HostInit ==
  /\ os \in {"unix", "tcp"}
  /\ broker = [b \in Brokers |->
                 [state |-> "unused", token |-> NoToken, port |-> NoPort, by |-> NoToken]]
  /\ active = [b \in Brokers |-> 0]
  /\ conn = [c \in Conns |-> NoConn]
  /\ declared \in {{}, Resources} /\ granted = Resources
  /\ token_file = NoToken /\ port_file = NoPort /\ pid_file = NoBroker
  /\ socket = NoBroker
  /\ rule_disk = NoPort /\ rule_live = NoPort
  /\ prep = [r \in Runs |-> NoPrep]
  /\ raced = FALSE
  /\ upsets = 0

-----------------------------------------------------------------------------
\* Steps of a run: where it goes next, and what else of its state changes.
Goto(r, at) ==
  prep' = [prep EXCEPT ![r] = IF at \in {"none", "failed", "killed"} THEN [NoPrep EXCEPT !.at = at]
                              ELSE [@ EXCEPT !.at = at]]

Files == <<token_file, port_file, pid_file, rule_disk, rule_live, raced>>
Fixed == <<os, active, conn, declared, granted>>

Upset == upsets < MaxUpsets /\ upsets' = upsets + 1

\* BrokerChildGuard: dropped while armed it kills the broker r has spawned.
GuardKills(r) ==
  LET b == prep[r].broker IN
  IF b = NoBroker \/ broker[b].state = "unused" THEN UNCHANGED <<broker, active, conn>>
  ELSE broker' = [broker EXCEPT ![b].state = "dead"] /\ Abandon(b)

\* Where a request may be while a run prepares, when Apart.
Entering == {"idle", "thread", "read"}

\* The command reaches the preparation.
Begin(r) ==
  /\ prep[r].at = "idle"
  /\ Apart => \A c \in Conns : conn[c].at \in Entering
  /\ prep' = [q \in Runs |->
       IF q = r THEN [NoPrep EXCEPT !.at = "load", !.alone = \A p \in Runs \ {r} : ~Preparing(p)]
       ELSE [prep[q] EXCEPT !.alone = FALSE]]
  /\ UNCHANGED <<os, token_file, port_file, pid_file, socket, rule_disk, rule_live, raced,
                 upsets, serverVars>>

\* No registry, or one that declares nothing: no broker, and no transport rule.
NothingDeclared(r) ==
  /\ prep[r].at = "load" /\ declared = {}
  /\ rule_disk' = NoPort
  /\ Goto(r, IF rule_disk = NoPort THEN "none" ELSE "dropped")
  /\ UNCHANGED <<token_file, port_file, pid_file, rule_live, raced, socket, broker,
                 upsets, Fixed>>

\* Mutant of ReadToken: every run mints a token of its own.
NeverReused(r) ==
  /\ prep[r].at = "load" /\ declared # {}
  /\ prep' = [prep EXCEPT ![r].at = "mint", ![r].token = r]
  /\ raced' = (raced \/ \E q \in Runs : prep[q].at = "mint")
  /\ UNCHANGED <<token_file, port_file, pid_file, rule_disk, rule_live, socket, broker,
                 upsets, Fixed>>

\* ensure_host_broker_running reads the token: an existing one is kept.
ReadToken(r) ==
  /\ prep[r].at = "load" /\ declared # {}
  /\ prep' = [prep EXCEPT ![r].at = IF token_file = NoToken THEN "mint" ELSE os,
                          ![r].token = IF token_file = NoToken THEN r ELSE token_file]
  /\ raced' = (raced \/ (token_file = NoToken /\ \E q \in Runs : prep[q].at = "mint"))
  /\ UNCHANGED <<token_file, port_file, pid_file, rule_disk, rule_live, socket, broker,
                 upsets, Fixed>>

WriteToken(r) ==
  /\ prep[r].at = "mint"
  /\ token_file' = prep[r].token
  /\ Goto(r, os)
  /\ UNCHANGED <<port_file, pid_file, rule_disk, rule_live, raced, socket, broker,
                 upsets, Fixed>>

\* remove_host_broker_transport_rule: on Linux the rule is never wanted.
RemoveRule(r) ==
  /\ prep[r].at = "unix"
  /\ rule_disk' = NoPort
  /\ Goto(r, IF rule_disk = NoPort THEN "probe" ELSE "removed")
  /\ UNCHANGED <<token_file, port_file, pid_file, rule_live, raced, socket, broker,
                 upsets, Fixed>>

\* cmd_rules_reload: the daemon takes up the rules on disk.
AfterReload == [dropped |-> "none", removed |-> "probe", again |-> "ready", activate |-> "ready"]

RulesReload(r) ==
  /\ prep[r].at \in DOMAIN AfterReload
  /\ rule_live' = rule_disk
  /\ Goto(r, AfterReload[prep[r].at])
  /\ UNCHANGED <<token_file, port_file, pid_file, rule_disk, raced, socket, broker,
                 upsets, Fixed>>

\* The listener a request to the run's address reaches.
Listening(p) == {b \in Brokers : broker[b].state = "serving" /\ broker[b].port = p}

Reached(p) ==
  IF os = "unix" THEN {socket} \cap {b \in Brokers : broker[b].state = "serving"}
  ELSE Listening(p)

\* probe_host_broker: a full broker answers the probe with 503.
Healthy(p, token) == \E b \in Reached(p) : broker[b].token = token /\ CanAcquire(b)

\* ensure_unix_host_broker_running: a healthy broker is used as it is.
ProbeUnix(r) ==
  /\ prep[r].at = "probe"
  /\ Goto(r, IF Healthy(NoPort, prep[r].token) THEN "ready" ELSE "spawn")
  /\ UNCHANGED <<Files, socket, broker, upsets, Fixed>>

\* ensure_tcp_host_broker_running: the port on file is probed; a healthy broker
\* gets its rule written again.
ProbePort(r) ==
  /\ prep[r].at = "tcp"
  /\ IF port_file # NoPort /\ Healthy(port_file, prep[r].token)
     THEN /\ prep' = [prep EXCEPT ![r].at = "rewrite", ![r].port = port_file]
     ELSE Goto(r, "spawn")
  /\ UNCHANGED <<Files, socket, broker, upsets, Fixed>>

\* Mutant of WriteRule: a broker that is reused keeps whatever rule there is.
RuleNotRewritten(r) ==
  /\ prep[r].at \in {"rewrite", "rule"}
  /\ rule_disk' = IF prep[r].at = "rewrite" THEN rule_disk ELSE prep[r].port
  /\ Goto(r, IF prep[r].at = "rewrite" THEN "again" ELSE "activate")
  /\ UNCHANGED <<token_file, port_file, pid_file, rule_live, raced, socket, broker,
                 upsets, Fixed>>

\* write_host_broker_transport_rule.
WriteRule(r) ==
  /\ prep[r].at \in {"rewrite", "rule"}
  /\ rule_disk' = prep[r].port
  /\ Goto(r, IF prep[r].at = "rewrite" THEN "again" ELSE "activate")
  /\ UNCHANGED <<token_file, port_file, pid_file, rule_live, raced, socket, broker,
                 upsets, Fixed>>

Unused == {b \in Brokers : broker[b].state = "unused"}

NewBroker == CHOOSE b \in Unused : TRUE

StartBroker(r, p) ==
  LET b == NewBroker IN
  /\ prep[r].at = "spawn" /\ Unused # {}
  /\ broker' = [broker EXCEPT ![b] =
                  [state |-> "starting", token |-> prep[r].token, port |-> p, by |-> r]]
  /\ prep' = [prep EXCEPT ![r].at = "wait", ![r].broker = b, ![r].port = p, ![r].tries = @ + 1]
  /\ UNCHANGED <<Files, socket, upsets, Fixed>>

SpawnUnix(r) == os = "unix" /\ StartBroker(r, NoPort)

\* An ephemeral port is reserved and let go, and the broker spawned with it.
SpawnTcp(r, p) == os = "tcp" /\ Listening(p) = {} /\ StartBroker(r, p)

\* bind_broker_socket takes the path over from whoever had it.  Of two that start
\* together one may find the path gone when it removes it, or taken when it binds.
\* serve_tcp needs the port to be free still.
BindFails(b) ==
  IF os = "tcp" THEN {Listening(broker[b].port) # {}}
  ELSE {FALSE, \E d \in Brokers \ {b} : broker[d].state = "starting"}

Bind(b) ==
  /\ broker[b].state = "starting"
  /\ \E fails \in BindFails(b) :
       /\ broker' = [broker EXCEPT ![b].state = IF fails THEN "dead" ELSE "serving"]
       /\ socket' = IF os = "unix" /\ ~fails THEN b ELSE socket
  /\ UNCHANGED <<Files, prep, upsets, Fixed>>

\* wait_for_*_host_broker: whoever answers with the token counts.
Answered(r) ==
  /\ prep[r].at = "wait" /\ Healthy(prep[r].port, prep[r].token)
  /\ Goto(r, IF os = "unix" THEN "pid" ELSE "port")
  /\ UNCHANGED <<Files, socket, broker, upsets, Fixed>>

\* Mutant of WaitExpired: the broker is left to itself.
ExpiredUnguarded(r) ==
  /\ prep[r].at = "wait" /\ ~Healthy(prep[r].port, prep[r].token)
  /\ Goto(r, IF os = "tcp" /\ prep[r].tries < Attempts THEN "spawn" ELSE "failed")
  /\ UNCHANGED <<Files, socket, broker, upsets, Fixed>>

\* Fifty probes without an answer: the guard kills the broker; over TCP the next
\* attempt takes another port.
WaitExpired(r) ==
  /\ prep[r].at = "wait" /\ ~Healthy(prep[r].port, prep[r].token)
  /\ GuardKills(r)
  /\ Goto(r, IF os = "tcp" /\ prep[r].tries < Attempts THEN "spawn" ELSE "failed")
  /\ UNCHANGED <<Files, socket, upsets, os, declared, granted>>

WritePort(r) ==
  /\ prep[r].at = "port"
  /\ port_file' = prep[r].port
  /\ Goto(r, "pid")
  /\ UNCHANGED <<token_file, pid_file, rule_disk, rule_live, raced, socket, broker,
                 upsets, Fixed>>

\* write_host_broker_pid; on Linux the guard is disarmed next.
WritePid(r) ==
  /\ prep[r].at = "pid"
  /\ pid_file' = prep[r].broker
  /\ Goto(r, IF os = "unix" THEN "ready" ELSE "rule")
  /\ UNCHANGED <<token_file, port_file, rule_disk, rule_live, raced, socket, broker,
                 upsets, Fixed>>

\* A read, a write, a spawn or a reload fails; the daemon may have carried out a reload
\* whose answer is lost.  Before the broker answered, and on Linux, the run fails
\* at once; over TCP what was set up is taken back first.
FailsAtOnce ==
  {"load", "mint", "unix", "tcp", "dropped", "removed", "rewrite", "again", "spawn"}
    \cup IF os = "unix" THEN {"pid"} ELSE {}

FailsLate == {"port", "rule", "activate"} \cup IF os = "tcp" THEN {"pid"} ELSE {}

StepFails(r) ==
  /\ Upset
  /\ \/ prep[r].at \in FailsAtOnce /\ GuardKills(r) /\ Goto(r, "failed")
     \/ prep[r].at \in FailsLate /\ Goto(r, "undo") /\ UNCHANGED <<broker, active, conn>>
  /\ rule_live' \in {rule_live} \cup IF prep[r].at \in DOMAIN AfterReload THEN {rule_disk} ELSE {}
  /\ UNCHANGED <<token_file, port_file, pid_file, rule_disk, raced, socket, os,
                 declared, granted>>

\* cleanup_failed_tcp_broker_setup: a removal that fails is only reported.
Undo(r) ==
  /\ prep[r].at = "undo"
  /\ port_file' \in {port_file, NoPort} /\ pid_file' \in {pid_file, NoBroker}
  /\ rule_disk' \in {rule_disk, NoPort}
  /\ Goto(r, "undone")
  /\ UNCHANGED <<token_file, rule_live, raced, socket, broker, upsets, Fixed>>

\* The reload after the rollback may fail; the error is returned either way.
Undone(r) ==
  /\ prep[r].at = "undone"
  /\ rule_live' \in {rule_live, rule_disk}
  /\ GuardKills(r) /\ Goto(r, "failed")
  /\ UNCHANGED <<upsets, token_file, port_file, pid_file, rule_disk, raced, socket, os,
                 declared, granted>>

PrepareStep(r) ==
  \/ NothingDeclared(r) \/ ReadToken(r) \/ WriteToken(r) \/ RemoveRule(r)
  \/ RulesReload(r) \/ ProbeUnix(r) \/ ProbePort(r) \/ WriteRule(r)
  \/ SpawnUnix(r) \/ \E p \in Ports : SpawnTcp(r, p)
  \/ Answered(r) \/ WaitExpired(r) \/ WritePort(r) \/ WritePid(r)
  \/ StepFails(r) \/ Undo(r) \/ Undone(r)

-----------------------------------------------------------------------------
BrokerDies(b) ==
  /\ broker[b].state \in {"starting", "serving"}
  /\ Upset
  /\ broker' = [broker EXCEPT ![b].state = "dead"]
  /\ Abandon(b)
  /\ UNCHANGED <<Files, socket, prep, os, declared, granted>>

Serve ==
  /\ \E c \in Conns :
       \/ \E b \in Brokers : Accept(c, b)
       \/ HandlerStep(c) \/ ToolStep(c) \/ ToolExits(c) \/ HolderEnds(c)
       \/ \E w \in {"group", "outside"} : ToolForks(c, w)
  /\ Apart /\ (\E r \in Runs : Preparing(r)) => \A c \in Conns : conn'[c].at \in Entering
  /\ UNCHANGED prepVars

EditResources ==
  /\ Upset /\ (Apart => Brokers # Unused)
  /\ \E ids \in SUBSET Resources : EditRegistry(ids) \/ ChangeGrants(ids)
  /\ UNCHANGED <<os, Files, socket, prep>>

hostVars == <<serverVars, prepVars>>

-----------------------------------------------------------------------------
\* A run that gives up leaves no broker behind: one that lives belongs to a run
\* still at work on it, to a run that got everything written down, or to a run
\* that was killed outright, whose guard (BrokerChildGuard) could not run.
GuardedBrokers ==
  \A b \in Brokers : broker[b].state \in {"starting", "serving"} =>
    LET r == broker[b].by IN
      prep[r].at = "killed" \/ (prep[r].at # "failed" /\ prep[r].broker = b)

\* All runs of a project hand their containers the same token: the broker that
\* listens on the shared socket knows the token of every run that is ready, unless
\* two runs looked for a token file before either had written it.
TokenShared ==
  os = "unix" /\ socket # NoBroker /\ ~raced =>
    \A r \in Runs : prep[r].at = "ready" => broker[socket].token = prep[r].token

\* The run's address: what the container is told to use answers its token, or is
\* a broker that has died since; over TCP the daemon's rule is for that port.
Reachable(r) ==
  IF os = "unix" THEN broker[socket].token = prep[r].token
  ELSE /\ rule_live = prep[r].port
       /\ \A b \in Listening(prep[r].port) : broker[b].token = prep[r].token

\* "Host broker ready" is printed only when the container will reach a broker with
\* the token it is given: a preparation that no other one overlapped ends with the
\* socket, or the port and the rule the daemon applies to it, in that state.
ReadyIsReachable ==
  [][\A r \in Runs :
       prep[r].at # "ready" /\ prep'[r].at = "ready" /\ prep[r].alone => Reachable(r)']_hostVars

\* A permit is held by a worker thread and by nothing else: a refused connection, a
\* thread that could not start and a handler that failed give theirs back.
PermitsExact ==
  \A b \in Brokers : active[b] = Cardinality(Workers(b))

\* A tool runs only if, at some moment since its request arrived, the registry
\* declared it, and at some moment the daemon's rules allowed it: neither the
\* registry nor a verdict is carried over from an earlier request.
ToolSanctioned ==
  \A c \in Conns : conn[c].child = "alive" => conn[c].wasDeclared /\ conn[c].wasGranted

\* A request is answered only when its tool is gone, timed out or not.
AnsweredToolGone ==
  \A c \in Conns : conn[c].at = "idle" => conn[c].child # "alive"

\* A worker with a tool returns, at the latest at the timeout, unless a descendant
\* of the tool keeps the pipes open: one outside the tool's process group, or one
\* left by a tool that exited by itself, which nothing kills.
WorkersReturn ==
  \A c \in Conns :
    conn[c].at = "run" ~>
      (conn[c].at = "idle" \/ conn[c].holder = "outside"
         \/ (conn[c].at = "join" /\ conn[c].holder = "group"))
=============================================================================
