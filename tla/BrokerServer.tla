---------------------------- MODULE BrokerServer ----------------------------
(***************************************************************************)
(* The host broker's request server: `outcall host-broker serve`, a        *)
(* process on the host that runs declared tools and reads declared files   *)
(* for the agents.  Each accepted connection takes one of Limit permits    *)
(* and a thread; the thread authenticates the request, loads the registry  *)
(* of host resources afresh, asks the daemon for a verdict and only then   *)
(* acts.  A tool runs as a child in its own process group whose output is  *)
(* collected by reader threads; a descendant of the tool can keep the      *)
(* pipes open after the tool itself is gone.                               *)
(***************************************************************************)
EXTENDS Integers, FiniteSets

CONSTANTS
  Brokers,      \* broker processes, each started at most once
  Conns,        \* connections to brokers
  Resources,    \* ids a registry may declare
  Tokens,       \* bearer tokens
  NoToken,      \* no token in a request or a file
  NoBroker,     \* no broker process
  NoId,         \* no resource asked for
  Asks,         \* the requests made: [kind, token, id]
  Limit         \* MAX_ACTIVE_CONNECTIONS

VARIABLES
  broker,       \* broker[b]: [state, token, port, by], by being who started it
  active,       \* active[b]: permits of b's ConnectionLimiter in use
  conn,         \* conn[c]: the connection and the thread that serves it
  declared,     \* the ids the project's host-resources.yaml declares
  granted       \* the ids the daemon's rules allow

serverVars == <<broker, active, conn, declared, granted>>

\* What a request asks for; token NoToken stands for a missing header.
ASSUME AsksAreRequests ==
  Asks \subseteq [kind : {"exec", "read", "other"},
                  token : Tokens \cup {NoToken}, id : Resources]

ASSUME BrokersAreNamed == NoBroker \notin Brokers /\ IsFiniteSet(Conns) /\ Limit \in Nat

NoConn == [at |-> "idle", on |-> NoBroker, kind |-> "exec", id |-> NoId,
           child |-> "none", holder |-> "none", wasDeclared |-> FALSE, wasGranted |-> FALSE]

Workers(b) == {c \in Conns : conn[c].at # "idle" /\ conn[c].on = b}

\* ConnectionLimiter::try_acquire: one atomic compare and add.
CanAcquire(b) == active[b] < Limit

-----------------------------------------------------------------------------
\* dispatch_connection: a connection gets a permit, or a 503 and nothing more.
Accept(c, b) ==
  /\ broker[b].state = "serving" /\ conn[c].at = "idle"
  /\ CanAcquire(b)
  /\ active' = [active EXCEPT ![b] = @ + 1]
  /\ conn' = [conn EXCEPT ![c] = [NoConn EXCEPT !.at = "thread", !.on = b]]
  /\ UNCHANGED <<broker, declared, granted>>

\* The handler is over: the response is written and ConnectionPermit dropped.
Reply(c) ==
  /\ conn' = [conn EXCEPT ![c] = [NoConn EXCEPT !.child = conn[c].child]]
  /\ active' = [active EXCEPT ![conn[c].on] = @ - 1]
  /\ UNCHANGED <<broker, declared, granted>>

Advance(c, at) ==
  /\ conn' = [conn EXCEPT ![c].at = at]
  /\ UNCHANGED <<broker, active, declared, granted>>

ThreadStarts(c) ==
  /\ conn[c].at = "thread"
  /\ Advance(c, "read")

\* Mutant of ThreadFails: the permit is forgotten.
FailedWithPermit(c) ==
  /\ conn[c].at = "thread"
  /\ conn' = [conn EXCEPT ![c] = NoConn]
  /\ UNCHANGED <<broker, active, declared, granted>>

\* The thread cannot be spawned: the closure is dropped, its permit with it.
ThreadFails(c) ==
  /\ conn[c].at = "thread"
  /\ Reply(c)

\* read_http_request: late, oversized or malformed bytes are answered with 400.
Unreadable(c) ==
  /\ conn[c].at = "read"
  /\ Reply(c)

\* request_is_authenticated: the bearer token is the broker's own.
Authenticated(c, a) == a.token = broker[conn[c].on].token

\* handle_broker_connection up to the registry: a wrong token (403), the health
\* check (200), another method (405) or path (404) end here.
Route(c, a) ==
  /\ conn[c].at = "read"
  /\ IF ~Authenticated(c, a) \/ a.kind = "other" THEN Reply(c)
     ELSE /\ conn' = [conn EXCEPT ![c].at = "config", ![c].kind = a.kind, ![c].id = a.id,
                        ![c].wasDeclared = a.id \in declared,
                        ![c].wasGranted = a.id \in granted]
          /\ UNCHANGED <<broker, active, declared, granted>>

\* load_from_path on every request: a missing or invalid registry is a 500; the
\* body is parsed and validated next (400).
RegistryUnusable(c) ==
  /\ conn[c].at = "config"
  /\ Reply(c)

RequestInvalid(c) ==
  /\ conn[c].at = "config"
  /\ Reply(c)

\* find_tool, find_file: an id the registry does not declare is a 403.
FindResource(c) ==
  /\ conn[c].at = "config"
  /\ IF conn[c].id \in declared THEN Advance(c, "place") ELSE Reply(c)

\* resolve_tool_cwd: the working directory must be one of the project's.
ResolveCwd(c) ==
  /\ conn[c].at = "place" /\ conn[c].kind = "exec"
  /\ \/ Advance(c, "judge")
     \/ Reply(c)

\* external_host_file_root, resolve_host_file_path: the path must lie below the
\* declared root and the root outside the project.
ResolveFile(c) ==
  /\ conn[c].at = "place" /\ conn[c].kind = "read"
  /\ \/ Advance(c, "judge")
     \/ Reply(c)

\* evaluate_broker_rule: the daemon's verdict on host.tool.<id> or host.file.<id>.
EvaluateRule(c) ==
  /\ conn[c].at = "judge"
  /\ IF conn[c].id \in granted THEN Advance(c, "act") ELSE Reply(c)

\* The daemon cannot be asked or answers with an error.
EvaluationFails(c) ==
  /\ conn[c].at = "judge"
  /\ Reply(c)

\* read_file_bounded and the UTF-8 conversion.
ReadFile(c) ==
  /\ conn[c].at = "act" /\ conn[c].kind = "read"
  /\ Reply(c)

\* resolve_tool_path or the forwarded environment fails, or the spawn does.
ToolUnusable(c) ==
  /\ conn[c].at = "act" /\ conn[c].kind = "exec"
  /\ Reply(c)

\* output_with_input_limits: the child leads a process group of its own and the
\* readers of its two pipes start.
SpawnTool(c) ==
  /\ conn[c].at = "act" /\ conn[c].kind = "exec"
  /\ conn' = [conn EXCEPT ![c].at = "run", ![c].child = "alive"]
  /\ UNCHANGED <<broker, active, declared, granted>>

-----------------------------------------------------------------------------
\* The tool, on its own: a descendant inherits the pipes, within the tool's
\* process group or outside it; the tool exits; the descendant closes them.
ToolForks(c, where) ==
  /\ conn[c].child = "alive" /\ conn[c].holder = "none"
  /\ conn' = [conn EXCEPT ![c].holder = where]
  /\ UNCHANGED <<broker, active, declared, granted>>

ToolExits(c) ==
  /\ conn[c].child = "alive"
  /\ conn' = [conn EXCEPT ![c].child = "exited"]
  /\ UNCHANGED <<broker, active, declared, granted>>

HolderEnds(c) ==
  /\ conn[c].holder # "none"
  /\ conn' = [conn EXCEPT ![c].holder = "none"]
  /\ UNCHANGED <<broker, active, declared, granted>>

\* try_wait finds the child gone: the guard is disarmed.
Reaped(c) ==
  /\ conn[c].at = "run" /\ conn[c].child = "exited"
  /\ conn' = [conn EXCEPT ![c].at = "join", ![c].child = "none"]
  /\ UNCHANGED <<broker, active, declared, granted>>

\* terminate_process_group: what left the group is not reached.
GroupKilled(holder) == IF holder = "group" THEN "none" ELSE holder

\* ChildGuard::terminate_and_reap.
TerminateAndReap(c) == [conn[c] EXCEPT !.child = "none", !.holder = GroupKilled(@)]

\* Mutant of ToolTimeout: only the child is killed.
KillChildOnly(c) ==
  /\ conn[c].at = "run" /\ conn[c].child = "alive"
  /\ conn' = [conn EXCEPT ![c].at = "discard", ![c].child = "none"]
  /\ UNCHANGED <<broker, active, declared, granted>>

\* HOST_TOOL_TIMEOUT has passed.
ToolTimeout(c) ==
  /\ conn[c].at = "run" /\ conn[c].child = "alive"
  /\ conn' = [conn EXCEPT ![c] = [TerminateAndReap(c) EXCEPT !.at = "discard"]]
  /\ UNCHANGED <<broker, active, declared, granted>>

\* join_reader on both pipes: each ends when nobody holds its write end.
JoinReaders(c) ==
  /\ conn[c].at = "join" /\ conn[c].holder = "none"
  /\ Reply(c)

\* join_after_termination, then the timeout is reported.
JoinKilled(c) ==
  /\ conn[c].at = "discard" /\ conn[c].holder = "none"
  /\ Reply(c)

ToolStep(c) == Reaped(c) \/ ToolTimeout(c) \/ JoinReaders(c) \/ JoinKilled(c)

HandlerStep(c) ==
  \/ ThreadStarts(c) \/ ThreadFails(c)
  \/ Unreadable(c) \/ \E a \in Asks : Route(c, a)
  \/ RegistryUnusable(c) \/ RequestInvalid(c) \/ FindResource(c)
  \/ ResolveCwd(c) \/ ResolveFile(c)
  \/ EvaluateRule(c) \/ EvaluationFails(c)
  \/ ReadFile(c) \/ ToolUnusable(c) \/ SpawnTool(c)

-----------------------------------------------------------------------------
\* The broker process ends; its tools are nobody's children any more.
Abandon(b) ==
  /\ conn' = [c \in Conns |-> IF c \in Workers(b)
                THEN NoConn ELSE conn[c]]
  /\ active' = [active EXCEPT ![b] = 0]

\* The operator edits the registry; the daemon's rules change.
EditRegistry(ids) ==
  /\ ids # declared
  /\ declared' = ids
  /\ conn' = [c \in Conns |-> [conn[c] EXCEPT !.wasDeclared = @ \/ conn[c].id \in ids]]
  /\ UNCHANGED <<broker, active, granted>>

ChangeGrants(ids) ==
  /\ ids # granted
  /\ granted' = ids
  /\ conn' = [c \in Conns |-> [conn[c] EXCEPT !.wasGranted = @ \/ conn[c].id \in ids]]
  /\ UNCHANGED <<broker, active, declared>>
=============================================================================
