--------------------------- MODULE AgentSessions ---------------------------
(***************************************************************************)
(* The container-facing API of outcalld (outcalld/src/agent_api): the      *)
(* session registry, the rate limits, the bounded evaluation of permission *)
(* checks, and the task that drops what belongs to a container that ended. *)
(* It is composed with the Docker event watcher of ContainerIdentity,      *)
(* whose broadcast channel the cleanup task reads.                         *)
(*                                                                         *)
(* A request waits at every await of its handler: for Docker's answer, for *)
(* a lock, for a permit, for the evaluation thread.  Its client may hang   *)
(* up at each of them.                                                     *)
(***************************************************************************)
EXTENDS ContainerIdentity

CONSTANTS
  Callers,       \* connections of agents, each with one request at a time
  Cleaner,       \* the cleanup task, a consumer of the broadcast channel
  Tokens,        \* session tokens; a random one is new
  NoToken,
  Classes,       \* of {"permission", "rule"}: the two rate limits
  LookupPermits, \* IDENTITY_LOOKUP_CONCURRENCY
  MaxSessions,   \* MAX_SESSIONS
  Limit, Window, \* RateLimitConfig
  EvalPermits,   \* EVALUATION_CONCURRENCY
  MaxClock       \* bound: the time

VARIABLES
  byContainer,   \* SessionRegistry.by_container
  byToken,       \* SessionRegistry.by_token
  issued,        \* history: the container each token was made for
  rates,         \* permission_rates and rule_rates
  pc,            \* where each request is
  op,            \* what it asks for
  peer,          \* the container of the process that sent it
  bearer,        \* the token it carries
  permits,       \* EvaluationExecutor.permits: those left
  abandoned,     \* evaluation threads whose request has returned
  cpc,           \* what the cleanup task clears next
  cids,          \* the containers it clears
  clock,
  admitted,      \* history: when requests passed each limit since it was cleared
  excused        \* history: containers whose end the cleanup task cannot learn

registryVars == <<byContainer, byToken, issued>>
callVars     == <<pc, op, peer, bearer>>
evalVars     == <<permits, abandoned>>
cleanVars    == <<cpc, cids>>
rateVars     == <<rates, admitted>>

agentVars == <<registryVars, callVars, evalVars, cleanVars, rateVars, clock,
               excused>>
vars == <<idVars, agentVars>>

Ops == {"checkin", "check", "submit", "status"}

\* A limiter is absent until its container's first request.
NoLimiter == [stamps |-> {}, seen |-> -1]
NoRates   == [k \in Classes |-> [id \in Ids |-> NoLimiter]]

ASSUME AgentAssumption ==
  /\ Consumers = {Cleaner}
  /\ NoToken \notin Tokens
  /\ IsFiniteSet(Tokens) /\ IsFiniteSet(Callers)
  /\ Classes \subseteq {"permission", "rule"}
  /\ {LookupPermits, MaxSessions, Limit, Window, EvalPermits} \subseteq Nat \ {0}
  /\ MaxClock \in Nat

-----------------------------------------------------------------------------
(* SessionRegistry: sessions.rs.  Its mutex is held for a whole step.      *)

\* existing_for_container
HasSession(id) == byContainer[id] # NoToken /\ byToken[byContainer[id]] # NoId

\* insert, when the registry has room for the container or replaces it.
HasRoom(id) ==
  \/ byContainer[id] # NoToken
  \/ Cardinality({k \in Tokens : byToken[k] # NoId}) < MaxSessions

Insert(id, token) ==
  /\ byContainer' = [byContainer EXCEPT ![id] = token]
  /\ byToken' = [k \in Tokens |-> IF k = token THEN id
                                  ELSE IF k = byContainer[id] THEN NoId
                                  ELSE byToken[k]]
  /\ issued' = [issued EXCEPT ![token] = id]

\* remove_container; clear, when ids is everything.
RemoveSessions(ids) ==
  /\ byContainer' = [id \in Ids |-> IF id \in ids THEN NoToken ELSE byContainer[id]]
  /\ byToken' = [k \in Tokens |-> IF byToken[k] \in ids THEN NoId ELSE byToken[k]]
  /\ UNCHANGED issued

-----------------------------------------------------------------------------
(* SlidingWindow: limiter.rs.  The timestamps are the set of the requests  *)
(* that were admitted, each with its time and a number among those of the  *)
(* same time: only how many there are is asked.                            *)

Recent(stamps) == {s \in stamps : clock - s.at < Window}

\* The next request that is admitted, given those of the window.
Stamp(kept) == [at |-> clock, n |-> Cardinality(kept)]

\* Mutant: the window is left out, and every limiter in use counts as stale.
IsStaleAtOnce(limiter) == clock - limiter.seen >= 0

\* is_stale
IsStale(limiter) == clock - limiter.seen > 2 * Window

\* reap_stale: the limiters left for a class of requests.
Reaped(k) == [id \in Ids |-> IF rates[k][id] # NoLimiter /\ IsStale(rates[k][id])
                             THEN NoLimiter ELSE rates[k][id]]

\* check_rate_limit: the request is admitted and stamped, or refused.
Admits(k, id) == Cardinality(Recent(Reaped(k)[id].stamps)) < Limit

Checked(k, id) ==
  LET kept == Recent(Reaped(k)[id].stamps)
  IN  [rates EXCEPT ![k] = [Reaped(k) EXCEPT ![id] =
         [stamps |-> IF Admits(k, id) THEN kept \cup {Stamp(kept)} ELSE kept,
          seen   |-> clock]]]

-----------------------------------------------------------------------------
(* A request: handlers.rs and identity.rs.                                 *)

CallGoto(t, label) == pc' = [pc EXCEPT ![t] = label]

\* The handler answers, or its future is dropped.
CallReturn(t) ==
  /\ CallGoto(t, "idle")
  /\ op' = [op EXCEPT ![t] = "none"]
  /\ peer' = [peer EXCEPT ![t] = NoId]
  /\ bearer' = [bearer EXCEPT ![t] = NoToken]

\* A process of a running container sends a request.  Its cgroup names the
\* container; a lookup permit is taken for the call of Docker that follows, and
\* without one, a body or a well-formed token the request is refused at once.
Arrive(t, id, o, token) ==
  /\ pc[t] = "idle"
  /\ status[id] = "running"
  /\ token \in IF o = "checkin" THEN {NoToken}
               ELSE {k \in Tokens : issued[k] # NoId}
  /\ Cardinality({u \in Callers : pc[u] = "lookup"}) < LookupPermits
  /\ CallGoto(t, "lookup")
  /\ op' = [op EXCEPT ![t] = o]
  /\ peer' = [peer EXCEPT ![t] = id]
  /\ bearer' = [bearer EXCEPT ![t] = token]
  /\ UNCHANGED <<idVars, registryVars, evalVars, cleanVars, rateVars, clock,
                 excused>>

\* resolve_peer_container: Docker still knows the container, running or not.
PeerFound(t) ==
  /\ pc[t] = "lookup"
  /\ status[peer[t]] # "removed"
  /\ CallGoto(t, "session")
  /\ UNCHANGED <<idVars, registryVars, op, peer, bearer, evalVars, cleanVars,
                 rateVars, clock, excused>>

\* It does not, or does not answer in time.
PeerUnknown(t) ==
  /\ pc[t] = "lookup"
  /\ CallReturn(t)
  /\ UNCHANGED <<idVars, registryVars, evalVars, cleanVars, rateVars, clock, excused>>

\* A message that will clear the container's session is on its way: in the
\* event stream, in the channel, or in the hands of the cleanup task.
EndComing(id) ==
  \/ \E i \in 1 .. Len(stream) : stream[i].kind \in CleanupKinds /\ stream[i].id = id
  \/ \E i \in 1 .. Len(queue[Cleaner]) :
       LET m == queue[Cleaner][i]
       IN  m = Reset \/ (m.kind \in CleanupKinds /\ m.id = id)
  \/ lagged[Cleaner]
  \/ cpc = "sessions" /\ id \in cids
  \/ ~live /\ wpc \in {"listen", "inspect", "record", "broken"}

\* checkin: the session the container has, or a new one, or an error when the
\* registry is full or no random token can be had.  Whether the container still
\* runs is not asked again.
CheckIn(t) ==
  /\ pc[t] = "session" /\ op[t] = "checkin"
  /\ \/ HasSession(peer[t]) /\ UNCHANGED <<registryVars, excused>>
     \/ /\ ~HasSession(peer[t]) /\ HasRoom(peer[t])
        /\ \E k \in {k \in Tokens : issued[k] = NoId} : Insert(peer[t], k)
        /\ excused' = IF status[peer[t]] # "running" /\ ~EndComing(peer[t])
                      THEN excused \cup {peer[t]} ELSE excused
     \/ ~HasSession(peer[t]) /\ UNCHANGED <<registryVars, excused>>
  /\ CallReturn(t)
  /\ UNCHANGED <<idVars, evalVars, cleanVars, rateVars, clock>>

\* resolve_session, once the peer is known.
Accepted(t) == byToken[bearer[t]] = peer[t]

Refused(t) ==
  /\ pc[t] = "session" /\ op[t] # "checkin"
  /\ ~Accepted(t)
  /\ CallReturn(t)
  /\ UNCHANGED <<idVars, registryVars, evalVars, cleanVars, rateVars, clock,
                 excused>>

\* rule_request_status: only the container's own request is reported.
StatusAnswered(t) ==
  /\ pc[t] = "session" /\ op[t] = "status"
  /\ Accepted(t)
  /\ CallReturn(t)
  /\ UNCHANGED <<idVars, registryVars, evalVars, cleanVars, rateVars, clock,
                 excused>>

Authenticated(t) ==
  /\ pc[t] = "session" /\ op[t] \in {"check", "submit"}
  /\ Accepted(t)
  /\ CallGoto(t, "rate")
  /\ UNCHANGED <<idVars, registryVars, op, peer, bearer, evalVars, cleanVars,
                 rateVars, clock, excused>>

\* History: what was admitted within the last window.
InWindow(stamps) == {s \in stamps : s.at + Window > clock}

Class(t) == IF op[t] = "check" THEN "permission" ELSE "rule"

\* check_rate_limit.  A rule that passes is queued (RuleRequests has the queue);
\* a permission check takes a snapshot of the rules and waits for a permit.
RateChecked(t) ==
  /\ pc[t] = "rate" /\ Class(t) \in Classes
  /\ rates' = Checked(Class(t), peer[t])
  /\ admitted' = IF Admits(Class(t), peer[t])
                 THEN [admitted EXCEPT ![Class(t)][peer[t]] =
                         InWindow(@) \cup {Stamp(InWindow(@))}]
                 ELSE admitted
  /\ IF Admits(Class(t), peer[t]) /\ op[t] = "check"
     THEN /\ CallGoto(t, "permit")
          /\ UNCHANGED <<op, peer, bearer>>
     ELSE CallReturn(t)
  /\ UNCHANGED <<idVars, registryVars, evalVars, cleanVars, clock, excused>>

-----------------------------------------------------------------------------
(* EvaluationExecutor: evaluation.rs.  A thread keeps its permit until it  *)
(* ends, also when its request has timed out or was dropped.               *)

Evaluating == {t \in Callers : pc[t] = "evaluate"}

PermitTaken(t) ==
  /\ pc[t] = "permit"
  /\ permits > 0
  /\ permits' = permits - 1
  /\ CallGoto(t, "evaluate")
  /\ UNCHANGED <<idVars, registryVars, op, peer, bearer, abandoned,
                 cleanVars, rateVars, clock, excused>>

\* The thread ends with a verdict; or it panics, and the verdict is a refusal.
Evaluated(t) ==
  /\ pc[t] = "evaluate"
  /\ permits' = permits + 1
  /\ CallReturn(t)
  /\ UNCHANGED <<idVars, registryVars, abandoned, cleanVars, rateVars, clock,
                 excused>>

\* Mutant: the request holds the permit, and gives it back when it gives up.
EvaluationLateFrees(t) ==
  /\ pc[t] \in {"permit", "evaluate"}
  /\ CallReturn(t)
  /\ abandoned' = IF pc[t] = "evaluate" THEN abandoned + 1 ELSE abandoned
  /\ permits' = IF pc[t] = "evaluate" THEN permits + 1 ELSE permits
  /\ UNCHANGED <<idVars, registryVars, cleanVars, rateVars, clock, excused>>

\* The deadline passes before a permit is free, or before the thread ends.
EvaluationLate(t) ==
  /\ pc[t] \in {"permit", "evaluate"}
  /\ CallReturn(t)
  /\ abandoned' = IF pc[t] = "evaluate" THEN abandoned + 1 ELSE abandoned
  /\ UNCHANGED <<idVars, registryVars, permits, cleanVars, rateVars, clock,
                 excused>>

AbandonedEnds ==
  /\ abandoned > 0
  /\ abandoned' = abandoned - 1
  /\ permits' = permits + 1
  /\ UNCHANGED <<idVars, registryVars, callVars, cleanVars, rateVars, clock,
                 excused>>

\* The client hangs up at an await.
HangUp(t) ==
  /\ pc[t] # "idle"
  /\ CallReturn(t)
  /\ abandoned' = IF pc[t] = "evaluate" THEN abandoned + 1 ELSE abandoned
  /\ UNCHANGED <<idVars, registryVars, permits, cleanVars, rateVars, clock,
                 excused>>

-----------------------------------------------------------------------------
(* The cleanup task: mod.rs, spawn_session_cleanup.  The registry and the  *)
(* two rate maps are locked one after the other.                           *)

\* Mutant: a reset clears nothing.
CleanReceivesGaps ==
  /\ cpc = "idle"
  /\ Receive(Cleaner)
  /\ IF lagged[Cleaner] THEN cpc' = "sessions" /\ cids' = Ids
     ELSE IF Head(queue[Cleaner]) # Reset /\ Head(queue[Cleaner]).kind \in CleanupKinds
     THEN cpc' = "sessions" /\ cids' = {Head(queue[Cleaner]).id}
     ELSE UNCHANGED cleanVars
  /\ UNCHANGED <<registryVars, callVars, evalVars, rateVars, clock, excused>>

\* The end of a container clears what belongs to it; a reset, or lost
\* messages, clear everything; a pause is ignored.
CleanReceives ==
  /\ cpc = "idle"
  /\ Receive(Cleaner)
  /\ IF lagged[Cleaner] \/ Head(queue[Cleaner]) = Reset
     THEN cpc' = "sessions" /\ cids' = Ids
     ELSE IF Head(queue[Cleaner]).kind \in CleanupKinds
     THEN cpc' = "sessions" /\ cids' = {Head(queue[Cleaner]).id}
     ELSE UNCHANGED cleanVars
  /\ UNCHANGED <<registryVars, callVars, evalVars, rateVars, clock, excused>>

CleanSessions ==
  /\ cpc = "sessions"
  /\ RemoveSessions(cids)
  /\ cpc' = "rates"
  /\ excused' = excused \ cids
  /\ UNCHANGED <<idVars, callVars, evalVars, cids, rateVars, clock>>

\* The maps of the two limits are cleared in turn; between the two nothing of
\* this module looks at both.
CleanRates ==
  /\ cpc = "rates"
  /\ cpc' = "idle" /\ cids' = {}
  /\ rates' = [k \in Classes |-> [id \in Ids |-> IF id \in cids THEN NoLimiter
                                                  ELSE rates[k][id]]]
  /\ admitted' = [k \in Classes |-> [id \in Ids |-> IF id \in cids THEN {}
                                                     ELSE admitted[k][id]]]
  /\ UNCHANGED <<idVars, registryVars, callVars, evalVars, clock, excused>>

-----------------------------------------------------------------------------
\* A container exits while the watcher has no event stream: nobody is told.
ExitsUnseen == {id \in Ids : /\ ~live /\ ~EndComing(id)
                             /\ status[id] = "running" /\ status'[id] # "running"}

Lifecycle ==
  /\ Docker \/ StreamBreak \/ Watch
  /\ excused' = excused \cup ExitsUnseen
  /\ UNCHANGED <<registryVars, callVars, evalVars, cleanVars, rateVars, clock>>

Tick ==
  /\ clock < MaxClock
  /\ clock' = clock + 1
  /\ UNCHANGED <<idVars, registryVars, callVars, evalVars, cleanVars, rateVars,
                 excused>>

Init ==
  /\ IdInit
  /\ byContainer = [id \in Ids |-> NoToken]
  /\ byToken = [k \in Tokens |-> NoId]
  /\ issued = [k \in Tokens |-> NoId]
  /\ rates = NoRates
  /\ pc = [t \in Callers |-> "idle"]
  /\ op = [t \in Callers |-> "none"]
  /\ peer = [t \in Callers |-> NoId]
  /\ bearer = [t \in Callers |-> NoToken]
  /\ permits = EvalPermits /\ abandoned = 0
  /\ cpc = "idle" /\ cids = {}
  /\ clock = 0
  /\ admitted = [k \in Classes |-> [id \in Ids |-> {}]]
  /\ excused = {}

Request(t) ==
  \/ PeerFound(t) \/ PeerUnknown(t) \/ CheckIn(t) \/ Refused(t)
  \/ StatusAnswered(t) \/ Authenticated(t) \/ RateChecked(t) \/ PermitTaken(t)
  \/ Evaluated(t) \/ EvaluationLate(t)

Clean == CleanReceives \/ CleanSessions \/ CleanRates

Next ==
  \/ Lifecycle
  \/ \E t \in Callers :
       \/ \E id \in Ids, o \in Ops, k \in Tokens \cup {NoToken} : Arrive(t, id, o, k)
       \/ Request(t) \/ HangUp(t)
  \/ AbandonedEnds
  \/ Clean
  \/ Tick

Spec == Init /\ [][Next]_vars

-----------------------------------------------------------------------------
(* Properties.                                                             *)

Stamps == [at : 0 .. MaxClock, n : Nat]

\* The registry, the limiters, the requests and the cleanup are well formed.
AgentTypeOK ==
  /\ byContainer \in [Ids -> Tokens \cup {NoToken}]
  /\ byToken \in [Tokens -> Owner] /\ issued \in [Tokens -> Owner]
  /\ rates \in [Classes -> [Ids -> [stamps : SUBSET Stamps, seen : -1 .. MaxClock]]]
  /\ admitted \in [Classes -> [Ids -> SUBSET Stamps]]
  /\ pc \in [Callers -> {"idle", "lookup", "session", "rate", "permit", "evaluate"}]
  /\ op \in [Callers -> Ops \cup {"none"}]
  /\ peer \in [Callers -> Owner] /\ bearer \in [Callers -> Tokens \cup {NoToken}]
  /\ permits \in Nat /\ abandoned \in Nat
  /\ cpc \in {"idle", "sessions", "rates"} /\ cids \subseteq Ids
  /\ clock \in 0 .. MaxClock /\ excused \subseteq Ids

\* sessions.rs: the two maps of the registry are inverse to each other, so the
\* branch of existing_for_container for a dangling entry is never taken, and
\* replacing a session cannot exceed MAX_SESSIONS.
RegistryConsistent ==
  /\ \A id \in Ids, k \in Tokens : byContainer[id] = k <=> byToken[k] = id
  /\ Cardinality({k \in Tokens : byToken[k] # NoId}) <= MaxSessions

\* identity.rs, resolve_session: a request that got past it carries a token that
\* was made for the container it comes from, and is counted against that
\* container, whatever ended, restarted or was cleaned up since.
ActsForOwnSession ==
  \A t \in Callers : pc[t] \in {"rate", "permit", "evaluate"} =>
                       issued[bearer[t]] = peer[t]

\* The watcher, the cleanup task and the requests have nothing left to do.
Settled ==
  /\ CaughtUp
  /\ queue[Cleaner] = <<>> /\ ~lagged[Cleaner] /\ cpc = "idle"
  /\ \A t \in Callers : pc[t] = "idle"

\* Once everything settled, a session is left of a container that does not run
\* only if the container exited while no event stream was open, or if its
\* check-in was overtaken: Docker had answered, and then the end of the
\* container was handled before the registry was locked.  Nothing else - lost
\* messages, resets, restarts, hang-ups - leaves one.
DeadSessionExplained ==
  Settled => \A id \in Ids : byContainer[id] # NoToken =>
               status[id] = "running" \/ id \in excused

\* limiter.rs: within one window a container passes a limit at most `limit'
\* times, unless its limiter was cleared in between.  Dropping stale limiters
\* never forgets a request of the current window.
RateHolds ==
  \A k \in Classes, id \in Ids :
    Cardinality(InWindow(admitted[k][id])) <= Limit

\* evaluation.rs: "Retain its permit until it actually exits so abandoned work
\* remains bounded."  Every permit is free or with exactly one evaluation thread,
\* whether or not a request still waits for it: however deadlines, hang-ups and
\* late ends of threads fall, threads never outnumber the permits and no permit
\* is lost, which would in the end refuse every check.
EvaluationsBounded ==
  permits + Cardinality(Evaluating) + abandoned = EvalPermits
=============================================================================
