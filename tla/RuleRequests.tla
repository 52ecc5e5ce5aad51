---------------------------- MODULE RuleRequests ----------------------------
(***************************************************************************)
(* Rule requests of agents and their approval or rejection by an operator  *)
(* (outcalld/src/agent_api/rule_requests.rs and api/rule_requests.rs), on  *)
(* top of the policy updates of PolicyReload, which this module            *)
(* implements.                                                             *)
(*                                                                         *)
(* The queue is a map in memory and a file on disk.  An operation holds    *)
(* the map's mutex while a blocking task writes the new map to disk, and   *)
(* then replaces the map.  If its client hangs up meanwhile, the mutex is  *)
(* released and the blocking task goes on by itself.                       *)
(***************************************************************************)
EXTENDS PolicyReload

CONSTANTS
  Requests,      \* request ids; also the names of their rule files
  Agents,        \* tasks that submit a request
  NoRequest,
  MaxRequests,   \* MAX_REQUESTS
  MaxOrphans,    \* bound: writes that outlive their handler
  MaxSlips       \* bound: failed writes of the queue and hang-ups of its calls

VARIABLES
  requests,      \* RuleRequestManager.requests: the status of each request
  disk,          \* the same, in the state file
  transition,    \* RuleRequestManager.transitions: its holder
  reqLock,       \* the mutex of `requests': its holder while it writes
  rpc,           \* where each operator's or agent's call is
  aim,           \* the request it is about
  verdict,       \* what an operator decides on it
  next,          \* the map it is writing
  orphans,       \* maps being written for calls that were dropped
  orphaned,      \* how many there have been
  slips,         \* failed writes and hang-ups so far
  acked,         \* history: requests acknowledged to their agent, not pruned
  doubtful,      \* history: approvals that failed although they reached the disk
  interrupted    \* history: approvals cut short, or not cleaned up

policyVars == <<files, policy, updateLock, pc, staged, saved, prepared, readers,
                writer, dpc, basis, grants, cache, unrevoked, faults, edits>>
queueVars  == <<requests, disk, orphans, orphaned>>
lockVars   == <<transition, reqLock>>
callVars   == <<rpc, aim, verdict, next>>
historyVars == <<acked, doubtful, interrupted>>

requestVars == <<policyVars, queueVars, lockVars, callVars, historyVars, slips>>

Statuses == {"none", "pending", "approved", "rejected"}
Maps     == [Requests -> Statuses]
Callers  == Updaters \cup Agents
Empty    == [r \in Requests |-> "none"]

Slip == slips < MaxSlips /\ slips' = slips + 1

ASSUME RequestAssumption ==
  /\ Requests \subseteq Files /\ {NoRequest, NoFile} \cap Files = {}
  /\ Updaters \cap Agents = {} /\ NoTask \notin Callers
  /\ MaxRequests \in Nat \ {0} /\ {MaxOrphans, MaxSlips} \subseteq Nat

-----------------------------------------------------------------------------
(* Writing the queue.                                                      *)

\* The call takes the mutex and starts to write the map m.
BeginWrite(t, m) ==
  /\ reqLock = NoTask
  /\ reqLock' = t
  /\ next' = [next EXCEPT ![t] = m]
  /\ rpc' = [rpc EXCEPT ![t] = "writing"]

\* The call returns, or is dropped, and so are its guards.
CallReturn(t) ==
  /\ rpc' = [rpc EXCEPT ![t] = "idle"]
  /\ aim' = [aim EXCEPT ![t] = NoRequest]
  /\ verdict' = [verdict EXCEPT ![t] = "none"]
  /\ next' = [next EXCEPT ![t] = Empty]
  /\ transition' = IF transition = t THEN NoTask ELSE transition
  /\ reqLock' = IF reqLock = t THEN NoTask ELSE reqLock

\* The write succeeds, then the map in memory is replaced.
Persisted(t) ==
  /\ rpc[t] = "writing"
  /\ disk' = next[t]
  /\ requests' = next[t]
  /\ UNCHANGED <<orphans, orphaned>>

\* Mutant: the map in memory is replaced before it is written.
PersistFailsMutated(t) ==
  /\ rpc[t] = "writing"
  /\ disk' \in {disk, next[t]}
  /\ requests' = next[t]
  /\ UNCHANGED <<orphans, orphaned>>

\* The write fails: without effect, or after the rename.
PersistFails(t) ==
  /\ rpc[t] = "writing"
  /\ disk' \in {disk, next[t]}
  /\ UNCHANGED <<requests, orphans, orphaned>>

\* The caller hangs up during the write.
Orphan(t) ==
  /\ rpc[t] = "writing"
  /\ orphaned < MaxOrphans
  /\ orphaned' = orphaned + 1
  /\ orphans' = orphans \cup {next[t]}
  /\ UNCHANGED <<requests, disk>>

\* A write without a caller ends, with or without effect.
OrphanEnds(m) ==
  /\ m \in orphans
  /\ orphans' = orphans \ {m}
  /\ disk' \in {disk, m}
  /\ UNCHANGED <<policyVars, requests, orphaned, lockVars, callVars, historyVars,
                 slips>>

-----------------------------------------------------------------------------
(* An agent submits a request: rule_request_submit and insert.             *)

Decided == {r \in Requests : requests[r] \in {"approved", "rejected"}}
Pending == {r \in Requests : requests[r] = "pending"}

\* make_room_for_insert: a full queue drops the decided requests.
Pruned ==
  IF Cardinality(Decided \cup Pending) < MaxRequests THEN {} ELSE Decided

\* Ids are random: a request never gets the id of an earlier one.
Fresh(r) ==
  /\ requests[r] = "none" /\ disk[r] = "none" /\ r \notin files \cup policy
  /\ \A m \in orphans : m[r] = "none"

SubmitBegin(t, r) ==
  /\ rpc[t] = "idle"
  /\ Fresh(r)
  /\ Cardinality((Decided \cup Pending) \ Pruned) < MaxRequests
  /\ BeginWrite(t, [q \in Requests |-> IF q = r THEN "pending"
                                       ELSE IF q \in Pruned THEN "none"
                                       ELSE requests[q]])
  /\ aim' = [aim EXCEPT ![t] = r]
  /\ UNCHANGED <<policyVars, queueVars, transition, verdict, historyVars, slips>>

SubmitDone(t) ==
  /\ Persisted(t)
  /\ acked' = {r \in acked \cup {aim[t]} : next[t][r] # "none"}
  /\ CallReturn(t)
  /\ UNCHANGED <<policyVars, doubtful, interrupted, slips>>

\* Mutant: the agent is answered before the write has succeeded.
SubmitFailsAcked(t) ==
  /\ PersistFails(t) \/ Orphan(t)
  /\ Slip
  /\ acked' = acked \cup {aim[t]}
  /\ CallReturn(t)
  /\ UNCHANGED <<policyVars, doubtful, interrupted>>

\* The agent is told that its request was not stored, or hangs up.  What a
\* failed write has pruned on disk is not owed any more.
SubmitFails(t) ==
  /\ PersistFails(t) \/ Orphan(t)
  /\ Slip
  /\ acked' = {r \in acked : next[t][r] # "none"}
  /\ CallReturn(t)
  /\ UNCHANGED <<policyVars, doubtful, interrupted>>

-----------------------------------------------------------------------------
(* An operator decides on a request: approve and reject.                   *)

\* The id is valid, and the call waits for its turn.
DecideStart(t, r, v) ==
  /\ rpc[t] = "idle" /\ pc[t] = "idle"
  /\ rpc' = [rpc EXCEPT ![t] = "transition"]
  /\ aim' = [aim EXCEPT ![t] = r]
  /\ verdict' = [verdict EXCEPT ![t] = v]
  /\ UNCHANGED <<policyVars, queueVars, lockVars, next, historyVars, slips>>

\* The request is pending: an approval updates the policy first, a rejection
\* is written at once.
DecideCheck(t) ==
  /\ rpc[t] = "transition"
  /\ transition = NoTask /\ reqLock = NoTask
  /\ requests[aim[t]] = "pending"
  /\ transition' = t
  /\ rpc' = [rpc EXCEPT ![t] = "decide"]
  /\ IF verdict[t] = "approved" THEN StartUpdate(t)
                                ELSE UNCHANGED policyVars
  /\ UNCHANGED <<queueVars, reqLock, aim, verdict, next, historyVars, slips>>

\* It is unknown or already decided.
DecideConflict(t) ==
  /\ rpc[t] = "transition"
  /\ transition = NoTask /\ reqLock = NoTask
  /\ requests[aim[t]] # "pending"
  /\ CallReturn(t)
  /\ UNCHANGED <<policyVars, queueVars, historyVars, slips>>

\* The rule file is written under policy_update.
Stage(t) ==
  /\ aim[t] # NoRequest
  /\ Begin(t, aim[t])
  /\ UNCHANGED <<queueVars, lockVars, callVars, historyVars, slips>>

\* It is not, or not for sure.
StagingFails(t) ==
  /\ aim[t] # NoRequest
  /\ StageFails(t, aim[t])
  /\ CallReturn(t)
  /\ interrupted' = IF aim[t] \in files' THEN interrupted \cup {aim[t]}
                                         ELSE interrupted
  /\ UNCHANGED <<queueVars, acked, doubtful, slips>>

\* Mutant: the file stays when the reload fails.
ReloadFailedKeepsFile(t) ==
  /\ aim[t] # NoRequest /\ pc[t] = "failed"
  /\ UpdateReturn(t)
  /\ CallReturn(t)
  /\ UNCHANGED <<files, policy, readers, writer, dpc, basis, grants, cache,
                 unrevoked, faults, edits, queueVars, historyVars, slips>>

\* The reload of the policy fails, and the file is removed, or not.
ReloadFailed(t) ==
  /\ aim[t] # NoRequest /\ pc[t] = "failed"
  /\ Finish(t)
  /\ CallReturn(t)
  /\ interrupted' = IF aim[t] \in files' THEN interrupted \cup {aim[t]}
                                         ELSE interrupted
  /\ UNCHANGED <<queueVars, acked, doubtful, slips>>

\* The decision is written once the policy it approves is live.  The status is
\* checked again, and is still pending: only a holder of `transition' decides.
DecideBegin(t) ==
  /\ rpc[t] = "decide"
  /\ requests[aim[t]] = "pending"
  /\ pc[t] = IF verdict[t] = "approved" THEN "done" ELSE "idle"
  /\ BeginWrite(t, [requests EXCEPT ![aim[t]] = verdict[t]])
  /\ UNCHANGED <<policyVars, queueVars, transition, aim, verdict, historyVars, slips>>

\* Mutant: the decision is kept in memory only.
DecideDoneInMemory(t) ==
  /\ rpc[t] = "writing"
  /\ requests' = next[t]
  /\ IF verdict[t] = "approved" THEN Finish(t) ELSE UNCHANGED policyVars
  /\ CallReturn(t)
  /\ UNCHANGED <<disk, orphans, orphaned, historyVars, slips>>

DecideDone(t) ==
  /\ Persisted(t)
  /\ IF verdict[t] = "approved" THEN Finish(t) ELSE UNCHANGED policyVars
  /\ CallReturn(t)
  /\ UNCHANGED <<historyVars, slips>>

RejectFails(t) ==
  /\ verdict[t] = "rejected"
  /\ PersistFails(t)
  /\ Slip
  /\ CallReturn(t)
  /\ UNCHANGED <<policyVars, historyVars>>

\* Mutant: the file is removed and the policy stays.
ApproveFailsInForce(t) ==
  /\ verdict[t] = "approved"
  /\ PersistFails(t)
  /\ UpdateReturn(t)
  /\ files' = files \ {aim[t]}
  /\ CallReturn(t)
  /\ UNCHANGED <<policy, readers, writer, dpc, basis, grants, cache, unrevoked,
                 faults, edits, historyVars, slips>>

\* The approval cannot be written: the file is removed and the policy restored.
ApproveFails(t) ==
  /\ verdict[t] = "approved"
  /\ PersistFails(t)
  /\ Undo(t)
  /\ doubtful' = IF disk' # disk THEN doubtful \cup {aim[t]} ELSE doubtful
  /\ interrupted' = IF aim[t] \in files' THEN interrupted \cup {aim[t]}
                                         ELSE interrupted
  /\ reqLock' = NoTask
  /\ rpc' = [rpc EXCEPT ![t] = "undo"]
  /\ UNCHANGED <<transition, aim, verdict, next, acked, slips>>

Undone(t) ==
  /\ rpc[t] = "undo"
  /\ Revoke(t) \/ RevokeFails(t)
  /\ CallReturn(t)
  /\ UNCHANGED <<queueVars, historyVars, slips>>

\* The operator hangs up.  A write goes on without its handler.
CallerHangsUp(t) ==
  /\ rpc[t] \in {"transition", "decide", "writing", "undo"}
  /\ IF rpc[t] = "writing" THEN Orphan(t) ELSE UNCHANGED queueVars
  /\ \/ HangUp(t)
     \/ pc[t] = "idle" /\ UNCHANGED policyVars
  /\ Slip
  /\ interrupted' = IF pc[t] \in {"idle", "update"} THEN interrupted
                    ELSE interrupted \cup {aim[t]}
  /\ CallReturn(t)
  /\ UNCHANGED <<acked, doubtful>>

-----------------------------------------------------------------------------
(* The rest of the daemon.                                                 *)

\* A plain reload: POST /rules/reload.
Reload(t) ==
  /\ rpc[t] = "idle"
  /\ \/ StartUpdate(t) \/ Begin(t, NoFile)
     \/ Finish(t) \/ HangUp(t)
  /\ UNCHANGED <<queueVars, lockVars, callVars, historyVars, slips>>

\* The steps of an update that are the same for a reload and an approval.
UpdateGoesOn(t) ==
  /\ \/ Prepare(t) \/ PrepareFails(t) \/ Barrier(t)
     \/ Flush(t) \/ FlushFails(t) \/ Commit(t)
     \/ Restore(t)
  /\ UNCHANGED <<queueVars, lockVars, callVars, historyVars, slips>>

Dns(t) ==
  /\ DnsLease(t) \/ DnsStep(t)
  /\ UNCHANGED <<queueVars, lockVars, callVars, historyVars, slips>>

\* Grants and cached answers expire.  (Edits of the operator's own rule files
\* do not concern the queue: they are in PolicyReload.)
Environment ==
  /\ Expire
  /\ UNCHANGED <<queueVars, lockVars, callVars, historyVars, slips>>

\* A restart loads the queue from disk: load_rule_requests.
DaemonRestart ==
  /\ Restart
  /\ requests' = disk
  /\ transition' = NoTask /\ reqLock' = NoTask
  /\ rpc' = [t \in Callers |-> "idle"]
  /\ aim' = [t \in Callers |-> NoRequest]
  /\ verdict' = [t \in Callers |-> "none"]
  /\ next' = [t \in Callers |-> Empty]
  /\ orphans' = {}
  /\ interrupted' = interrupted \cup (files \cap {aim[t] : t \in Updaters})
  /\ UNCHANGED <<disk, orphaned, acked, doubtful, slips>>

RequestInit ==
  /\ Init /\ files \cap Requests = {}
  /\ requests = Empty /\ disk = Empty
  /\ transition = NoTask /\ reqLock = NoTask
  /\ rpc = [t \in Callers |-> "idle"]
  /\ aim = [t \in Callers |-> NoRequest]
  /\ verdict = [t \in Callers |-> "none"]
  /\ next = [t \in Callers |-> Empty]
  /\ orphans = {} /\ orphaned = 0 /\ slips = 0
  /\ acked = {} /\ doubtful = {} /\ interrupted = {}

RequestNext ==
  \/ \E t \in Agents : \/ \E r \in Requests : SubmitBegin(t, r)
                       \/ SubmitDone(t) \/ SubmitFails(t)
  \/ \E t \in Updaters :
       \/ \E r \in Requests, v \in {"approved", "rejected"} : DecideStart(t, r, v)
       \/ DecideCheck(t) \/ DecideConflict(t)
       \/ Stage(t) \/ StagingFails(t) \/ ReloadFailed(t)
       \/ DecideBegin(t) \/ DecideDone(t) \/ RejectFails(t) \/ ApproveFails(t)
       \/ Undone(t) \/ CallerHangsUp(t) \/ Reload(t) \/ UpdateGoesOn(t)
  \/ \E t \in Handlers : Dns(t)
  \/ \E m \in orphans : OrphanEnds(m)
  \/ Environment
  \/ DaemonRestart

RequestSpec == RequestInit /\ [][RequestNext]_requestVars

-----------------------------------------------------------------------------
(* Properties.                                                             *)

\* The queue, the calls and their locks are well formed.
RequestTypeOK ==
  /\ requests \in Maps /\ disk \in Maps /\ orphans \subseteq Maps
  /\ transition \in Updaters \cup {NoTask}
  /\ reqLock \in Callers \cup {NoTask}
  /\ rpc \in [Callers -> {"idle", "transition", "decide", "writing", "undo"}]
  /\ aim \in [Callers -> Requests \cup {NoRequest}]
  /\ verdict \in [Callers -> {"none", "approved", "rejected"}]
  /\ next \in [Callers -> Maps]
  /\ orphaned \in 0 .. MaxOrphans /\ slips \in 0 .. MaxSlips
  /\ acked \subseteq Requests /\ doubtful \subseteq Requests
  /\ interrupted \subseteq Requests

\* While no update is in progress, a request that is reported as approved has
\* its rule file in place and in force, whatever crashed, failed or was dropped
\* before.  The exception is an approval that was reported as failed although
\* it had reached the disk.
ApprovedInForce ==
  updateLock = NoTask => \A r \in Requests :
    requests[r] = "approved" => r \in (policy \cap files) \cup doubtful

\* While no update is in progress, the rule of a rejected request is neither in
\* force nor staged, unless an approval of it was cut short by a crash or a
\* hang-up, or could not be cleaned up.  (As long as no write outlived its call:
\* such a write can turn an approved request into a pending one at a restart.)
RejectedNotInForce ==
  (updateLock = NoTask /\ orphaned = 0) => \A r \in Requests :
    (requests[r] = "rejected" /\ r \in policy \cup files) => r \in interrupted

\* agent_api/rule_requests.rs: "Durable rule-request queue".  A request that
\* was acknowledged is in the state file until it is pruned.  (As long as no write
\* outlived its call: such a write ends after a later one and replaces it.)
AcknowledgedDurable == orphaned = 0 => \A r \in acked : disk[r] # "none"

\* A decision is final: neither a second operator nor a restart changes or
\* forgets it; it is only pruned.  (As long as no write outlived its call.)
DecisionsFinal ==
  [][orphaned = 0 =>
       \A r \in Decided : \/ requests'[r] = requests[r]
                          \/ requests'[r] = "none" /\ Pruned = Decided]_requestVars

\* Approvals, rejections and reloads implement the policy updates of
\* PolicyReload: what holds there of grants and of the live policy holds here.
ImplementsPolicyReload == Spec
=============================================================================
