---------------------------- MODULE DynamicRules ----------------------------
(***************************************************************************)
(* The dynamic rule manager of outcalld (outcalld/src/dynamic/).           *)
(*                                                                         *)
(* The manager keeps one record per dynamic allow rule it has inserted in  *)
(* the kernel's `inet outcall forward' chain.  Every operation runs as a   *)
(* task of the async runtime; `lock' is the Mutex around DynState, held    *)
(* across the nft commands of an operation.  One action is what a task     *)
(* does between two awaits, so an nft command or an ownership lookup is a  *)
(* step of its own.                                                        *)
(*                                                                         *)
(* What Docker answers to an ownership lookup is a parameter of the        *)
(* actions that use it: this module accepts every answer, and a module     *)
(* that composes it with the identity cache restricts them.                *)
(***************************************************************************)
EXTENDS Integers, FiniteSets

CONSTANTS
  Containers,      \* container names
  SrcIps,          \* source addresses
  Flows,           \* <<destination, protocol, port>> of a rule
  Requests,        \* the insert requests that can be made, see Request
  Inserters,       \* tasks running insert_rule or insert_managed_rule
  Flushers,        \* API tasks running flush_all
  EventTask,       \* the Docker event watcher, dynamic/events.rs
  ExpiryTask,      \* the expiry sweeper, dynamic/expiry.rs
  NoTask,
  NoRequest,
  NoJob,
  NoContainer,     \* Docker reports no owner of an address
  LookupError,     \* the ownership lookup failed
  NoDeadline,      \* expires_at = None, and expires_in_secs = None
  MaxTtl,          \* MAX_DYNAMIC_RULE_TTL_SECS
  MaxRules,        \* MAX_DYNAMIC_RULES_PER_CONTAINER
  MaxTime,         \* bound: the clock stops here
  MaxHandle,       \* bound: rules inserted between two rebuilds of the table
  MaxFaults,       \* bound: commands that fail or callers that hang up
  MaxRebuilds      \* bound: POST /bridge/up requests

VARIABLES
  rules,           \* DynState.rules: the tracked records
  kernel,          \* dynamic rules in the forward chain
  nextHandle,      \* the handle the kernel gives the next rule of the table
  lost,            \* handles of kernel rules whose insertion never returned
  lock,            \* the task that holds the state Mutex, or NoTask
  pc,              \* where each task is
  req,             \* the request of each inserter
  deadline,        \* expires_at, computed when the request arrives
  assigned,        \* initially_assigned
  handle,          \* the handle nft returned to each inserter
  job,             \* what a cleanup task is asked to do
  todo,            \* the records a cleanup task still has to delete
  asOf,            \* the `now' of the sweep in progress
  clock,
  faults,
  rebuilds

vars == <<rules, kernel, nextHandle, lost, lock, pc, req, deadline, assigned,
          handle, job, todo, asOf, clock, faults, rebuilds>>

kernelVars == <<kernel, nextHandle, lost>>
insertVars == <<req, deadline, assigned, handle>>
cleanVars  == <<job, todo, asOf>>

Cleaners == Flushers \cup {EventTask, ExpiryTask}
Tasks    == Inserters \cup Cleaners
Answers  == Containers \cup {NoContainer, LookupError}
Ttls     == Nat \cup {NoDeadline}

Request ==
  [container : Containers, src_ip : SrcIps, flow : Flows, ttl : Ttls,
   policy : {"operator", "managed"}]

Record ==
  [container : Containers, src_ip : SrcIps, flow : Flows,
   nft_handle : Nat, expires_at : Ttls]

KernelRule == [src_ip : SrcIps, flow : Flows, handle : Nat]

Jobs ==
  [kind : {"flush", "prune"}, container : {NoContainer}]
    \cup [kind : {"remove"}, container : Containers]

FlushJob     == [kind |-> "flush", container |-> NoContainer]
PruneJob     == [kind |-> "prune", container |-> NoContainer]
RemoveJob(c) == [kind |-> "remove", container |-> c]

ASSUME TaskAssumption ==
  /\ Inserters \cap Cleaners = {}
  /\ NoTask \notin Tasks
  /\ EventTask # ExpiryTask
  /\ Flushers \cap {EventTask, ExpiryTask} = {}

ASSUME DataAssumption ==
  /\ NoContainer \notin Containers
  /\ LookupError \notin Containers \cup {NoContainer}
  /\ NoDeadline \notin Nat
  /\ Requests \subseteq Request
  /\ NoRequest \notin Request
  /\ NoJob \notin Jobs

ASSUME BoundAssumption ==
  /\ {MaxTtl, MaxRules, MaxTime, MaxHandle} \subseteq Nat
  /\ {MaxFaults, MaxRebuilds} \subseteq Nat
  /\ MaxRules > 0

-----------------------------------------------------------------------------
(* Helpers of the manager.                                                 *)

ValidTtl(ttl) == ttl = NoDeadline \/ ttl \in 1 .. MaxTtl

expiration_deadline(ttl, now) ==
  IF ttl = NoDeadline THEN NoDeadline ELSE now + ttl

Expired(r, now) == r.expires_at # NoDeadline /\ r.expires_at <= now

renew_expiration(current, requested, policy) ==
  IF policy = "operator" \/ (current # NoDeadline /\ requested # NoDeadline)
  THEN requested
  ELSE current

\* validate_source_owner: which answers let the request go on.
OwnerAccepted(answer, r) ==
  \/ answer = r.container
  \/ answer = NoContainer /\ r.policy = "operator"

\* Mutant: the second lookup only has to succeed.
StillOwnedUnchecked(answer, r, wasAssigned) == answer # LookupError

\* Both ownership checks of the second lookup.
StillOwned(answer, r, wasAssigned) ==
  OwnerAccepted(answer, r) /\ (wasAssigned => answer # NoContainer)

SameRule(r, q) ==
  r.container = q.container /\ r.src_ip = q.src_ip /\ r.flow = q.flow

RulesOf(c) == {r \in rules : r.container = c}

\* remove_tracked_handle: every record of the container with that handle.
Untrack(tracked, c, h) ==
  {r \in tracked : ~(r.container = c /\ r.nft_handle = h)}

MadeRecord(t, h) ==
  [container |-> req[t].container, src_ip |-> req[t].src_ip,
   flow |-> req[t].flow, nft_handle |-> h, expires_at |-> deadline[t]]

MadeKernelRule(t, h) ==
  [src_ip |-> req[t].src_ip, flow |-> req[t].flow, handle |-> h]

Goto(t, label) == pc' = [pc EXCEPT ![t] = label]

\* A task returns: its locals die and the lock guard it may hold is dropped.
Release(t) ==
  /\ Goto(t, "idle")
  /\ lock' = IF lock = t THEN NoTask ELSE lock

InsertReturn(t) ==
  /\ Release(t)
  /\ req' = [req EXCEPT ![t] = NoRequest]
  /\ deadline' = [deadline EXCEPT ![t] = NoDeadline]
  /\ assigned' = [assigned EXCEPT ![t] = FALSE]
  /\ handle' = [handle EXCEPT ![t] = 0]
  /\ UNCHANGED cleanVars

CleanReturn(t) ==
  /\ Release(t)
  /\ job' = [job EXCEPT ![t] = NoJob]
  /\ todo' = [todo EXCEPT ![t] = {}]
  /\ asOf' = IF t = ExpiryTask THEN 0 ELSE asOf
  /\ UNCHANGED insertVars

Fault == faults < MaxFaults /\ faults' = faults + 1

-----------------------------------------------------------------------------
(* The nft commands, as the manager uses them.  A rule's handle is unique  *)
(* in its table, and apply_base replaces the table, so the numbering       *)
(* starts again.                                                           *)

NftAdd(t) ==
  /\ nextHandle <= MaxHandle
  /\ kernel' = kernel \cup {MadeKernelRule(t, nextHandle)}
  /\ nextHandle' = nextHandle + 1

NftDelete(h) ==
  /\ kernel' = {k \in kernel : k.handle # h}
  /\ lost' = lost \ {h}
  /\ UNCHANGED nextHandle

NftReplaceTable ==
  /\ kernel' = {}
  /\ lost' = {}
  /\ nextHandle' = 1

InKernel(h) == \E k \in kernel : k.handle = h

-----------------------------------------------------------------------------
(* Inserting a rule: insert_rule_with_source_policy.                       *)

\* The request passes validation and its deadline is computed; the task then
\* awaits the first ownership lookup.  An invalid request changes nothing.
StartInsert(t, r) ==
  /\ pc[t] = "idle"
  /\ ValidTtl(r.ttl)
  /\ req' = [req EXCEPT ![t] = r]
  /\ deadline' = [deadline EXCEPT ![t] = expiration_deadline(r.ttl, clock)]
  /\ Goto(t, "lookup")
  /\ UNCHANGED <<rules, kernelVars, lock, assigned, handle, cleanVars, clock,
                 faults, rebuilds>>

\* The first ownership lookup answers; an accepted owner lets the task wait
\* for the state lock.
OwnerLookup(t, answer) ==
  /\ pc[t] = "lookup"
  /\ OwnerAccepted(answer, req[t])
  /\ assigned' = [assigned EXCEPT ![t] = answer # NoContainer]
  /\ Goto(t, "waitlock")
  /\ UNCHANGED <<rules, kernelVars, lock, req, deadline, handle, cleanVars,
                 clock, faults, rebuilds>>

\* The lookup fails, names another owner, the destination does not resolve, the
\* caller hangs up, or the wall clock cannot be read.
InsertRefused(t) ==
  /\ pc[t] \in {"lookup", "waitlock"}
  /\ InsertReturn(t)
  /\ UNCHANGED <<rules, kernelVars, clock, faults, rebuilds>>

\* Under the lock: an equal rule exists, its deadline is renewed and its
\* handle returned.
RenewDuplicate(t) ==
  /\ pc[t] = "waitlock"
  /\ lock = NoTask
  /\ \E r \in rules :
       /\ SameRule(r, req[t])
       /\ rules' = (rules \ {r}) \cup
            {[r EXCEPT !.expires_at =
                 renew_expiration(r.expires_at, deadline[t], req[t].policy)]}
  /\ InsertReturn(t)
  /\ UNCHANGED <<kernelVars, clock, faults, rebuilds>>

\* Under the lock: no equal rule, and the container is at its cap.
RejectAtCap(t) ==
  /\ pc[t] = "waitlock"
  /\ lock = NoTask
  /\ \A r \in rules : ~SameRule(r, req[t])
  /\ Cardinality(RulesOf(req[t].container)) >= MaxRules
  /\ InsertReturn(t)
  /\ UNCHANGED <<rules, kernelVars, clock, faults, rebuilds>>

\* Mutant: the guard is dropped before the nft command is awaited.
BeginNftInsertUnlocked(t) ==
  /\ pc[t] = "waitlock"
  /\ lock = NoTask
  /\ \A r \in rules : ~SameRule(r, req[t])
  /\ Cardinality(RulesOf(req[t].container)) < MaxRules
  /\ Goto(t, "nft")
  /\ UNCHANGED <<rules, kernelVars, lock, insertVars, cleanVars, clock, faults,
                 rebuilds>>

\* Under the lock: the duplicate and cap checks pass and the nft command is
\* awaited with the lock held.
BeginNftInsert(t) ==
  /\ pc[t] = "waitlock"
  /\ lock = NoTask
  /\ \A r \in rules : ~SameRule(r, req[t])
  /\ Cardinality(RulesOf(req[t].container)) < MaxRules
  /\ lock' = t
  /\ Goto(t, "nft")
  /\ UNCHANGED <<rules, kernelVars, insertVars, cleanVars, clock, faults,
                 rebuilds>>

\* The command succeeds: the rule is in the kernel and is recorded before the
\* second ownership lookup is awaited.
NftInsert(t) ==
  /\ pc[t] = "nft"
  /\ NftAdd(t)
  /\ rules' = rules \cup {MadeRecord(t, nextHandle)}
  /\ handle' = [handle EXCEPT ![t] = nextHandle]
  /\ Goto(t, "recheck")
  /\ UNCHANGED <<lost, lock, req, deadline, assigned, cleanVars, clock, faults,
                 rebuilds>>

\* The command is refused (address families differ, no such table): no effect.
NftInsertRefused(t) ==
  /\ pc[t] = "nft"
  /\ InsertReturn(t)
  /\ UNCHANGED <<rules, kernelVars, clock, faults, rebuilds>>

\* The command takes effect but its answer is lost: it times out, prints no
\* handle, or the caller hangs up while it runs.
NftInsertLost(t) ==
  /\ pc[t] = "nft"
  /\ Fault
  /\ NftAdd(t)
  /\ lost' = lost \cup {nextHandle}
  /\ InsertReturn(t)
  /\ UNCHANGED <<rules, clock, rebuilds>>

\* The second lookup confirms the owner and the insertion succeeds.
RecheckOk(t, answer) ==
  /\ pc[t] = "recheck"
  /\ StillOwned(answer, req[t], assigned[t])
  /\ InsertReturn(t)
  /\ UNCHANGED <<rules, kernelVars, clock, faults, rebuilds>>

\* The second lookup fails or the owner changed: the rule is rolled back.
RecheckFails(t, answer) ==
  /\ pc[t] = "recheck"
  /\ ~StillOwned(answer, req[t], assigned[t])
  /\ Goto(t, "rollback")
  /\ UNCHANGED <<rules, kernelVars, lock, insertVars, cleanVars, clock, faults,
                 rebuilds>>

\* rollback_inserted_rule: the delete succeeds.
RollbackDelete(t) ==
  /\ pc[t] = "rollback"
  /\ InKernel(handle[t])
  /\ NftDelete(handle[t])
  /\ rules' = Untrack(rules, req[t].container, handle[t])
  /\ InsertReturn(t)
  /\ UNCHANGED <<clock, faults, rebuilds>>

\* The delete fails because the rule is gone; the base policy is restored.
RollbackMissing(t) ==
  /\ pc[t] = "rollback"
  /\ ~InKernel(handle[t])
  /\ Goto(t, "reset")
  /\ UNCHANGED <<rules, kernelVars, lock, insertVars, cleanVars, clock, faults,
                 rebuilds>>

\* The delete reports an error, whether or not it took effect.
RollbackFails(t) ==
  /\ pc[t] = "rollback"
  /\ Fault
  /\ NftDelete(handle[t]) \/ UNCHANGED kernelVars
  /\ Goto(t, "reset")
  /\ UNCHANGED <<rules, lock, insertVars, cleanVars, clock, rebuilds>>

\* The caller hangs up after the rule is recorded, while the second lookup or
\* the rollback runs: the task is dropped where it stands.
InsertHangUp(t) ==
  /\ pc[t] \in {"recheck", "rollback"}
  /\ req[t].policy = "operator"
  /\ Fault
  /\ \/ UNCHANGED kernelVars
     \/ pc[t] = "rollback" /\ NftDelete(handle[t])
  /\ InsertReturn(t)
  /\ UNCHANGED <<rules, clock, rebuilds>>

-----------------------------------------------------------------------------
(* Removing rules: remove_container_rules, prune_expired and flush_all.    *)

\* A cleanup is requested.  The sweep reads the clock before it waits for the
\* lock.
StartClean(t, j) ==
  /\ pc[t] = "idle"
  /\ job' = [job EXCEPT ![t] = j]
  /\ asOf' = IF j = PruneJob THEN clock ELSE asOf
  /\ Goto(t, "waitlock")
  /\ UNCHANGED <<rules, kernelVars, lock, insertVars, todo, clock, faults,
                 rebuilds>>

\* Mutant: the sweep takes every record that has a deadline.
DoomedWithDeadline(j) ==
  {r \in rules : CASE j.kind = "remove" -> r.container = j.container
                   [] j.kind = "prune"  -> r.expires_at # NoDeadline
                   [] j.kind = "flush"  -> TRUE}

\* Mutant: a flush spares the rules without a deadline.
DoomedSparesPermanent(j) ==
  {r \in rules : CASE j.kind = "remove" -> r.container = j.container
                   [] j.kind = "prune"  -> Expired(r, asOf)
                   [] j.kind = "flush"  -> r.expires_at # NoDeadline}

\* The records the cleanup has to delete.
Doomed(j) ==
  {r \in rules : CASE j.kind = "remove" -> r.container = j.container
                   [] j.kind = "prune"  -> Expired(r, asOf)
                   [] j.kind = "flush"  -> TRUE}

\* Under the lock: there is nothing to delete.
NothingToClean(t) ==
  /\ pc[t] = "waitlock"
  /\ lock = NoTask
  /\ Doomed(job[t]) = {}
  /\ CleanReturn(t)
  /\ UNCHANGED <<rules, kernelVars, clock, faults, rebuilds>>

\* Under the lock: the handles to delete are collected.
BeginClean(t) ==
  /\ pc[t] = "waitlock"
  /\ lock = NoTask
  /\ Doomed(job[t]) # {}
  /\ todo' = [todo EXCEPT ![t] = Doomed(job[t])]
  /\ lock' = t
  /\ Goto(t, "delete")
  /\ UNCHANGED <<rules, kernelVars, insertVars, job, asOf, clock, faults,
                 rebuilds>>

\* The tracked records once record r, and with `last' every other doomed
\* record, is deleted: the sweep forgets each rule as it goes, the two other
\* operations forget theirs at the end.
TrackedAfter(j, r, last) ==
  CASE j.kind = "prune" -> Untrack(rules, r.container, r.nft_handle)
    [] j.kind = "remove" /\ last -> rules \ RulesOf(j.container)
    [] j.kind = "flush" /\ last -> {}
    [] OTHER -> rules

\* One delete succeeds, and others remain.
DeleteOne(t, r) ==
  /\ pc[t] = "delete"
  /\ r \in todo[t] /\ todo[t] # {r}
  /\ InKernel(r.nft_handle)
  /\ NftDelete(r.nft_handle)
  /\ todo' = [todo EXCEPT ![t] = @ \ {r}]
  /\ rules' = TrackedAfter(job[t], r, FALSE)
  /\ UNCHANGED <<lock, pc, insertVars, job, asOf, clock, faults, rebuilds>>

\* The last delete succeeds and the operation returns.
DeleteLast(t, r) ==
  /\ pc[t] = "delete"
  /\ todo[t] = {r}
  /\ InKernel(r.nft_handle)
  /\ NftDelete(r.nft_handle)
  /\ rules' = TrackedAfter(job[t], r, TRUE)
  /\ CleanReturn(t)
  /\ UNCHANGED <<clock, faults, rebuilds>>

\* A delete fails because the kernel has no such rule.
DeleteMissing(t, r) ==
  /\ pc[t] = "delete"
  /\ r \in todo[t]
  /\ ~InKernel(r.nft_handle)
  /\ Goto(t, "reset")
  /\ UNCHANGED <<rules, kernelVars, lock, insertVars, cleanVars, clock, faults,
                 rebuilds>>

\* A delete reports an error, whether or not it took effect.
DeleteFails(t, r) ==
  /\ pc[t] = "delete"
  /\ r \in todo[t]
  /\ Fault
  /\ NftDelete(r.nft_handle) \/ UNCHANGED kernelVars
  /\ Goto(t, "reset")
  /\ UNCHANGED <<rules, lock, insertVars, cleanVars, clock, rebuilds>>

\* The API caller of a flush hangs up while it waits or between two deletes.
FlushHangUp(t) ==
  /\ pc[t] \in {"waitlock", "delete"}
  /\ Fault
  /\ \/ UNCHANGED kernelVars
     \/ \E r \in todo[t] : NftDelete(r.nft_handle)
  /\ CleanReturn(t)
  /\ UNCHANGED <<rules, clock, rebuilds>>

-----------------------------------------------------------------------------
(* The emergency reset after a failed delete: reset_to_base_policy.        *)

TaskReturn(t) ==
  \/ t \in Inserters /\ InsertReturn(t)
  \/ t \in Cleaners /\ CleanReturn(t)

\* The table is replaced and all tracking is cleared.
ResetOk(t) ==
  /\ pc[t] = "reset"
  /\ NftReplaceTable
  /\ rules' = {}
  /\ TaskReturn(t)
  /\ UNCHANGED <<clock, faults, rebuilds>>

\* Mutant: the tracking is cleared although the reset failed.
ResetFailsForgets(t) ==
  /\ pc[t] = "reset"
  /\ Fault
  /\ NftReplaceTable \/ UNCHANGED kernelVars
  /\ rules' = {}
  /\ TaskReturn(t)
  /\ UNCHANGED <<clock, rebuilds>>

\* Mutant: the task ends with the error of its failed reset.
ResetFailsEndsTask(t) ==
  /\ pc[t] = "reset"
  /\ Fault
  /\ NftReplaceTable \/ UNCHANGED kernelVars
  /\ lock' = NoTask
  /\ Goto(t, "ended")
  /\ UNCHANGED <<rules, insertVars, cleanVars, clock, rebuilds>>

\* The reset reports an error, whether or not it took effect, or its caller
\* hangs up: the records stay tracked.
ResetFails(t) ==
  /\ pc[t] = "reset"
  /\ Fault
  /\ NftReplaceTable \/ UNCHANGED kernelVars
  /\ TaskReturn(t)
  /\ UNCHANGED <<rules, clock, rebuilds>>

-----------------------------------------------------------------------------
(* The environment.                                                        *)

Tick ==
  /\ clock < MaxTime
  /\ clock' = clock + 1
  /\ UNCHANGED <<rules, kernelVars, lock, pc, insertVars, cleanVars, faults,
                 rebuilds>>

\* POST /bridge/up: BridgeManager::init applies the base policy, which
\* replaces the table.  The handler takes the bridge lock, not the manager's.
BridgeUp ==
  /\ rebuilds < MaxRebuilds
  /\ rebuilds' = rebuilds + 1
  /\ NftReplaceTable
  /\ UNCHANGED <<rules, lock, pc, insertVars, cleanVars, clock, faults>>

-----------------------------------------------------------------------------
Init ==
  /\ rules = {}
  /\ kernel = {}
  /\ nextHandle = 1
  /\ lost = {}
  /\ lock = NoTask
  /\ pc = [t \in Tasks |-> "idle"]
  /\ req = [t \in Inserters |-> NoRequest]
  /\ deadline = [t \in Inserters |-> NoDeadline]
  /\ assigned = [t \in Inserters |-> FALSE]
  /\ handle = [t \in Inserters |-> 0]
  /\ job = [t \in Cleaners |-> NoJob]
  /\ todo = [t \in Cleaners |-> {}]
  /\ asOf = 0
  /\ clock = 0
  /\ faults = 0
  /\ rebuilds = 0

\* The steps of an insertion that ask Docker nothing.
InsertStep(t) ==
  \/ InsertRefused(t)
  \/ RenewDuplicate(t) \/ RejectAtCap(t) \/ BeginNftInsert(t)
  \/ NftInsert(t) \/ NftInsertRefused(t) \/ NftInsertLost(t)
  \/ RollbackDelete(t) \/ RollbackMissing(t) \/ RollbackFails(t)
  \/ InsertHangUp(t)
  \/ ResetOk(t) \/ ResetFails(t)

CleanStep(t) ==
  \/ NothingToClean(t) \/ BeginClean(t)
  \/ \E r \in todo[t] : \/ DeleteOne(t, r) \/ DeleteLast(t, r)
                        \/ DeleteMissing(t, r) \/ DeleteFails(t, r)
  \/ ResetOk(t) \/ ResetFails(t)

Next ==
  \/ \E t \in Inserters :
       \/ \E r \in Requests : StartInsert(t, r)
       \/ \E a \in Answers : \/ OwnerLookup(t, a)
                             \/ RecheckOk(t, a) \/ RecheckFails(t, a)
       \/ InsertStep(t)
  \/ \E c \in Containers : StartClean(EventTask, RemoveJob(c))
  \/ StartClean(EventTask, FlushJob)
  \/ StartClean(ExpiryTask, PruneJob)
  \/ \E t \in Flushers : StartClean(t, FlushJob)
  \/ \E t \in Cleaners : CleanStep(t)
  \/ \E t \in Flushers : FlushHangUp(t)
  \/ Tick
  \/ BridgeUp

Spec == Init /\ [][Next]_vars

\* What a task does while it holds the lock.  Every await in there is bounded
\* by a timeout (SYSTEM_COMMAND_TIMEOUT, the Docker operation timeout).
HolderStep(t) ==
  /\ lock = t
  /\ \/ /\ t \in Inserters
        /\ \/ InsertStep(t)
           \/ \E a \in Answers : RecheckOk(t, a) \/ RecheckFails(t, a)
     \/ t \in Cleaners /\ CleanStep(t)

\* The sweeper ticks every second, lock holders make progress, and the Mutex
\* serves its waiters in the order they came.
Fairness ==
  /\ WF_vars(StartClean(ExpiryTask, PruneJob))
  /\ SF_vars(NothingToClean(ExpiryTask) \/ BeginClean(ExpiryTask))
  /\ \A t \in Tasks : WF_vars(HolderStep(t))

FairSpec == Spec /\ Fairness

-----------------------------------------------------------------------------
(* Properties.                                                             *)

Labels == {"idle", "lookup", "waitlock", "nft", "recheck", "rollback",
           "delete", "reset"}

\* The manager's state is well formed: records, handles, deadlines and the
\* tasks' locals stay within their types (deadlines never underflow).
TypeOK ==
  /\ rules \subseteq Record
  /\ kernel \subseteq KernelRule
  /\ nextHandle \in Nat \ {0}
  /\ lost \subseteq Nat
  /\ lock \in Tasks \cup {NoTask}
  /\ pc \in [Tasks -> Labels]
  /\ req \in [Inserters -> Requests \cup {NoRequest}]
  /\ deadline \in [Inserters -> Ttls]
  /\ assigned \in [Inserters -> BOOLEAN]
  /\ handle \in [Inserters -> Nat]
  /\ job \in [Cleaners -> Jobs \cup {NoJob}]
  /\ todo \in [Cleaners -> SUBSET Record]
  /\ {asOf, clock, faults, rebuilds} \subseteq Nat

Backs(r, k) ==
  r.nft_handle = k.handle /\ r.src_ip = k.src_ip /\ r.flow = k.flow

\* Every dynamic allow rule in the kernel is a tracked record with its source,
\* destination and handle, so that some cleanup can still remove it: no order
\* of failed deletes, failed resets, hang-ups and table rebuilds makes the
\* manager forget a rule that is in force.  The exception is a rule whose
\* insertion never returned to the manager.
KernelRulesTracked ==
  \A k \in kernel : k.handle \in lost \/ \E r \in rules : Backs(r, k)

\* Concurrent insertions of one rule leave one record: the duplicate check and
\* the push happen under one hold of the lock, although the lookups before and
\* the nft command between them are awaited.
OneRecordPerRule ==
  \A r, q \in rules : SameRule(r, q) => r = q

\* A burst of concurrent insertions never takes a container past
\* MAX_DYNAMIC_RULES_PER_CONTAINER.
CapHolds == \A c \in Containers : Cardinality(RulesOf(c)) <= MaxRules

\* A flush that returns success has revoked every tracked grant: nothing but
\* rules of lost insertions is left in the kernel.  Policy reload relies on
\* it before it commits the new rules.
FlushRevokes ==
  [][\A t \in Cleaners :
       (/\ job[t] = FlushJob /\ pc[t] # "idle" /\ pc'[t] = "idle"
        /\ faults' = faults)
         => rules' = {} /\ \A k \in kernel' : k.handle \in lost']_vars

\* The sweep removes a rule before its deadline only by the emergency reset:
\* its clock reading is older than the lock it waits for, and a renewal that
\* happens in between is respected.  (While every command works and the table
\* is not rebuilt behind the manager's back.)
SweepSparesLiveRules ==
  [][(pc[ExpiryTask] = "delete" /\ faults = 0 /\ rebuilds = 0)
       => \A r \in rules \ rules' : Expired(r, clock)]_vars

\* GET /rules/dynamic lists the tracked records as the active rules.  While no
\* command has failed and no operation is in progress, each of them is in
\* force in the kernel, whatever insertions, rollbacks, sweeps and cleanups
\* interleaved: none of them leaves a record without its rule.  The exception is a
\* POST /bridge/up, which replaces the table and keeps the records.
ListedUntilRebuild ==
  (faults = 0 /\ rebuilds = 0 /\ lock = NoTask)
    => \A r \in rules : \E k \in kernel : Backs(r, k)

\* A tracked rule whose deadline passes is eventually renewed or gone, even if
\* some sweeps fail: a failed sweep keeps its records for the next one.
ExpiredRulesLeave ==
  \A q \in Requests :
    (\E r \in rules : SameRule(r, q) /\ Expired(r, clock))
      ~> (\A r \in rules : SameRule(r, q) => ~Expired(r, clock))

-----------------------------------------------------------------------------
(* The strengthening that makes the safety properties inductive.           *)

Holding == {"nft", "recheck", "rollback", "delete", "reset"}

\* A task is between its lock acquisition and its return exactly while it
\* holds the lock.
LockHeld == \A t \in Tasks : pc[t] \in Holding <=> lock = t

\* A running task knows what it was asked to do.
TasksReady ==
  /\ \A t \in Inserters : pc[t] # "idle" => req[t] \in Requests
  /\ \A t \in Cleaners : pc[t] # "idle" => job[t] \in Jobs
  /\ \A t \in Inserters : pc[t] # "delete"
  /\ \A t \in Cleaners : pc[t] \notin {"lookup", "nft", "recheck", "rollback"}

\* The kernel hands out each handle of a table once.
HandlesFresh ==
  /\ \A k \in kernel : k.handle < nextHandle
  /\ \A k, m \in kernel : k.handle = m.handle => k = m
  /\ \A h \in lost : h < nextHandle

\* What an insertion checked under the lock is still so when the rule is made.
ChecksHold ==
  \A t \in Inserters : pc[t] = "nft" =>
    /\ \A r \in rules : ~SameRule(r, req[t])
    /\ Cardinality(RulesOf(req[t].container)) < MaxRules

\* A record a flush or a container's cleanup will forget is still to be
\* deleted, or its handle is already out of the kernel.
DoomedCovered ==
  \A t \in Cleaners : pc[t] = "delete" =>
    \A r \in rules :
      (job[t] = FlushJob \/ job[t] = RemoveJob(r.container))
        => r \in todo[t] \/ ~InKernel(r.nft_handle)

IInv ==
  /\ TypeOK
  /\ IsFiniteSet(rules)
  /\ LockHeld
  /\ TasksReady
  /\ HandlesFresh
  /\ ChecksHold
  /\ DoomedCovered
  /\ KernelRulesTracked
  /\ OneRecordPerRule
  /\ CapHolds
=============================================================================
