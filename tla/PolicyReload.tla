---------------------------- MODULE PolicyReload ----------------------------
(***************************************************************************)
(* Replacing the live policy of outcalld while DNS requests derive grants  *)
(* from it (outcalld/src/api/policy_reload.rs, rules/engine.rs and         *)
(* dns/handler.rs).                                                        *)
(*                                                                         *)
(* A policy is the set of rule files it was loaded from.  What a request   *)
(* leaves behind, a dynamic rule in the kernel or an entry of the DNS      *)
(* cache, is identified by the policy it was derived from.  An update is   *)
(* a plain reload, or a reload of a newly staged file that its caller may  *)
(* undo: the approval of a rule request, see RuleRequests.                 *)
(***************************************************************************)
EXTENDS Integers, FiniteSets

CONSTANTS
  Files,         \* rule files
  Updaters,      \* API tasks that reload the policy
  Handlers,      \* DNS request handlers
  NoTask,
  NoFile,
  MaxFaults,     \* bound: failures, hang-ups, undone updates and restarts
  MaxEdits       \* bound: changes to the rules directory by the operator

VARIABLES
  files,         \* the rules directory
  policy,        \* RuleEngine.rule_set
  updateLock,    \* AppState.policy_update
  pc,            \* where each update is
  staged,        \* the file it has added
  saved,         \* the policy when it began
  prepared,      \* the policy it has loaded
  readers,       \* policy_barrier: holders of the read lease
  writer,        \* policy_barrier: holder of the write lease
  dpc,           \* where each DNS request is
  basis,         \* the policy it was evaluated under
  grants,        \* policies that tracked dynamic rules in the kernel derive from
  cache,         \* policies under which the cached answers were stored
  unrevoked,     \* history: a restored policy found its grants not revoked
  faults,
  edits

Policies == SUBSET Files

updateVars  == <<updateLock, pc, staged, saved, prepared>>
barrierVars == <<readers, writer>>
dnsVars     == <<dpc, basis>>
derivedVars == <<grants, cache, unrevoked>>

vars == <<files, policy, updateVars, barrierVars, dnsVars, derivedVars, faults,
          edits>>

ASSUME PolicyAssumption ==
  /\ NoTask \notin Updaters
  /\ NoFile \notin Files
  /\ {MaxFaults, MaxEdits} \subseteq Nat

Fault == faults < MaxFaults /\ faults' = faults + 1

Goto(t, label) == pc' = [pc EXCEPT ![t] = label]

-----------------------------------------------------------------------------
(* The barrier: a tokio RwLock, which serves its waiters in order.         *)

BarrierWaiters == {t \in Updaters : pc[t] \in {"barrier", "restore"}}

Release(t) == writer' = IF writer = t THEN NoTask ELSE writer

\* A task returns, or is dropped: its locals and its guards go.
UpdateReturn(t) ==
  /\ Goto(t, "idle")
  /\ staged' = [staged EXCEPT ![t] = NoFile]
  /\ saved' = [saved EXCEPT ![t] = {}]
  /\ prepared' = [prepared EXCEPT ![t] = {}]
  /\ updateLock' = IF updateLock = t THEN NoTask ELSE updateLock

-----------------------------------------------------------------------------
(* An update of the policy, under policy_update from Begin to its return.  *)

StartUpdate(t) ==
  /\ pc[t] = "idle"
  /\ Goto(t, "update")
  /\ UNCHANGED <<files, policy, updateLock, staged, saved, prepared, barrierVars,
                 dnsVars, derivedVars, faults, edits>>

\* The lock is taken and the live policy remembered; f is the file that the
\* update adds to the directory, if any.
Begin(t, f) ==
  /\ pc[t] = "update"
  /\ updateLock = NoTask
  /\ updateLock' = t
  /\ f \notin files
  /\ files' = IF f = NoFile THEN files ELSE files \cup {f}
  /\ staged' = [staged EXCEPT ![t] = f]
  /\ saved' = [saved EXCEPT ![t] = policy]
  /\ Goto(t, "prepare")
  /\ UNCHANGED <<policy, prepared, barrierVars, dnsVars, derivedVars, faults,
                 edits>>

\* write_new_atomic fails: the file exists, or it cannot be written, or it is
\* in place and the directory cannot be synced.
StageFails(t, f) ==
  /\ pc[t] = "update"
  /\ updateLock = NoTask
  /\ \/ f \in files /\ UNCHANGED <<files, faults>>
     \/ Fault /\ files' \in {files, files \cup {f}}
  /\ UpdateReturn(t)
  /\ UNCHANGED <<policy, barrierVars, dnsVars, derivedVars, edits>>

\* prepare_reload: the directory is read and compiled.
Prepare(t) ==
  /\ pc[t] = "prepare"
  /\ prepared' = [prepared EXCEPT ![t] = files]
  /\ Goto(t, "barrier")
  /\ UNCHANGED <<files, policy, updateLock, staged, saved, barrierVars, dnsVars,
                 derivedVars, faults, edits>>

PrepareFails(t) ==
  /\ pc[t] = "prepare"
  /\ Fault
  /\ Goto(t, "failed")
  /\ UNCHANGED <<files, policy, updateLock, staged, saved, prepared, barrierVars,
                 dnsVars, derivedVars, edits>>

\* policy_barrier.write(): every request that holds the lease has finished.
Barrier(t) ==
  /\ pc[t] = "barrier"
  /\ readers = {} /\ writer = NoTask
  /\ writer' = t
  /\ Goto(t, "flush")
  /\ UNCHANGED <<files, policy, updateLock, staged, saved, prepared, readers,
                 dnsVars, derivedVars, faults, edits>>

\* flush_all revokes the grants.
Flush(t) ==
  /\ pc[t] = "flush"
  /\ grants' = {}
  /\ Goto(t, "commit")
  /\ UNCHANGED <<files, policy, updateLock, staged, saved, prepared, barrierVars,
                 dnsVars, cache, unrevoked, faults, edits>>

\* Mutant: the update goes on although the grants are not revoked.
FlushFailsIgnored(t) ==
  /\ pc[t] = "flush"
  /\ Fault
  /\ grants' \in SUBSET grants
  /\ Goto(t, "commit")
  /\ UNCHANGED <<files, policy, updateLock, staged, saved, prepared, barrierVars,
                 dnsVars, cache, unrevoked, edits>>

\* flush_all fails, with any part of the grants revoked.
FlushFails(t) ==
  /\ pc[t] = "flush"
  /\ Fault
  /\ grants' \in SUBSET grants
  /\ Release(t)
  /\ Goto(t, "failed")
  /\ UNCHANGED <<files, policy, updateLock, staged, saved, prepared, readers,
                 dnsVars, cache, unrevoked, edits>>

\* flush_cache and commit_reload.
Commit(t) ==
  /\ pc[t] = "commit"
  /\ cache' = {}
  /\ unrevoked' = FALSE
  /\ policy' = prepared[t]
  /\ Release(t)
  /\ Goto(t, "done")
  /\ UNCHANGED <<files, updateLock, staged, saved, prepared, readers, dnsVars,
                 grants, faults, edits>>

\* The update returns: a success keeps its file, a failure removes it.
Finish(t) ==
  /\ \/ pc[t] = "done" /\ UNCHANGED <<files, faults>>
     \/ pc[t] = "failed" /\ files' = files \ {staged[t]} /\ UNCHANGED faults
     \/ pc[t] = "failed" /\ staged[t] # NoFile /\ Fault /\ UNCHANGED files
  /\ UpdateReturn(t)
  /\ UNCHANGED <<policy, barrierVars, dnsVars, derivedVars, edits>>

\* The caller cannot keep a file it staged: the file is removed, or that fails
\* too, and the remembered policy is restored.
Undo(t) ==
  /\ pc[t] = "done" /\ staged[t] # NoFile
  /\ Fault
  /\ files' \in {files \ {staged[t]}, files}
  /\ Goto(t, "restore")
  /\ UNCHANGED <<policy, updateLock, staged, saved, prepared, barrierVars,
                 dnsVars, derivedVars, edits>>

\* Mutant: the restore does not wait for the requests that have their answer.
RestoreGreedy(t) ==
  /\ pc[t] = "restore"
  /\ \A d \in readers : dpc[d] = "grant"
  /\ writer = NoTask
  /\ writer' = t
  /\ policy' = saved[t]
  /\ Goto(t, "revoke")
  /\ UNCHANGED <<files, updateLock, staged, saved, prepared, readers, dnsVars,
                 derivedVars, faults, edits>>

\* restore_components: the policy is restored before its grants are revoked.
Restore(t) ==
  /\ pc[t] = "restore"
  /\ readers = {} /\ writer = NoTask
  /\ writer' = t
  /\ policy' = saved[t]
  /\ Goto(t, "revoke")
  /\ UNCHANGED <<files, updateLock, staged, saved, prepared, readers, dnsVars,
                 derivedVars, faults, edits>>

Revoke(t) ==
  /\ pc[t] = "revoke"
  /\ grants' = {}
  /\ cache' = {}
  /\ unrevoked' = FALSE
  /\ Release(t)
  /\ UpdateReturn(t)
  /\ UNCHANGED <<files, policy, readers, dnsVars, faults, edits>>

RevokeFails(t) ==
  /\ pc[t] = "revoke"
  /\ Fault
  /\ grants' \in SUBSET grants
  /\ unrevoked' = TRUE
  /\ Release(t)
  /\ UpdateReturn(t)
  /\ UNCHANGED <<files, policy, readers, dnsVars, cache, edits>>

\* The API client hangs up and the update is dropped at an await.
HangUp(t) ==
  /\ pc[t] \in {"update", "prepare", "barrier", "flush", "commit", "done",
                "restore", "revoke"}
  /\ Fault
  /\ \/ pc[t] \in {"flush", "revoke"} /\ grants' \in SUBSET grants /\ UNCHANGED cache
     \/ pc[t] = "commit" /\ cache' \in {cache, {}} /\ UNCHANGED grants
     \/ pc[t] \notin {"flush", "revoke", "commit"} /\ UNCHANGED <<grants, cache>>
  /\ unrevoked' = (unrevoked \/ pc[t] = "revoke")
  /\ Release(t)
  /\ UpdateReturn(t)
  /\ UNCHANGED <<files, policy, readers, dnsVars, edits>>

-----------------------------------------------------------------------------
(* A DNS request: dns/handler.rs, handle_request, from the policy lease on. *)

\* Mutant: the lease does not wait for updates that wait for the barrier.
DnsLeaseGreedy(t) ==
  /\ dpc[t] = "idle"
  /\ writer = NoTask
  /\ readers' = readers \cup {t}
  /\ dpc' = [dpc EXCEPT ![t] = "leased"]
  /\ UNCHANGED <<files, policy, updateVars, writer, basis, derivedVars, faults,
                 edits>>

DnsLease(t) ==
  /\ dpc[t] = "idle"
  /\ writer = NoTask /\ BarrierWaiters = {}
  /\ readers' = readers \cup {t}
  /\ dpc' = [dpc EXCEPT ![t] = "leased"]
  /\ UNCHANGED <<files, policy, updateVars, writer, basis, derivedVars, faults,
                 edits>>

\* The live policy allows the name; it is resolved next.
DnsAllowed(t) ==
  /\ dpc[t] = "leased"
  /\ basis' = [basis EXCEPT ![t] = policy]
  /\ dpc' = [dpc EXCEPT ![t] = "resolve"]
  /\ UNCHANGED <<files, policy, updateVars, barrierVars, derivedVars, faults,
                 edits>>

\* A cached answer is used, or upstream answers and the answer is cached.
DnsAnswer(t) ==
  /\ dpc[t] = "resolve"
  /\ \/ cache # {} /\ UNCHANGED cache
     \/ cache' = cache \cup {basis[t]}
  /\ dpc' = [dpc EXCEPT ![t] = "grant"]
  /\ UNCHANGED <<files, policy, updateVars, barrierVars, basis, grants, unrevoked,
                 faults, edits>>

\* insert_direct_rules: one dynamic rule, of several, is in the kernel.
DnsGrant(t) ==
  /\ dpc[t] = "grant"
  /\ grants' = grants \cup {basis[t]}
  /\ UNCHANGED <<files, policy, updateVars, barrierVars, dnsVars, cache,
                 unrevoked, faults, edits>>

\* The request is answered: the policy blocks it, upstream fails, its answer is
\* restricted, or its grants are made; or the server drops it.
DnsDone(t) ==
  /\ dpc[t] # "idle"
  /\ dpc' = [dpc EXCEPT ![t] = "idle"]
  /\ basis' = [basis EXCEPT ![t] = {}]
  /\ readers' = readers \ {t}
  /\ UNCHANGED <<files, policy, updateVars, writer, derivedVars, faults, edits>>

-----------------------------------------------------------------------------
(* The environment.                                                        *)

\* A grant reaches its deadline, or an answer its time to live.
Expire ==
  /\ \/ \E g \in grants : grants' = grants \ {g} /\ UNCHANGED cache
     \/ \E c \in cache : cache' = cache \ {c} /\ UNCHANGED grants
  /\ UNCHANGED <<files, policy, updateVars, barrierVars, dnsVars, unrevoked,
                 faults, edits>>

\* The operator adds or removes a rule file.
EditFiles(f) ==
  /\ edits < MaxEdits
  /\ edits' = edits + 1
  /\ files' = IF f \in files THEN files \ {f} ELSE files \cup {f}
  /\ UNCHANGED <<policy, updateVars, barrierVars, dnsVars, derivedVars, faults>>

\* The daemon stops and starts: it loads the directory and applies the base
\* ruleset, without dynamic rules.
Restart ==
  /\ Fault
  /\ policy' = files
  /\ updateLock' = NoTask
  /\ pc' = [t \in Updaters |-> "idle"]
  /\ staged' = [t \in Updaters |-> NoFile]
  /\ saved' = [t \in Updaters |-> {}]
  /\ prepared' = [t \in Updaters |-> {}]
  /\ readers' = {} /\ writer' = NoTask
  /\ dpc' = [t \in Handlers |-> "idle"]
  /\ basis' = [t \in Handlers |-> {}]
  /\ grants' = {} /\ cache' = {} /\ unrevoked' = FALSE
  /\ UNCHANGED <<files, edits>>

-----------------------------------------------------------------------------
Init ==
  /\ files \in Policies
  /\ policy = files
  /\ updateLock = NoTask
  /\ pc = [t \in Updaters |-> "idle"]
  /\ staged = [t \in Updaters |-> NoFile]
  /\ saved = [t \in Updaters |-> {}]
  /\ prepared = [t \in Updaters |-> {}]
  /\ readers = {} /\ writer = NoTask
  /\ dpc = [t \in Handlers |-> "idle"]
  /\ basis = [t \in Handlers |-> {}]
  /\ grants = {} /\ cache = {} /\ unrevoked = FALSE
  /\ faults = 0 /\ edits = 0

\* The steps of an update that holds policy_update.
UpdateStep(t) ==
  \/ Prepare(t) \/ PrepareFails(t) \/ Barrier(t) \/ Flush(t) \/ FlushFails(t)
  \/ Commit(t) \/ Finish(t) \/ Undo(t)
  \/ Restore(t) \/ Revoke(t) \/ RevokeFails(t)

BeginUpdate(t) == \E f \in Files \cup {NoFile} : Begin(t, f)

DnsStep(t) == DnsAllowed(t) \/ DnsAnswer(t) \/ DnsGrant(t) \/ DnsDone(t)

Next ==
  \/ \E t \in Updaters : \/ StartUpdate(t) \/ BeginUpdate(t)
                         \/ \E f \in Files : StageFails(t, f)
                         \/ UpdateStep(t) \/ HangUp(t)
  \/ \E t \in Handlers : DnsLease(t) \/ DnsStep(t)
  \/ Expire
  \/ \E f \in Files : EditFiles(f)
  \/ Restart

Spec == Init /\ [][Next]_vars

\* Every await of an update or a DNS request is bounded by a timeout, and the
\* mutex and the barrier serve their waiters in order.
Fairness ==
  /\ \A t \in Updaters : WF_vars(UpdateStep(t)) /\ SF_vars(BeginUpdate(t))
  /\ \A t \in Handlers : WF_vars(DnsDone(t))

FairSpec == Spec /\ Fairness

-----------------------------------------------------------------------------
(* Properties.                                                             *)

\* The policy, the tasks and the leases are well formed.
TypeOK ==
  /\ files \in Policies /\ policy \in Policies
  /\ updateLock \in Updaters \cup {NoTask}
  /\ pc \in [Updaters -> {"idle", "update", "prepare", "barrier", "flush",
                          "commit", "done", "failed", "restore", "revoke"}]
  /\ staged \in [Updaters -> Files \cup {NoFile}]
  /\ saved \in [Updaters -> Policies]
  /\ prepared \in [Updaters -> Policies]
  /\ readers \subseteq Handlers
  /\ writer \in Updaters \cup {NoTask}
  /\ dpc \in [Handlers -> {"idle", "leased", "resolve", "grant"}]
  /\ basis \in [Handlers -> Policies]
  /\ grants \subseteq Policies /\ cache \subseteq Policies
  /\ unrevoked \in BOOLEAN
  /\ faults \in Nat /\ edits \in Nat

\* Unless an update is at work behind the barrier, every dynamic rule and every
\* cached answer derives from the live policy: no order of requests, failed or
\* dropped updates and restarts leaves a grant of a replaced policy, except
\* that the revocation after a restore failed or was cut short.
GrantsFollowPolicy ==
  writer = NoTask => unrevoked \/ (grants \subseteq {policy} /\ cache \subseteq {policy})

\* dns/handler.rs: "an old-policy request cannot recreate a grant after
\* revocation cleanup".  A dynamic rule is only ever made under the policy
\* that is live at that moment.
GrantsAreLive == [][grants' \subseteq grants \cup {policy}]_vars

\* "Previous rules remain active": an update that fails, at whatever point,
\* finds the policy that was live when it began; until it commits nobody else
\* has replaced it, so no update is lost or overwritten by an older one.
PreviousRulesRemain ==
  \A t \in Updaters :
    pc[t] \in {"prepare", "barrier", "flush", "commit", "failed"}
      => policy = saved[t]

\* An update that waits, for its turn or behind the requests that hold the
\* lease, gets through, however many requests keep arriving.
UpdatesReturn == \A t \in Updaters : pc[t] # "idle" ~> pc[t] = "idle"

-----------------------------------------------------------------------------
(* The strengthening that makes the safety properties inductive.           *)

Updating == {"prepare", "barrier", "flush", "commit", "done", "failed",
             "restore", "revoke"}
Behind   == {"flush", "commit", "revoke"}

\* policy_update and the barrier belong to the tasks whose labels say so, and
\* nobody holds a read lease while an update is behind the barrier.
LocksHeld ==
  /\ \A t \in Updaters : pc[t] \in Updating <=> updateLock = t
  /\ \A t \in Updaters : pc[t] \in Behind <=> writer = t
  /\ \A t \in Handlers : dpc[t] # "idle" <=> t \in readers
  /\ writer # NoTask => readers = {}

\* A request acts on the live policy: the lease keeps updates out.
BasisLive ==
  \A t \in Handlers : dpc[t] \in {"resolve", "grant"} => basis[t] = policy

\* A successful flush has left nothing, and nothing is added until the commit.
Flushed == \A t \in Updaters : pc[t] = "commit" => grants = {}

\* Up to a restored policy whose grants are still to be revoked, what is there
\* derives from the live policy, behind the barrier as well.
Derived ==
  \/ unrevoked
  \/ grants \subseteq {policy} /\ cache \subseteq {policy}
  \/ \E t \in Updaters : pc[t] = "revoke"

IInv ==
  /\ TypeOK
  /\ LocksHeld
  /\ BasisLive
  /\ Flushed
  /\ Derived
  /\ PreviousRulesRemain
=============================================================================
