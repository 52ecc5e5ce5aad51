------------------------- MODULE RuleRequestsProofs -------------------------
(***************************************************************************)
(* Proofs about rule requests, for any requests, files, tasks and bounds:  *)
(* they implement policy updates, and what the queue promises holds.  Then *)
(* about the policy updates themselves, whoever asks for them: what the    *)
(* barrier guarantees.  And about AgentShim, the other half of what an     *)
(* agent sees: whatever the daemon behind the socket does, and for any     *)
(* number of shims, a command is never left unwatched and success is never *)
(* reported for one that did not run.                                      *)
(***************************************************************************)
EXTENDS RuleRequests, AgentShim, TLAPS

\* A call is about a request, or about none.
AimOK == aim \in [Callers -> Requests \cup {NoRequest}]

\* Every step keeps it so: only a submission and a decision take a request,
\* and the call that returns, or is dropped, gives it up.
LEMMA AimStep == AimOK /\ [RequestNext]_requestVars => AimOK'
<1> SUFFICES ASSUME AimOK, [RequestNext]_requestVars PROVE AimOK'
  OBVIOUS
<1> USE DEF AimOK, Callers, callVars
<1>1. ASSUME NEW t \in Callers, CallReturn(t)
      PROVE  AimOK'
  BY Zenon, <1>1 DEF CallReturn
<1>2. ASSUME NEW t \in Agents, NEW r \in Requests, SubmitBegin(t, r)
      PROVE  AimOK'
  BY Zenon, <1>2 DEF SubmitBegin
<1>3. ASSUME NEW t \in Agents, SubmitDone(t) \/ SubmitFails(t)
      PROVE  AimOK'
  BY Zenon, <1>1, <1>3 DEF SubmitDone, SubmitFails
<1>4. ASSUME NEW t \in Updaters, NEW r \in Requests,
             NEW v \in {"approved", "rejected"}, DecideStart(t, r, v)
      PROVE  AimOK'
  BY Zenon, <1>4 DEF DecideStart
<1>5. ASSUME NEW t \in Updaters,
             \/ DecideCheck(t) \/ Stage(t) \/ DecideBegin(t) \/ ApproveFails(t)
             \/ Reload(t) \/ UpdateGoesOn(t)
      PROVE  AimOK'
  BY Zenon, <1>5 DEF DecideCheck, Stage, DecideBegin, ApproveFails, Reload,
              UpdateGoesOn
<1>6. ASSUME NEW t \in Updaters,
             \/ DecideConflict(t) \/ StagingFails(t) \/ ReloadFailed(t)
             \/ DecideDone(t) \/ RejectFails(t) \/ Undone(t) \/ CallerHangsUp(t)
      PROVE  AimOK'
  BY Zenon, <1>1, <1>6 DEF DecideConflict, StagingFails, ReloadFailed, DecideDone,
     RejectFails, Undone, CallerHangsUp
<1>7. ASSUME NEW t \in Handlers, Dns(t)
      PROVE  AimOK'
  BY Zenon, <1>7 DEF Dns
<1>8. ASSUME NEW m \in orphans, OrphanEnds(m)
      PROVE  AimOK'
  BY Zenon, <1>8 DEF OrphanEnds
<1>9. CASE Environment
  BY Zenon, <1>9 DEF Environment
<1>10. CASE DaemonRestart
  BY Zenon, <1>10 DEF DaemonRestart
<1>11. CASE UNCHANGED requestVars
  BY Zenon, <1>11 DEF requestVars
<1> QED
  BY Zenon, <1>2, <1>3, <1>4, <1>5, <1>6, <1>7, <1>8, <1>9, <1>10, <1>11 DEF RequestNext

\* The steps of the policy, but for the operator's edits.
PolicyMoves ==
  \/ \E t \in Updaters : \/ StartUpdate(t) \/ BeginUpdate(t)
                         \/ \E f \in Files : StageFails(t, f)
                         \/ UpdateStep(t) \/ HangUp(t)
  \/ \E t \in Handlers : DnsLease(t) \/ DnsStep(t)
  \/ Expire
  \/ Restart

\* Every step of a call, of the daemon or of its environment is a step of the
\* policy, or leaves the policy alone.
LEMMA PolicyMove == AimOK /\ [RequestNext]_requestVars => PolicyMoves \/ UNCHANGED vars
<1> SUFFICES ASSUME AimOK, [RequestNext]_requestVars PROVE PolicyMoves \/ UNCHANGED vars
  OBVIOUS
<1>0. policyVars' = policyVars => UNCHANGED vars
  BY Zenon DEF policyVars, vars, updateVars, barrierVars,
         dnsVars, derivedVars
<1>1. ASSUME NEW t \in Agents,
             \/ \E r \in Requests : SubmitBegin(t, r)
             \/ SubmitDone(t) \/ SubmitFails(t)
      PROVE  UNCHANGED vars
  BY Zenon, <1>0, <1>1 DEF SubmitBegin, SubmitDone, SubmitFails
<1>2. ASSUME NEW t \in Updaters,
             \/ \E r \in Requests, v \in {"approved", "rejected"} :
                  DecideStart(t, r, v)
             \/ DecideConflict(t) \/ DecideBegin(t) \/ RejectFails(t)
      PROVE  UNCHANGED vars
  BY Zenon, <1>0, <1>2 DEF DecideStart, DecideConflict, DecideBegin, RejectFails
<1>3. ASSUME NEW t \in Updaters, DecideCheck(t) \/ DecideDone(t)
      PROVE  PolicyMoves \/ UNCHANGED vars
  BY Zenon, <1>0, <1>3 DEF DecideCheck, DecideDone, PolicyMoves, UpdateStep
<1>4. ASSUME NEW t \in Updaters, Stage(t) \/ StagingFails(t)
      PROVE  PolicyMoves
  <2>1. aim[t] \in Files
    BY Zenon, <1>4, RequestAssumption DEF AimOK, Callers, Stage, StagingFails
  <2> QED
    BY Zenon, <1>4, <2>1 DEF Stage, StagingFails, PolicyMoves, BeginUpdate
<1>5. ASSUME NEW t \in Updaters,
             ReloadFailed(t) \/ ApproveFails(t) \/ Undone(t) \/ UpdateGoesOn(t)
      PROVE  PolicyMoves
  BY Zenon, <1>5 DEF ReloadFailed, ApproveFails, Undone, UpdateGoesOn, PolicyMoves,
     UpdateStep
<1>6. ASSUME NEW t \in Updaters, CallerHangsUp(t) \/ Reload(t)
      PROVE  PolicyMoves \/ UNCHANGED vars
  BY Zenon, <1>0, <1>6 DEF CallerHangsUp, Reload, PolicyMoves, UpdateStep,
     BeginUpdate
<1>7. ASSUME NEW t \in Handlers, Dns(t)
      PROVE  PolicyMoves
  BY Zenon, <1>7 DEF Dns, PolicyMoves
<1>8. ASSUME NEW m \in orphans, OrphanEnds(m)
      PROVE  UNCHANGED vars
  BY Zenon, <1>0, <1>8 DEF OrphanEnds
<1>9. ASSUME Environment \/ DaemonRestart
      PROVE  PolicyMoves
  BY Zenon, <1>9 DEF Environment, DaemonRestart, PolicyMoves
<1>10. CASE UNCHANGED requestVars
  BY Zenon, <1>0, <1>10 DEF requestVars
<1> QED
  BY Zenon, <1>1, <1>2, <1>3, <1>4, <1>5, <1>6, <1>7, <1>8, <1>9, <1>10 DEF RequestNext

\* Seen from the policy, then, the whole takes steps of PolicyReload.
LEMMA PolicyStep == AimOK /\ [RequestNext]_requestVars => [Next]_(vars)
BY Zenon, PolicyMove DEF PolicyMoves, Next

\* Approvals, rejections and reloads, with their failures, hang-ups and
\* restarts, implement the policy updates of PolicyReload: what is proved there
\* of grants and of the live policy holds of them.
THEOREM RequestsImplementPolicy == RequestSpec => ImplementsPolicyReload
<1>1. RequestInit => AimOK /\ Init
  BY Zenon DEF RequestInit, AimOK
<1> QED
  BY <1>1, AimStep, PolicyStep, PTL DEF RequestSpec, ImplementsPolicyReload,
                                        Spec

-----------------------------------------------------------------------------
(* The queue and the calls on it are well formed.                          *)

FilesOK == files \subseteq Files

\* Only the holder of the mutex writes, and a call that is on its way is about
\* a request; an operator's has a verdict.
Calls ==
  /\ \A t \in Callers : rpc[t] = "writing" => reqLock = t
  /\ \A t \in Callers : rpc[t] # "idle" => aim[t] \in Requests
  /\ \A t \in Updaters : rpc[t] # "idle" => verdict[t] # "none"

\* Updates put only rule files of Files into the rules directory.
LEMMA FilesStep == FilesOK /\ RequestTypeOK /\ [RequestNext]_requestVars => FilesOK'
<1> SUFFICES ASSUME FilesOK, RequestTypeOK, [RequestNext]_requestVars PROVE FilesOK'
  OBVIOUS
<1>1. [Next]_(vars)
  BY Zenon, PolicyStep DEF AimOK, RequestTypeOK
<1>2. CASE UNCHANGED vars
  BY Zenon, <1>2 DEF vars, FilesOK
<1>3. ASSUME NEW t \in Updaters,
             \/ StartUpdate(t) \/ BeginUpdate(t)
             \/ \E f \in Files : StageFails(t, f)
      PROVE  FilesOK'
  BY Zenon, <1>3 DEF FilesOK, StartUpdate, BeginUpdate, Begin,
              StageFails
<1>4. ASSUME NEW t \in Updaters, UpdateStep(t) \/ HangUp(t)
      PROVE  FilesOK'
  BY Zenon, <1>4 DEF FilesOK, UpdateStep, HangUp, Prepare,
     PrepareFails, Barrier, Flush, FlushFails,
     Commit, Finish, Undo, Restore, Revoke,
     RevokeFails
<1>5. ASSUME NEW t \in Handlers, DnsLease(t) \/ DnsStep(t)
      PROVE  FilesOK'
  BY Zenon, <1>5 DEF FilesOK, DnsLease, DnsStep, DnsAllowed,
     DnsAnswer, DnsGrant, DnsDone
<1>6. ASSUME Expire \/ (\E f \in Files : EditFiles(f)) \/ Restart
      PROVE  FilesOK'
  BY Zenon, <1>6 DEF FilesOK, Expire, EditFiles, Restart
<1> QED
  BY Zenon, <1>1, <1>2, <1>3, <1>4, <1>5, <1>6 DEF Next

\* What a call writes to is a map of the queue.
LEMMA WritesType ==
  ASSUME NEW t \in Callers, RequestTypeOK, NEW m \in Maps, BeginWrite(t, m)
  PROVE  /\ reqLock' \in Callers \cup {NoTask}
         /\ next' \in [Callers -> Maps]
         /\ rpc' \in [Callers -> {"idle", "transition", "decide", "writing", "undo"}]
BY Zenon DEF RequestTypeOK, BeginWrite

\* A call that returns leaves its own state and the locks well formed.
LEMMA ReturnType ==
  ASSUME NEW t \in Callers, RequestTypeOK, CallReturn(t)
  PROVE  /\ transition' \in Updaters \cup {NoTask}
         /\ reqLock' \in Callers \cup {NoTask}
         /\ rpc' \in [Callers -> {"idle", "transition", "decide", "writing", "undo"}]
         /\ aim' \in [Callers -> Requests \cup {NoRequest}]
         /\ verdict' \in [Callers -> {"none", "approved", "rejected"}]
         /\ next' \in [Callers -> Maps]
<1>1. Empty \in Maps
  BY Zenon DEF Empty, Maps, Statuses
<1> QED
  BY Zenon, <1>1 DEF RequestTypeOK, CallReturn

\* A write ends, well or badly, or goes on by itself: the maps stay maps.
LEMMA WriteType ==
  ASSUME NEW t \in Callers, RequestTypeOK, RequestAssumption,
         Persisted(t) \/ PersistFails(t) \/ Orphan(t)
  PROVE  /\ requests' \in Maps /\ disk' \in Maps /\ orphans' \subseteq Maps
         /\ orphaned' \in 0 .. MaxOrphans
<1>1. next[t] \in Maps
  BY Zenon DEF RequestTypeOK
<1>2. CASE Persisted(t) \/ PersistFails(t)
  BY Zenon, <1>1, <1>2 DEF RequestTypeOK, Persisted, PersistFails
<1>3. CASE Orphan(t)
  BY <1>1, <1>3 DEF RequestTypeOK, Orphan, RequestAssumption
<1> QED
  BY Zenon, <1>2, <1>3

\* Every step keeps the queue and the calls well formed.
LEMMA RequestTypeStep == RequestTypeOK /\ FilesOK /\ Calls /\ [RequestNext]_requestVars => RequestTypeOK'
<1> SUFFICES ASSUME RequestTypeOK, FilesOK, Calls, [RequestNext]_requestVars PROVE RequestTypeOK'
  OBVIOUS
<1> USE RequestAssumption
<1>1. ASSUME NEW t \in Agents, NEW r \in Requests, SubmitBegin(t, r)
      PROVE  RequestTypeOK'
  <2> DEFINE m == [q \in Requests |-> IF q = r THEN "pending"
                                      ELSE IF q \in Pruned THEN "none"
                                      ELSE requests[q]]
  <2>1. m \in Maps
    BY Zenon DEF RequestTypeOK, Maps, Statuses
  <2>2. BeginWrite(t, m) /\ t \in Callers
    BY Zenon, <1>1 DEF SubmitBegin, Callers
  <2> HIDE DEF m
  <2> QED
    BY Zenon, <1>1, <2>1, <2>2, WritesType DEF RequestTypeOK, SubmitBegin, queueVars,
       historyVars
<1>2. ASSUME NEW t \in Agents, SubmitDone(t) \/ SubmitFails(t)
      PROVE  RequestTypeOK'
  <2>1. t \in Callers /\ CallReturn(t) /\ aim[t] \in Requests
        /\ (Persisted(t) \/ PersistFails(t) \/ Orphan(t))
    BY Zenon, <1>2 DEF Callers, SubmitDone, SubmitFails, Calls, Persisted, PersistFails,
                Orphan
  <2>2. slips' \in 0 .. MaxSlips
    BY <1>2 DEF SubmitDone, SubmitFails, Slip, RequestTypeOK
  <2>3. acked' \subseteq Requests /\ UNCHANGED <<doubtful, interrupted>>
    BY Zenon, <1>2, <2>1 DEF SubmitDone, SubmitFails, RequestTypeOK
  <2> QED
    BY Zenon, <2>1, <2>2, <2>3, WriteType, ReturnType DEF RequestTypeOK
<1>3. ASSUME NEW t \in Updaters, NEW r \in Requests,
             NEW v \in {"approved", "rejected"}, DecideStart(t, r, v)
      PROVE  RequestTypeOK'
  BY Zenon, <1>3 DEF RequestTypeOK, DecideStart, Callers, queueVars, lockVars, historyVars
<1>4. ASSUME NEW t \in Updaters, DecideCheck(t)
      PROVE  RequestTypeOK'
  BY Zenon, <1>4 DEF RequestTypeOK, DecideCheck, Callers, queueVars, historyVars
<1>5. ASSUME NEW t \in Updaters, DecideBegin(t)
      PROVE  RequestTypeOK'
  <2> DEFINE m == [requests EXCEPT ![aim[t]] = verdict[t]]
  <2>1. m \in Maps
    BY Zenon, <1>5 DEF RequestTypeOK, Maps, Statuses, Callers
  <2>2. BeginWrite(t, m) /\ t \in Callers
    BY Zenon, <1>5 DEF DecideBegin, Callers
  <2> HIDE DEF m
  <2> QED
    BY Zenon, <1>5, <2>1, <2>2, WritesType DEF RequestTypeOK, DecideBegin, queueVars,
       historyVars
<1>6. ASSUME NEW t \in Updaters,
             DecideConflict(t) \/ StagingFails(t) \/ ReloadFailed(t) \/ Undone(t)
      PROVE  RequestTypeOK'
  <2>1. t \in Callers /\ CallReturn(t) /\ UNCHANGED <<queueVars, acked, doubtful, slips>>
    BY Zenon, <1>6 DEF Callers, DecideConflict, StagingFails, ReloadFailed, Undone,
       historyVars
  <2>2. interrupted' \subseteq Requests
    BY <1>6 DEF Callers, DecideConflict, StagingFails, ReloadFailed, Undone, historyVars,
                RequestTypeOK
  <2> QED
    BY Zenon, <2>1, <2>2, ReturnType DEF RequestTypeOK, queueVars
<1>7. ASSUME NEW t \in Updaters, DecideDone(t) \/ RejectFails(t)
      PROVE  RequestTypeOK'
  <2>1. t \in Callers /\ CallReturn(t) /\ (Persisted(t) \/ PersistFails(t))
    BY Zenon, <1>7 DEF Callers, DecideDone, RejectFails
  <2>2. slips' \in 0 .. MaxSlips /\ UNCHANGED historyVars
    BY <1>7 DEF DecideDone, RejectFails, Slip, RequestTypeOK
  <2> QED
    BY Zenon, <2>1, <2>2, WriteType, ReturnType DEF RequestTypeOK, historyVars
<1>8. ASSUME NEW t \in Updaters, ApproveFails(t)
      PROVE  RequestTypeOK'
  <2>1. t \in Callers /\ PersistFails(t) /\ aim[t] \in Requests
    BY Zenon, <1>8 DEF Callers, ApproveFails, Calls, PersistFails
  <2>2. doubtful' \subseteq Requests /\ interrupted' \subseteq Requests
    BY Zenon, <1>8, <2>1 DEF ApproveFails, RequestTypeOK
  <2>3. rpc' \in [Callers -> {"idle", "transition", "decide", "writing", "undo"}]
    BY Zenon, <1>8, <2>1 DEF ApproveFails, RequestTypeOK
  <2> QED
    BY Zenon, <1>8, <2>1, <2>2, <2>3, WriteType DEF ApproveFails, RequestTypeOK
<1>9. ASSUME NEW t \in Updaters, CallerHangsUp(t)
      PROVE  RequestTypeOK'
  <2>1. t \in Callers /\ CallReturn(t) /\ aim[t] \in Requests
    BY Zenon, <1>9 DEF Callers, CallerHangsUp, Calls
  <2>2. requests' \in Maps /\ disk' \in Maps /\ orphans' \subseteq Maps
        /\ orphaned' \in 0 .. MaxOrphans
    BY Zenon, <1>9, <2>1, WriteType DEF CallerHangsUp, RequestTypeOK, queueVars
  <2>3. slips' \in 0 .. MaxSlips
    BY <1>9 DEF CallerHangsUp, Slip, RequestTypeOK
  <2>4. interrupted' \subseteq Requests
    BY Zenon, <1>9, <2>1 DEF CallerHangsUp, RequestTypeOK
  <2> QED
    BY Zenon, <1>9, <2>1, <2>2, <2>3, <2>4, ReturnType DEF CallerHangsUp, RequestTypeOK
<1>10. ASSUME NEW m \in orphans, OrphanEnds(m)
      PROVE  RequestTypeOK'
  BY Zenon, <1>10 DEF RequestTypeOK, OrphanEnds, lockVars, callVars, historyVars
<1>11. CASE DaemonRestart
  <2>1. Empty \in Maps
    BY Zenon DEF Empty, Maps, Statuses
  <2>2. interrupted' \subseteq Requests
    BY ZenonT(30), <1>11 DEF DaemonRestart, FilesOK, RequestTypeOK, Callers, RequestAssumption
  <2> QED
    BY Zenon, <1>11, <2>1, <2>2 DEF DaemonRestart, RequestTypeOK
<1>12. ASSUME UNCHANGED <<queueVars, lockVars, callVars, historyVars, slips>>
      PROVE  RequestTypeOK'
  BY Zenon, <1>12 DEF RequestTypeOK, queueVars, lockVars, callVars, historyVars
<1>13. ASSUME NEW t \in Updaters, Stage(t) \/ Reload(t) \/ UpdateGoesOn(t)
      PROVE  RequestTypeOK'
  BY Zenon, <1>12, <1>13 DEF Stage, Reload, UpdateGoesOn
<1>14. ASSUME NEW t \in Handlers, Dns(t)
      PROVE  RequestTypeOK'
  BY Zenon, <1>12, <1>14 DEF Dns
<1>15. CASE Environment
  BY Zenon, <1>12, <1>15 DEF Environment
<1>16. CASE UNCHANGED requestVars
  BY Zenon, <1>12, <1>16 DEF requestVars
<1> QED
  BY Zenon, <1>1, <1>2, <1>3, <1>4, <1>5, <1>6, <1>7, <1>8, <1>9, <1>10, <1>11, <1>13,
     <1>14, <1>15, <1>16 DEF RequestNext

\* A call that returns or is dropped keeps to the mutex of the others.
LEMMA ReturnCalls ==
  ASSUME NEW t \in Callers, RequestTypeOK, Calls, CallReturn(t)
  PROVE  Calls'
<1>1. ASSUME NEW u \in Callers
      PROVE  /\ u = t => rpc'[u] = "idle"
             /\ u # t => rpc'[u] = rpc[u] /\ aim'[u] = aim[u] /\ verdict'[u] = verdict[u]
  BY Zenon DEF RequestTypeOK, CallReturn
<1>2. ASSUME NEW u \in Callers, rpc'[u] = "writing"
      PROVE  reqLock' = u
  BY Zenon, <1>1, <1>2 DEF Calls, CallReturn
<1> QED
  BY Zenon, <1>1, <1>2 DEF Calls, Callers

\* Every step keeps to the mutex, and no call loses what it is about.
LEMMA CallStep == RequestTypeOK /\ Calls /\ [RequestNext]_requestVars => Calls'
<1> SUFFICES ASSUME RequestTypeOK, Calls, [RequestNext]_requestVars PROVE Calls'
  OBVIOUS
<1> USE RequestAssumption
<1>1. ASSUME NEW t \in Agents, NEW r \in Requests, SubmitBegin(t, r)
      PROVE  Calls'
  BY Zenon, <1>1 DEF SubmitBegin, BeginWrite, Calls, RequestTypeOK, Callers, RequestAssumption
<1>2. ASSUME NEW t \in Agents, SubmitDone(t) \/ SubmitFails(t)
      PROVE  Calls'
  BY Zenon, <1>2, ReturnCalls DEF SubmitDone, SubmitFails, Callers
<1>3. ASSUME NEW t \in Updaters, NEW r \in Requests,
             NEW v \in {"approved", "rejected"}, DecideStart(t, r, v)
      PROVE  Calls'
  BY Zenon, <1>3 DEF DecideStart, lockVars, Calls, RequestTypeOK, Callers
<1>4. ASSUME NEW t \in Updaters, DecideCheck(t)
      PROVE  Calls'
  BY Zenon, <1>4 DEF DecideCheck, Calls, RequestTypeOK, Callers
<1>5. ASSUME NEW t \in Updaters, DecideBegin(t)
      PROVE  Calls'
  BY Zenon, <1>5 DEF DecideBegin, BeginWrite, Calls, RequestTypeOK, Callers, RequestAssumption
<1>6. ASSUME NEW t \in Updaters,
             \/ DecideConflict(t) \/ StagingFails(t) \/ ReloadFailed(t) \/ Undone(t)
             \/ DecideDone(t) \/ RejectFails(t) \/ CallerHangsUp(t)
      PROVE  Calls'
  <2>1. t \in Callers /\ CallReturn(t)
    BY Zenon, <1>6 DEF Callers, DecideConflict, StagingFails, ReloadFailed, Undone,
       DecideDone,
                RejectFails, CallerHangsUp
  <2> QED
    BY Zenon, <2>1, ReturnCalls
<1>7. ASSUME NEW t \in Updaters, ApproveFails(t)
      PROVE  Calls'
  BY Zenon, <1>7 DEF ApproveFails, PersistFails, Calls, RequestTypeOK, Callers
<1>8. CASE DaemonRestart
  BY Zenon, <1>8 DEF DaemonRestart, Calls, Callers
<1>9. ASSUME UNCHANGED <<lockVars, callVars>>
      PROVE  Calls'
  BY Zenon, <1>9 DEF Calls, lockVars, callVars
<1>10. ASSUME NEW t \in Updaters, Stage(t) \/ Reload(t) \/ UpdateGoesOn(t)
      PROVE  Calls'
  BY Zenon, <1>9, <1>10 DEF Stage, Reload, UpdateGoesOn
<1>11. ASSUME NEW t \in Handlers, Dns(t)
      PROVE  Calls'
  BY Zenon, <1>9, <1>11 DEF Dns
<1>12. ASSUME NEW m \in orphans, OrphanEnds(m)
      PROVE  Calls'
  BY Zenon, <1>9, <1>12 DEF OrphanEnds
<1>13. CASE Environment
  BY Zenon, <1>9, <1>13 DEF Environment
<1>14. CASE UNCHANGED requestVars
  BY Zenon, <1>9, <1>14 DEF requestVars
<1> QED
  BY Zenon, <1>1, <1>2, <1>3, <1>4, <1>5, <1>6, <1>7, <1>8, <1>10, <1>11, <1>12, <1>13,
     <1>14 DEF RequestNext

\* The queue and its calls are well formed at the start and after every step.
THEOREM CallsInvariant == RequestSpec => [](RequestTypeOK /\ FilesOK /\ Calls)
<1>1. RequestInit => RequestTypeOK /\ FilesOK /\ Calls
  <2> SUFFICES ASSUME RequestInit PROVE RequestTypeOK /\ FilesOK /\ Calls
    OBVIOUS
  <2>1. RequestTypeOK /\ FilesOK
    BY RequestAssumption DEF RequestInit, Init, Policies, RequestTypeOK, FilesOK, Maps,
       Empty, Statuses, RequestAssumption
  <2>2. Calls
    BY Zenon DEF RequestInit, Calls, Callers
  <2> QED
    BY Zenon, <2>1, <2>2
<1>2. RequestTypeOK /\ FilesOK /\ Calls /\ [RequestNext]_requestVars => (RequestTypeOK /\ FilesOK /\ Calls)'
  BY Zenon, RequestTypeStep, FilesStep, CallStep
<1> QED
  BY <1>1, <1>2, PTL DEF RequestSpec

\* The queue, in memory, on disk and under way, and the calls on it are always
\* well formed.
THEOREM RequestsTyped == RequestSpec => []RequestTypeOK
BY CallsInvariant, PTL

-----------------------------------------------------------------------------
(* The queue is durable and its decisions are final, as long as no write   *)
(* of it outlived its call; approved requests are in force, and rejected   *)
(* ones are not.                                                           *)

\* The queue is full: what a submission prunes is every decided request.
Full == ~(Cardinality(Decided \cup Pending) < MaxRequests)

\* The map m has the decisions of the one in memory, up to what is pruned.
Agrees(m) ==
  \A r \in Decided : m[r] = requests[r] \/ (m[r] = "none" /\ Full)

\* As long as no write outlived its call, the map on disk and the one being
\* written agree with the map in memory, and both hold what was acknowledged;
\* only a submission may prune that.
Durable ==
  orphaned = 0 =>
    /\ orphans = {}
    /\ \A r \in acked : disk[r] # "none" /\ requests[r] # "none"
    /\ Agrees(disk)
    /\ \A t \in Callers : rpc[t] = "writing" => Agrees(next[t])
    /\ \A t \in Updaters : rpc[t] = "writing" => \A r \in acked : next[t][r] # "none"

\* Nothing of the queue changes, and no call starts to write.
LEMMA QuietDurable ==
  ASSUME RequestTypeOK, Durable, UNCHANGED <<queueVars, acked>>,
         \A t \in Callers : rpc'[t] = "writing" => rpc[t] = "writing" /\ next'[t] = next[t]
  PROVE  Durable'
<1> USE DEF queueVars
<1>1. Decided' = Decided /\ Full' = Full
  BY Zenon DEF Decided, Pending, Full
<1> QED
  BY <1>1 DEF Durable, Agrees, Callers

\* A call starts to write a map that agrees with the one in memory.
LEMMA BeginDurable ==
  ASSUME NEW t \in Callers, NEW m, RequestTypeOK, Calls, Durable, BeginWrite(t, m),
         UNCHANGED <<queueVars, acked>>,
         Agrees(m), t \in Updaters /\ orphaned = 0 => \A r \in acked : m[r] # "none"
  PROVE  Durable'
<1> USE DEF queueVars
<1>1. Decided' = Decided /\ Full' = Full
  BY Zenon DEF Decided, Pending, Full
<1>2. ASSUME NEW u \in Callers, rpc'[u] = "writing"
      PROVE  u = t /\ next'[u] = m
  BY Zenon, <1>2, RequestAssumption DEF BeginWrite, Calls, RequestTypeOK, RequestAssumption
<1>3. \A u \in Callers : rpc'[u] = "writing" => Agrees(next[u])'
  BY Zenon, <1>1, <1>2 DEF Agrees
<1>4. \A u \in Updaters : rpc'[u] = "writing" /\ orphaned = 0
                             => \A r \in acked' : next'[u][r] # "none"
  BY Zenon, <1>2 DEF Callers
<1>5. Agrees(disk)' <=> Agrees(disk)
  BY Zenon, <1>1 DEF Agrees
<1> QED
  BY Zenon, <1>3, <1>4, <1>5 DEF Durable

\* The write of a call has ended: nobody else is writing.
LEMMA EndDurable ==
  ASSUME NEW t \in Callers, RequestTypeOK, Calls, Durable, rpc[t] = "writing",
         Persisted(t) \/ PersistFails(t),
         rpc'[t] # "writing", \A u \in Callers \ {t} : rpc'[u] = rpc[u],
         \A r \in acked' : r \in Requests /\ next[t][r] # "none"
                           /\ (r \in acked \/ Persisted(t))
  PROVE  Durable'
<1>1. ASSUME NEW u \in Callers PROVE rpc'[u] # "writing"
  BY Zenon DEF Calls
<1>2. CASE Persisted(t)
  <2>1. Agrees(disk)'
    BY Zenon, <1>2 DEF Agrees, Persisted
  <2> QED
    BY Zenon, <1>1, <1>2, <2>1 DEF Durable, Persisted, Callers
<1>3. CASE PersistFails(t) /\ ~Persisted(t)
  <2>1. Decided' = Decided /\ Full' = Full
    BY Zenon, <1>3 DEF Decided, Pending, Full, PersistFails
  <2>2. orphaned = 0 => Agrees(disk)'
    BY <1>3, <2>1 DEF Agrees, PersistFails, Durable
  <2> QED
    BY Zenon, <1>1, <1>3, <2>2 DEF Durable, PersistFails, Callers
<1> QED
  BY Zenon, <1>2, <1>3

\* A write that outlives its call is counted.
LEMMA OrphanCounted ==
  ASSUME NEW t, RequestTypeOK, Orphan(t)
  PROVE  orphaned' # 0
BY DEF RequestTypeOK, Orphan

\* Every step keeps the three copies of the queue in agreement.
LEMMA DurableStep == RequestTypeOK /\ Calls /\ Durable /\ [RequestNext]_requestVars => Durable'
<1> SUFFICES ASSUME RequestTypeOK, Calls, Durable, [RequestNext]_requestVars PROVE Durable'
  OBVIOUS
<1>0. ASSUME NEW t \in Callers, CallReturn(t)
      PROVE  /\ rpc'[t] # "writing"
             /\ \A u \in Callers \ {t} : rpc'[u] = rpc[u] /\ next'[u] = next[u]
  BY Zenon, <1>0 DEF CallReturn, RequestTypeOK
<1>1. ASSUME NEW t \in Agents, NEW r \in Requests, SubmitBegin(t, r)
      PROVE  Durable'
  <2> DEFINE m == [q \in Requests |-> IF q = r THEN "pending"
                                      ELSE IF q \in Pruned THEN "none"
                                      ELSE requests[q]]
  <2>1. Agrees(m)
    BY Zenon, <1>1 DEF SubmitBegin, Fresh, Agrees, Decided, Pruned, Full
  <2>2. t \in Callers /\ t \notin Updaters /\ BeginWrite(t, m)
        /\ UNCHANGED <<queueVars, acked>>
    BY Zenon, <1>1, RequestAssumption DEF SubmitBegin, Callers, historyVars,
       RequestAssumption
  <2> HIDE DEF m
  <2> QED
    BY Zenon, <2>1, <2>2, BeginDurable
<1>2. ASSUME NEW t \in Agents, SubmitDone(t) \/ SubmitFails(t)
      PROVE  Durable'
  <2>1. t \in Callers /\ CallReturn(t) /\ rpc[t] = "writing" /\ aim[t] \in Requests
    BY Zenon, <1>2 DEF Callers, SubmitDone, SubmitFails, Persisted, PersistFails,
       Orphan, Calls
  <2>2. CASE Orphan(t)
    BY Zenon, <2>2, OrphanCounted DEF Durable
  <2>3. CASE Persisted(t) \/ PersistFails(t)
    <3>1. \A r \in acked' : r \in Requests /\ next[t][r] # "none"
                            /\ (r \in acked \/ Persisted(t))
      BY Zenon, <1>2, <2>1 DEF SubmitDone, SubmitFails, RequestTypeOK
    <3> QED
      BY Zenon, <1>0, <2>1, <2>3, <3>1, EndDurable
  <2> QED
    BY Zenon, <1>2, <2>2, <2>3 DEF SubmitDone, SubmitFails
<1>3. ASSUME NEW t \in Updaters, DecideBegin(t)
      PROVE  Durable'
  <2> DEFINE m == [requests EXCEPT ![aim[t]] = verdict[t]]
  <2>1. Agrees(m)
    BY Zenon, <1>3 DEF DecideBegin, Agrees, Decided, RequestTypeOK, Maps
  <2>2. orphaned = 0 => \A r \in acked : m[r] # "none"
    BY Zenon, <1>3 DEF DecideBegin, Durable, RequestTypeOK, Maps, Calls
  <2>3. t \in Callers /\ BeginWrite(t, m) /\ UNCHANGED <<queueVars, acked>>
    BY Zenon, <1>3 DEF DecideBegin, Callers, historyVars
  <2> HIDE DEF m
  <2> QED
    BY Zenon, <2>1, <2>2, <2>3, BeginDurable
<1>4. ASSUME NEW t \in Updaters, DecideDone(t) \/ RejectFails(t) \/ ApproveFails(t)
      PROVE  Durable'
  <2>1. t \in Callers /\ rpc[t] = "writing" /\ (Persisted(t) \/ PersistFails(t))
        /\ acked' = acked
    BY Zenon, <1>4 DEF Callers, DecideDone, RejectFails, ApproveFails, Persisted,
       PersistFails,
                historyVars
  <2>2. rpc'[t] # "writing" /\ \A u \in Callers \ {t} : rpc'[u] = rpc[u]
    BY Zenon, <1>0, <1>4, <2>1 DEF DecideDone, RejectFails, ApproveFails, RequestTypeOK
  <2>3. CASE orphaned # 0
    BY Zenon, <2>1, <2>3 DEF Durable, Persisted, PersistFails
  <2>4. CASE orphaned = 0
    BY Zenon, <2>1, <2>2, <2>4, EndDurable DEF Durable, RequestTypeOK
  <2> QED
    BY Zenon, <2>3, <2>4
<1>5. ASSUME NEW t \in Updaters, NEW r \in Requests,
             NEW v \in {"approved", "rejected"}, DecideStart(t, r, v)
      PROVE  Durable'
  BY Zenon, <1>5, QuietDurable DEF DecideStart, historyVars, Callers, RequestTypeOK
<1>6. ASSUME NEW t \in Updaters, DecideCheck(t)
      PROVE  Durable'
  BY Zenon, <1>6, QuietDurable DEF DecideCheck, historyVars, Callers, RequestTypeOK
<1>7. ASSUME NEW t \in Updaters,
             DecideConflict(t) \/ StagingFails(t) \/ ReloadFailed(t) \/ Undone(t)
      PROVE  Durable'
  <2>1. t \in Callers /\ CallReturn(t) /\ UNCHANGED <<queueVars, acked>>
    BY Zenon, <1>7 DEF Callers, DecideConflict, StagingFails, ReloadFailed, Undone,
       historyVars
  <2> QED
    BY Zenon, <1>0, <2>1, QuietDurable
<1>8. ASSUME NEW t \in Updaters, CallerHangsUp(t)
      PROVE  Durable'
  <2>1. t \in Callers /\ CallReturn(t) /\ acked' = acked
    BY Zenon, <1>8 DEF Callers, CallerHangsUp
  <2>2. CASE Orphan(t)
    BY Zenon, <2>2, OrphanCounted DEF Durable
  <2>3. CASE UNCHANGED queueVars
    BY Zenon, <1>0, <2>1, <2>3, QuietDurable
  <2> QED
    BY Zenon, <1>8, <2>2, <2>3 DEF CallerHangsUp
<1>9. ASSUME NEW m \in orphans, OrphanEnds(m)
      PROVE  Durable'
  BY Zenon, <1>9 DEF OrphanEnds, Durable
<1>10. CASE DaemonRestart
  <2>1. Agrees(disk)'
    BY Zenon, <1>10 DEF DaemonRestart, Agrees
  <2> QED
    BY Zenon, <1>10, <2>1 DEF DaemonRestart, Durable, Callers
<1>11. ASSUME UNCHANGED <<queueVars, callVars, acked>>
      PROVE  Durable'
  BY Zenon, <1>11, QuietDurable DEF callVars
<1>12. ASSUME NEW t \in Updaters, Stage(t) \/ Reload(t) \/ UpdateGoesOn(t)
      PROVE  Durable'
  BY Zenon, <1>11, <1>12 DEF Stage, Reload, UpdateGoesOn, historyVars
<1>13. ASSUME NEW t \in Handlers, Dns(t)
      PROVE  Durable'
  BY Zenon, <1>11, <1>13 DEF Dns, historyVars
<1>14. CASE Environment
  BY Zenon, <1>11, <1>14 DEF Environment, historyVars
<1>15. CASE UNCHANGED requestVars
  BY Zenon, <1>11, <1>15 DEF requestVars, historyVars
<1> QED
  BY Zenon, <1>1, <1>2, <1>3, <1>4, <1>5, <1>6, <1>7, <1>8, <1>9, <1>10, <1>12, <1>13,
     <1>14, <1>15 DEF RequestNext

\* The copies of the queue agree at the start and after every step.
THEOREM QueueInvariant == RequestSpec => []Durable
<1>1. RequestInit => Durable
  BY Zenon DEF RequestInit, Durable, Agrees, Decided, Empty, Callers
<1>2. RequestTypeOK /\ Calls /\ Durable /\ [RequestNext]_requestVars => Durable'
  BY Zenon, DurableStep
<1> QED
  BY <1>1, <1>2, CallsInvariant, PTL DEF RequestSpec

\* "Durable rule-request queue": a request that was acknowledged to its agent
\* is in the state file until it is pruned, through failed writes and restarts.
THEOREM AcknowledgedIsDurable == RequestSpec => []AcknowledgedDurable
<1>1. Durable => AcknowledgedDurable
  BY Zenon DEF Durable, AcknowledgedDurable
<1> QED
  BY <1>1, QueueInvariant, PTL

\* No second operator, failed write or restart changes a decision on a request
\* or forgets it; it only leaves the queue when a full queue is pruned.
THEOREM DecisionsAreFinal == RequestSpec => DecisionsFinal
<1> DEFINE Final ==
      orphaned = 0 => \A r \in Decided : \/ requests'[r] = requests[r]
                                         \/ requests'[r] = "none" /\ Pruned = Decided
<1>1. ASSUME RequestTypeOK, Durable, [RequestNext]_requestVars PROVE Final
  <2>0. Full => Pruned = Decided
    BY Zenon DEF Full, Pruned
  <2>1. CASE requests' = requests
    BY Zenon, <2>1
  <2>2. CASE requests' = disk
    BY Zenon, <1>1, <2>0, <2>2 DEF RequestTypeOK, Durable, Agrees
  <2>3. ASSUME NEW t \in Callers, Persisted(t) PROVE Final
    BY Zenon, <1>1, <2>0, <2>3 DEF RequestTypeOK, Durable, Agrees, Persisted
  <2>4. \/ requests' = requests \/ requests' = disk
        \/ \E t \in Callers : Persisted(t)
    BY Zenon, <1>1 DEF RequestNext, requestVars, queueVars, Callers, SubmitBegin, SubmitDone,
       SubmitFails,
       DecideStart, DecideCheck, DecideConflict, Stage, StagingFails, ReloadFailed,
       DecideBegin, DecideDone, RejectFails, ApproveFails, Undone, CallerHangsUp, Reload,
       UpdateGoesOn, Dns, OrphanEnds, Environment, DaemonRestart, PersistFails, Orphan
  <2> QED
    BY Zenon, <2>1, <2>2, <2>3, <2>4
<1> QED
  BY <1>1, CallsInvariant, QueueInvariant, PTL DEF RequestSpec, DecisionsFinal

-----------------------------------------------------------------------------
(* Approved requests are in force.                                         *)

Labels == {"idle", "update", "prepare", "barrier", "flush", "commit", "done", "failed",
           "restore", "revoke"}
Busy   == Labels \ {"idle", "update"}
Loaded == {"barrier", "flush", "commit"}

UpdateTypes ==
  /\ files \subseteq Files /\ policy \subseteq Files
  /\ pc \in [Updaters -> Labels]
  /\ staged \in [Updaters -> Files \cup {NoFile}]
  /\ saved \in [Updaters -> SUBSET Files]
  /\ prepared \in [Updaters -> SUBSET Files]

Locked == \A t \in Updaters : pc[t] \in Busy <=> updateLock = t

\* The file an update has staged is there, and in force once it is committed.
StagedIn ==
  \A t \in Updaters : staged[t] # NoFile =>
    /\ pc[t] \in {"prepare", "done"} \cup Loaded => staged[t] \in files
    /\ pc[t] \in Loaded => staged[t] \in prepared[t]
    /\ pc[t] = "done" => staged[t] \in policy

UpdateInv == UpdateTypes /\ Locked /\ StagedIn

\* The file r is in force, and stays so whatever becomes of an update.
Good(r) ==
  /\ r \in files /\ r \in policy
  /\ \A t \in Updaters :
       /\ pc[t] \in Loaded => r \in prepared[t]
       /\ pc[t] \in Busy => r \in saved[t] /\ staged[t] # r

\* An update that returns or is dropped holds nothing.
LEMMA ReturnKeeps ==
  ASSUME NEW t \in Updaters, UpdateInv, UpdateReturn(t), policy' = policy,
         files' \subseteq Files,
         \/ files \subseteq files'
         \/ updateLock = t /\ files \ {staged[t]} \subseteq files'
  PROVE  /\ UpdateInv'
         /\ \A r : Good(r) => Good(r)'
<1> USE DEF UpdateInv, UpdateReturn, Goto
<1>1. UpdateTypes'
  BY Zenon DEF UpdateTypes, Labels
<1>2. \A u \in Updaters : /\ u = t => pc'[u] = "idle"
                          /\ u # t => /\ pc'[u] = pc[u] /\ staged'[u] = staged[u]
                                      /\ saved'[u] = saved[u] /\ prepared'[u] = prepared[u]
  BY Zenon DEF UpdateTypes
<1>3. Locked'
  BY Zenon, <1>2, RequestAssumption DEF Locked, Busy, Callers, RequestAssumption
<1>4. updateLock = t => \A u \in Updaters : u # t => pc[u] \notin Busy
  BY Zenon DEF Locked
<1>5. StagedIn'
  BY <1>2, <1>4 DEF StagedIn, Busy, Loaded, Labels
<1>6. ASSUME NEW r, Good(r) PROVE Good(r)'
  <2>1. r \in files'
    BY Zenon, <1>6 DEF Good, Locked
  <2> QED
    BY Zenon, <1>2, <1>6, <2>1 DEF Good, Busy, Loaded
<1> QED
  BY Zenon, <1>1, <1>3, <1>5, <1>6

\* An update that holds policy_update goes on.
LEMMA GoOnKeeps ==
  ASSUME NEW t \in Updaters, UpdateInv, UpdateStep(t)
  PROVE  /\ UpdateInv'
         /\ \A r : Good(r) => Good(r)'
<1>0. UpdateTypes /\ Locked /\ StagedIn
  BY Zenon DEF UpdateInv
<1>1. ASSUME NEW l \in Busy, pc[t] \in Busy, Goto(t, l),
             UNCHANGED <<staged, saved, updateLock>>,
             \A u \in Updaters \ {t} : prepared'[u] = prepared[u],
             files' \subseteq Files, policy' \subseteq Files,
             prepared' \in [Updaters -> SUBSET Files],
             files \ {staged[t]} \subseteq files',
             l \in {"prepare", "done"} \cup Loaded =>
               files' = files /\ pc[t] \in {"prepare", "done"} \cup Loaded,
             l \in Loaded => prepared'[t] = files \/ (prepared'[t] = prepared[t] /\ pc[t] \in Loaded),
             policy' \in {policy, saved[t]} \/ (pc[t] = "commit" /\ policy' = prepared[t]),
             l = "done" => pc[t] = "commit" /\ policy' = prepared[t]
      PROVE  /\ UpdateInv'
             /\ \A r : Good(r) => Good(r)'
  <2>1. UpdateTypes'
    BY Zenon, <1>0, <1>1 DEF UpdateTypes, Goto, Busy
  <2>2. pc'[t] = l /\ \A u \in Updaters \ {t} : pc'[u] = pc[u] /\ pc[u] \notin Busy
    BY Zenon, <1>0, <1>1 DEF UpdateTypes, Goto, Locked
  <2>3. Locked'
    BY Zenon, <1>0, <1>1, <2>2 DEF Locked
  <2>4. ASSUME NEW u \in Updaters, staged'[u] # NoFile
        PROVE  /\ pc'[u] \in {"prepare", "done"} \cup Loaded => staged'[u] \in files'
               /\ pc'[u] \in Loaded => staged'[u] \in prepared'[u]
               /\ pc'[u] = "done" => staged'[u] \in policy'
    BY Zenon, <1>0, <1>1, <2>2, <2>4 DEF StagedIn, Busy, Loaded, Labels
  <2>5. ASSUME NEW r, Good(r) PROVE Good(r)'
    BY <1>1, <2>2, <2>5 DEF Good, Loaded, Busy, Labels
  <2> QED
    BY Zenon, <2>1, <2>3, <2>4, <2>5 DEF UpdateInv, StagedIn
<1>2. \A u \in Updaters : saved[u] \subseteq Files /\ prepared[u] \subseteq Files
  BY Zenon, <1>0 DEF UpdateTypes
<1>3. CASE Prepare(t)
  BY Zenon, <1>0, <1>1, <1>2, <1>3 DEF Prepare, UpdateTypes, Busy, Loaded, Labels
<1>4. CASE PrepareFails(t)
  BY Zenon, <1>0, <1>1, <1>2, <1>4 DEF PrepareFails, UpdateTypes, Busy, Loaded,
     Labels
<1>5. CASE Barrier(t)
  BY Zenon, <1>0, <1>1, <1>2, <1>5 DEF Barrier, UpdateTypes, Busy, Loaded, Labels
<1>6. CASE Flush(t)
  BY Zenon, <1>0, <1>1, <1>2, <1>6 DEF Flush, UpdateTypes, Busy, Loaded, Labels
<1>7. CASE FlushFails(t)
  BY Zenon, <1>0, <1>1, <1>2, <1>7 DEF FlushFails, UpdateTypes, Busy, Loaded,
     Labels
<1>8. CASE Commit(t)
  BY Zenon, <1>0, <1>1, <1>2, <1>8 DEF Commit, UpdateTypes, Busy, Loaded, Labels
<1>9. CASE Undo(t)
  BY Zenon, <1>0, <1>1, <1>2, <1>9 DEF Undo, UpdateTypes, Busy, Loaded, Labels
<1>10. CASE Restore(t)
  BY Zenon, <1>0, <1>1, <1>2, <1>10 DEF Restore, UpdateTypes, Busy, Loaded,
     Labels
<1>11. CASE Finish(t)
  BY Zenon, <1>0, <1>11, ReturnKeeps DEF Finish, UpdateTypes, Locked, Busy,
     Labels
<1>12. CASE Revoke(t) \/ RevokeFails(t)
  BY Zenon, <1>0, <1>12, ReturnKeeps DEF Revoke, RevokeFails, UpdateTypes
<1> QED
  BY Zenon, <1>3, <1>4, <1>5, <1>6, <1>7, <1>8, <1>9, <1>10, <1>11, <1>12 DEF
     UpdateStep

\* Whatever the policy does, its updates keep to their lock, and a file that is
\* in force for good stays in force.
LEMMA MovesKeep ==
  ASSUME UpdateInv, PolicyMoves \/ UNCHANGED vars
  PROVE  /\ UpdateInv'
         /\ \A r : Good(r) => Good(r)'
<1>0. UpdateTypes /\ Locked /\ StagedIn
  BY Zenon DEF UpdateInv
<1>1. ASSUME UNCHANGED <<files, policy, updateVars>>
      PROVE  UpdateInv' /\ \A r : Good(r) => Good(r)'
  BY Zenon, <1>0, <1>1 DEF UpdateInv, UpdateTypes, Locked, StagedIn, Good,
     updateVars
<1>2. ASSUME NEW t \in Updaters, StartUpdate(t)
      PROVE  UpdateInv' /\ \A r : Good(r) => Good(r)'
  <2>1. /\ pc'[t] = "update" /\ pc[t] = "idle" /\ \A u \in Updaters \ {t} : pc'[u] = pc[u]
        /\ UNCHANGED <<files, policy, updateLock, staged, saved, prepared>>
    BY Zenon, <1>0, <1>2 DEF StartUpdate, Goto, UpdateTypes
  <2>2. UpdateTypes'
    BY Zenon, <1>0, <1>2 DEF StartUpdate, Goto, UpdateTypes, Labels
  <2>3. Locked' /\ StagedIn'
    BY Zenon, <1>0, <2>1 DEF Locked, StagedIn, Busy, Loaded, Labels
  <2> QED
    BY Zenon, <2>1, <2>2, <2>3 DEF UpdateInv, Good, Busy, Loaded, Labels
<1>3. ASSUME NEW t \in Updaters, NEW f \in Files \cup {NoFile}, Begin(t, f)
      PROVE  UpdateInv' /\ \A r : Good(r) => Good(r)'
  <2>1. /\ pc'[t] = "prepare" /\ updateLock' = t /\ updateLock = NoTask
        /\ staged'[t] = f /\ saved'[t] = policy /\ f \notin files
        /\ UNCHANGED <<policy, prepared>>
        /\ \A u \in Updaters \ {t} : /\ pc'[u] = pc[u] /\ staged'[u] = staged[u]
                                     /\ saved'[u] = saved[u]
    BY Zenon, <1>0, <1>3 DEF Begin, Goto, UpdateTypes
  <2>2. files \subseteq files' /\ (f # NoFile => f \in files')
    BY Zenon, <1>3 DEF Begin
  <2>3. UpdateTypes'
    BY Zenon, <1>0, <1>3 DEF Begin, Goto, UpdateTypes, Labels
  <2>4. \A u \in Updaters : pc[u] \notin Busy
    BY Zenon, <1>0, <2>1, RequestAssumption DEF Locked, RequestAssumption, Callers
  <2>5. Locked'
    BY <2>1, <2>4 DEF Locked, Busy, Labels
  <2>6. StagedIn'
    BY Zenon, <1>0, <2>1, <2>2 DEF StagedIn, Loaded
  <2>7. ASSUME NEW r, Good(r) PROVE Good(r)'
    BY Zenon, <2>1, <2>2, <2>4, <2>7 DEF Good, Loaded, Busy
  <2> QED
    BY Zenon, <2>3, <2>5, <2>6, <2>7 DEF UpdateInv
<1>4. ASSUME NEW t \in Updaters, NEW f \in Files, StageFails(t, f)
      PROVE  UpdateInv' /\ \A r : Good(r) => Good(r)'
  <2>1. /\ UpdateReturn(t) /\ policy' = policy
        /\ files \subseteq files' /\ files' \subseteq Files
    BY Zenon, <1>0, <1>4 DEF StageFails, UpdateTypes
  <2> QED
    BY Zenon, <2>1, ReturnKeeps
<1>5. ASSUME NEW t \in Updaters, HangUp(t)
      PROVE  UpdateInv' /\ \A r : Good(r) => Good(r)'
  <2>1. UpdateReturn(t) /\ UNCHANGED <<policy, files>> /\ files \subseteq Files
    BY Zenon, <1>0, <1>5 DEF HangUp, UpdateTypes
  <2> QED
    BY Zenon, <2>1, ReturnKeeps
<1>6. ASSUME NEW t \in Handlers, DnsLease(t) \/ DnsStep(t)
      PROVE  UpdateInv' /\ \A r : Good(r) => Good(r)'
  BY <1>1, <1>6, Zenon DEF DnsLease, DnsStep, DnsAllowed,
     DnsAnswer, DnsGrant, DnsDone
<1>7. CASE Expire
  BY <1>1, <1>7, Zenon DEF Expire
<1>8. CASE Restart
  <2>1. UpdateTypes'
    BY Zenon, <1>0, <1>8 DEF Restart, UpdateTypes, Labels
  <2>2. \A t \in Updaters : pc'[t] = "idle" /\ staged'[t] = NoFile
    BY Zenon, <1>8 DEF Restart
  <2>3. Locked' /\ StagedIn'
    BY Zenon, <1>8, <2>2, RequestAssumption DEF Restart, Locked, StagedIn, Busy,
       Callers,
       RequestAssumption
  <2> QED
    BY Zenon, <1>8, <2>1, <2>2, <2>3 DEF Restart, UpdateInv, Good, Loaded, Busy
<1>9. CASE UNCHANGED vars
  BY Zenon, <1>1, <1>9 DEF vars
<1> QED
  BY Zenon, <1>2, <1>3, <1>4, <1>5, <1>6, <1>7, <1>8, <1>9, GoOnKeeps DEF PolicyMoves,
     BeginUpdate

\* An operator's call and the update it makes go together: a plain reload has
\* no file, a rejection makes no update, and an approval is written when its
\* own file is in force.
Link(t) ==
  /\ rpc[t] = "idle" => aim[t] = NoRequest /\ (pc[t] \in Busy => staged[t] = NoFile)
  /\ rpc[t] = "transition" => pc[t] = "idle"
  /\ rpc[t] # "idle" /\ verdict[t] = "rejected" => pc[t] = "idle"
  /\ rpc[t] \in {"decide", "writing", "undo"} /\ verdict[t] = "approved" =>
       pc[t] # "idle" /\ (pc[t] \in Busy => staged[t] = aim[t])
  /\ rpc[t] = "writing" /\ verdict[t] = "approved" => pc[t] = "done"

Linked == \A t \in Updaters : Link(t)

\* The approval of r is under way in the call t.
Own(t, r) == t \in Updaters /\ verdict[t] = "approved" /\ aim[t] = r

\* What is being written adds the call's own approval and no other.
Copied ==
  /\ \A t \in Callers, r \in Requests :
       rpc[t] = "writing" /\ next[t][r] = "approved" => requests[r] = "approved" \/ Own(t, r)
  /\ \A t \in Updaters :
       rpc[t] = "writing" /\ verdict[t] = "approved" => next[t][aim[t]] = "approved"

\* r is approved in memory, on disk or in a write that outlived its call.
Recorded(r) ==
  \/ requests[r] = "approved" \/ disk[r] = "approved"
  \/ \E m \in orphans : m[r] = "approved"

InForce == \A r \in Requests \ doubtful : Recorded(r) => Good(r)

\* The calls of the others are not touched.
LEMMA OthersLinked ==
  ASSUME NEW t, Linked, Link(t)',
         \A u \in Updaters \ {t} : /\ rpc'[u] = rpc[u] /\ verdict'[u] = verdict[u]
                                   /\ aim'[u] = aim[u] /\ pc'[u] = pc[u]
                                   /\ staged'[u] = staged[u]
  PROVE  Linked'
<1> SUFFICES ASSUME NEW u \in Updaters PROVE Link(u)'
  BY Zenon DEF Linked
<1> QED
  BY Zenon DEF Linked, Link

\* Every step keeps a call and its update together.
LEMMA LinkStep ==
  ASSUME RequestTypeOK, Calls, UpdateInv, Linked, [RequestNext]_requestVars
  PROVE  Linked'
<1>0. UpdateTypes
  BY Zenon DEF UpdateInv
<1>1. policyVars' = policyVars => UNCHANGED <<pc, staged>>
  BY Zenon DEF policyVars
<1>2. ASSUME NEW t \in Agents,
             \/ \E r \in Requests : SubmitBegin(t, r)
             \/ SubmitDone(t) \/ SubmitFails(t)
      PROVE  Linked'
  <2>1. /\ policyVars' = policyVars
        /\ \A u \in Updaters : /\ rpc'[u] = rpc[u] /\ verdict'[u] = verdict[u]
                               /\ aim'[u] = aim[u]
    BY <1>2, RequestAssumption DEF SubmitBegin, SubmitDone, SubmitFails, BeginWrite,
       CallReturn, RequestTypeOK, Callers, RequestAssumption
  <2>2. t \notin Updaters
    BY Zenon, RequestAssumption DEF RequestAssumption
  <2> QED
    BY <1>1, <2>1, <2>2, Zenon DEF Linked, Link
<1>3. ASSUME NEW t \in Updaters, CallReturn(t), pc'[t] = "idle",
             \A u \in Updaters \ {t} : pc'[u] = pc[u] /\ staged'[u] = staged[u]
      PROVE  Linked'
  <2>1. /\ rpc'[t] = "idle" /\ aim'[t] = NoRequest
        /\ \A u \in Updaters \ {t} : /\ rpc'[u] = rpc[u] /\ verdict'[u] = verdict[u]
                                     /\ aim'[u] = aim[u]
    BY Zenon, <1>3 DEF CallReturn, RequestTypeOK, Callers
  <2>2. "idle" \notin Busy
    BY DEF Busy
  <2>3. Link(t)'
    BY Zenon, <1>3, <2>1, <2>2 DEF Link
  <2> QED
    BY Zenon, <1>3, <2>1, <2>3, OthersLinked
<1>4. ASSUME NEW t \in Updaters, UpdateReturn(t)
      PROVE  /\ pc'[t] = "idle"
             /\ \A u \in Updaters \ {t} : pc'[u] = pc[u] /\ staged'[u] = staged[u]
  BY Zenon, <1>0, <1>4 DEF UpdateReturn, Goto, UpdateTypes
<1>5. ASSUME NEW t \in Updaters,
             \/ DecideConflict(t) \/ StagingFails(t) \/ ReloadFailed(t)
             \/ DecideDone(t) \/ RejectFails(t) \/ Undone(t) \/ CallerHangsUp(t)
      PROVE  Linked'
  <2>1. /\ rpc[t] = "transition" => pc[t] = "idle"
        /\ rpc[t] = "writing" /\ verdict[t] # "approved" => pc[t] = "idle"
    BY DEF Linked, Link, Calls, RequestTypeOK, Callers
  <2>2. /\ CallReturn(t)
        /\ UpdateReturn(t) \/ (policyVars' = policyVars /\ pc[t] = "idle")
    BY Zenon, <1>5, <2>1 DEF DecideConflict, StagingFails, ReloadFailed, DecideDone,
       RejectFails, Undone, CallerHangsUp, Persisted, PersistFails, StageFails,
       Finish, Revoke, RevokeFails, HangUp
  <2> QED
    BY Zenon, <1>1, <1>3, <1>4, <2>2
<1>6. ASSUME NEW t \in Updaters, NEW r \in Requests,
             NEW v \in {"approved", "rejected"}, DecideStart(t, r, v)
      PROVE  Linked'
  <2>1. /\ rpc'[t] = "transition" /\ pc[t] = "idle" /\ policyVars' = policyVars
        /\ \A u \in Updaters \ {t} : /\ rpc'[u] = rpc[u] /\ verdict'[u] = verdict[u]
                                     /\ aim'[u] = aim[u]
    BY Zenon, <1>6 DEF DecideStart, RequestTypeOK, Callers
  <2> QED
    BY Zenon, <1>1, <2>1, OthersLinked DEF Link
<1>7. ASSUME NEW t \in Updaters, DecideCheck(t)
      PROVE  Linked'
  <2>1. /\ rpc[t] = "transition" /\ rpc'[t] = "decide" /\ UNCHANGED <<verdict, aim>>
        /\ \A u \in Updaters \ {t} : rpc'[u] = rpc[u]
    BY Zenon, <1>7 DEF DecideCheck, RequestTypeOK, Callers
  <2>2. CASE verdict[t] = "approved"
    <3>1. /\ pc'[t] = "update" /\ staged' = staged
          /\ \A u \in Updaters \ {t} : pc'[u] = pc[u]
      BY Zenon, <1>0, <1>7, <2>2 DEF DecideCheck, StartUpdate, Goto,
         UpdateTypes
    <3> QED
      BY Zenon, <2>1, <2>2, <3>1, OthersLinked DEF Link, Busy
  <2>3. CASE verdict[t] # "approved"
    <3>1. UNCHANGED <<pc, staged>>
      BY Zenon, <1>1, <1>7, <2>3 DEF DecideCheck
    <3> QED
      BY Zenon, <2>1, <2>3, <3>1, OthersLinked DEF Link, Linked
  <2> QED
    BY Zenon, <2>2, <2>3
<1>8. ASSUME NEW t \in Updaters, DecideBegin(t)
      PROVE  Linked'
  <2>1. /\ rpc[t] = "decide" /\ rpc'[t] = "writing" /\ UNCHANGED <<verdict, aim>>
        /\ policyVars' = policyVars
        /\ \A u \in Updaters \ {t} : rpc'[u] = rpc[u]
        /\ verdict[t] = "approved" => pc[t] = "done"
    BY Zenon, <1>8 DEF DecideBegin, BeginWrite, RequestTypeOK, Callers
  <2>2. Link(t) /\ UNCHANGED <<pc, staged>>
    BY Zenon, <1>1, <2>1 DEF Linked
  <2>3. Link(t)'
    BY Zenon, <2>1, <2>2 DEF Link
  <2> QED
    BY Zenon, <2>1, <2>2, <2>3, OthersLinked
<1>9. ASSUME NEW t \in Updaters, ApproveFails(t)
      PROVE  Linked'
  <2>1. /\ rpc[t] = "writing" /\ rpc'[t] = "undo" /\ UNCHANGED <<verdict, aim, staged>>
        /\ verdict[t] = "approved" /\ pc[t] = "done" /\ pc'[t] = "restore"
        /\ \A u \in Updaters \ {t} : rpc'[u] = rpc[u] /\ pc'[u] = pc[u]
    BY Zenon, <1>0, <1>9 DEF ApproveFails, PersistFails, Undo, Goto,
       RequestTypeOK, Callers,
       UpdateTypes
  <2> QED
    BY <2>1, OthersLinked DEF Link, Linked, Busy, Labels
<1>10. ASSUME NEW t \in Updaters, Reload(t)
      PROVE  Linked'
  <2>1. rpc[t] = "idle" /\ UNCHANGED <<rpc, verdict, aim>> /\ aim[t] = NoRequest
    BY Zenon, <1>10 DEF Reload, callVars, Linked, Link
  <2>2. /\ \A u \in Updaters \ {t} : pc'[u] = pc[u] /\ staged'[u] = staged[u]
        /\ pc'[t] \in {"idle", "update"} \/ staged'[t] = NoFile
    BY Zenon, <1>0, <1>4, <1>10 DEF Reload, StartUpdate, Begin,
       Finish, HangUp, Goto, UpdateTypes
  <2>3. Link(t)'
    BY <2>1, <2>2 DEF Link, Busy
  <2> QED
    BY Zenon, <2>1, <2>2, <2>3, OthersLinked
<1>11. ASSUME NEW t \in Updaters, Stage(t)
      PROVE  Linked'
  <2>1. /\ UNCHANGED <<rpc, verdict, aim>> /\ pc[t] = "update" /\ pc'[t] = "prepare"
        /\ staged'[t] = aim[t] /\ aim[t] # NoRequest
        /\ \A u \in Updaters \ {t} : pc'[u] = pc[u] /\ staged'[u] = staged[u]
    BY Zenon, <1>0, <1>11 DEF Stage, callVars, Begin, Goto, UpdateTypes
  <2>2. Link(t)
    BY Zenon DEF Linked
  <2>3. Link(t)'
    BY Zenon, <2>1, <2>2 DEF Link
  <2> QED
    BY Zenon, <2>1, <2>3, OthersLinked
<1>12. ASSUME NEW t \in Updaters, UpdateGoesOn(t)
      PROVE  Linked'
  <2>1. /\ UNCHANGED <<rpc, verdict, aim, staged>>
        /\ pc[t] \in Busy \ {"done"} /\ pc'[t] \in Busy
        /\ \A u \in Updaters \ {t} : pc'[u] = pc[u]
    BY Zenon, <1>0, <1>12 DEF UpdateGoesOn, callVars, Prepare,
       PrepareFails,
       Barrier, Flush, FlushFails, Commit, Restore,
       Goto, UpdateTypes, Busy, Labels
  <2>2. Link(t)'
    BY Zenon, <2>1 DEF Link, Linked, Busy
  <2> QED
    BY Zenon, <2>1, <2>2, OthersLinked
<1>13. ASSUME UNCHANGED <<callVars, pc, staged>>
      PROVE  Linked'
  BY <1>13, Zenon DEF Linked, Link, callVars
<1>14. ASSUME NEW t \in Handlers, Dns(t)
      PROVE  Linked'
  BY Zenon, <1>13, <1>14 DEF Dns, DnsLease, DnsStep, DnsAllowed,
     DnsAnswer, DnsGrant, DnsDone, updateVars
<1>15. ASSUME NEW m \in orphans, OrphanEnds(m)
      PROVE  Linked'
  BY Zenon, <1>1, <1>13, <1>15 DEF OrphanEnds
<1>16. CASE Environment
  BY Zenon, <1>13, <1>16 DEF Environment, Expire, updateVars
<1>17. CASE DaemonRestart
  <2>1. \A t \in Updaters : /\ rpc'[t] = "idle" /\ aim'[t] = NoRequest
                            /\ pc'[t] = "idle"
    BY Zenon, <1>17 DEF DaemonRestart, Restart, Callers
  <2>2. "idle" \notin Busy
    BY DEF Busy
  <2> QED
    BY Zenon, <2>1, <2>2 DEF Linked, Link
<1>18. CASE UNCHANGED requestVars
  BY Zenon, <1>1, <1>13, <1>18 DEF requestVars
<1> QED
  BY Zenon, <1>2, <1>5, <1>6, <1>7, <1>8, <1>9, <1>10, <1>11, <1>12, <1>14, <1>15,
     <1>16,
     <1>17, <1>18 DEF RequestNext

\* Every step keeps the maps being written close to the one in memory.
LEMMA CopyStep ==
  ASSUME RequestTypeOK, Calls, Copied, [RequestNext]_requestVars
  PROVE  Copied'
<1>0. ASSUME requests' = requests,
             \A t \in Callers : rpc'[t] = "writing" =>
               /\ rpc[t] = "writing" /\ next'[t] = next[t]
               /\ aim'[t] = aim[t] /\ verdict'[t] = verdict[t]
      PROVE  Copied'
  <2>1. ASSUME NEW t \in Callers, NEW r \in Requests, rpc'[t] = "writing",
               next'[t][r] = "approved"
        PROVE  requests'[r] = "approved" \/ Own(t, r)'
    <3>1. /\ rpc[t] = "writing" /\ next[t][r] = "approved"
          /\ aim'[t] = aim[t] /\ verdict'[t] = verdict[t]
      BY Zenon, <1>0, <2>1
    <3>2. requests[r] = "approved" \/ Own(t, r)
      BY Zenon, <3>1 DEF Copied
    <3> QED
      BY Zenon, <1>0, <3>1, <3>2 DEF Own
  <2>2. ASSUME NEW t \in Updaters, rpc'[t] = "writing", verdict'[t] = "approved"
        PROVE  next'[t][aim'[t]] = "approved"
    <3>1. t \in Callers
      BY DEF Callers
    <3>2. /\ rpc[t] = "writing" /\ next'[t] = next[t]
          /\ aim'[t] = aim[t] /\ verdict[t] = "approved"
      BY Zenon, <1>0, <2>2, <3>1
    <3>3. next[t][aim[t]] = "approved"
      BY Zenon, <3>2 DEF Copied
    <3> QED
      BY <3>2, <3>3
  <2> QED
    BY Zenon, <2>1, <2>2 DEF Copied
<1>1. ASSUME NEW t \in Callers, NEW m, BeginWrite(t, m), requests' = requests,
             \A r \in Requests : m[r] = "approved" => requests[r] = "approved" \/ Own(t, r)',
             t \in Updaters /\ verdict'[t] = "approved" => m[aim'[t]] = "approved"
      PROVE  Copied'
  <2>1. ASSUME NEW u \in Callers, rpc'[u] = "writing" PROVE u = t /\ next'[u] = m
    BY Zenon, <1>1, <2>1, RequestAssumption DEF BeginWrite, Calls, RequestTypeOK,
       RequestAssumption
  <2> QED
    BY <1>1, <2>1, Zenon DEF Copied, Callers
<1>2. ASSUME NEW t \in Callers, CallReturn(t)
      PROVE  /\ rpc'[t] = "idle"
             /\ \A u \in Callers \ {t} : /\ rpc'[u] = rpc[u] /\ next'[u] = next[u]
                                         /\ aim'[u] = aim[u] /\ verdict'[u] = verdict[u]
  BY Zenon, <1>2 DEF CallReturn, RequestTypeOK
<1>3. ASSUME NEW t \in Callers, CallReturn(t), requests' = requests \/ rpc[t] = "writing"
      PROVE  Copied'
  <2>1. CASE requests' = requests
    BY <1>0, <1>2, <1>3, <2>1, Zenon
  <2>2. CASE rpc[t] = "writing"
    <3>1. \A u \in Callers : rpc'[u] # "writing"
      BY Zenon, <1>2, <1>3, <2>2 DEF Calls
    <3> QED
      BY Zenon, <3>1 DEF Copied, Callers
  <2> QED
    BY Zenon, <1>3, <2>1, <2>2
<1>4. ASSUME NEW t \in Agents, NEW r \in Requests, SubmitBegin(t, r)
      PROVE  Copied'
  <2> DEFINE m == [q \in Requests |-> IF q = r THEN "pending"
                                      ELSE IF q \in Pruned THEN "none"
                                      ELSE requests[q]]
  <2>1. \A q \in Requests : m[q] = "approved" => requests[q] = "approved"
    OBVIOUS
  <2>2. t \in Callers /\ t \notin Updaters /\ BeginWrite(t, m) /\ requests' = requests
    BY Zenon, <1>4, RequestAssumption DEF SubmitBegin, Callers, queueVars,
       RequestAssumption
  <2> HIDE DEF m
  <2> QED
    BY Zenon, <1>1, <2>1, <2>2
<1>5. ASSUME NEW t \in Updaters, DecideBegin(t)
      PROVE  Copied'
  <2> DEFINE m == [requests EXCEPT ![aim[t]] = verdict[t]]
  <2>1. t \in Callers /\ BeginWrite(t, m) /\ UNCHANGED <<requests, aim, verdict>>
    BY Zenon, <1>5 DEF DecideBegin, Callers, queueVars
  <2>2. \A q \in Requests : m[q] = "approved" => requests[q] = "approved" \/ Own(t, q)'
    BY Zenon, <2>1 DEF Own, RequestTypeOK, Maps
  <2>3. m[aim[t]] = verdict[t]
    BY <1>5 DEF DecideBegin, Calls, Callers, RequestTypeOK, Maps
  <2> HIDE DEF m
  <2> QED
    BY Zenon, <1>1, <2>1, <2>2, <2>3
<1>6. ASSUME NEW t \in Agents, SubmitDone(t) \/ SubmitFails(t)
      PROVE  Copied'
  BY Zenon, <1>3, <1>6 DEF SubmitDone, SubmitFails, Persisted, PersistFails, Orphan,
     Callers
<1>7. ASSUME NEW t \in Updaters,
             \/ DecideConflict(t) \/ StagingFails(t) \/ ReloadFailed(t)
             \/ DecideDone(t) \/ RejectFails(t) \/ Undone(t) \/ CallerHangsUp(t)
      PROVE  Copied'
  <2>1. t \in Callers /\ CallReturn(t) /\ (requests' = requests \/ rpc[t] = "writing")
    BY Zenon, <1>7 DEF Callers, DecideConflict, StagingFails, ReloadFailed, DecideDone,
       RejectFails,
       Undone, CallerHangsUp, Persisted, PersistFails, Orphan, queueVars
  <2> QED
    BY Zenon, <1>3, <2>1
<1>8. ASSUME NEW t \in Updaters,
             \/ \E r \in Requests, v \in {"approved", "rejected"} : DecideStart(t, r, v)
             \/ DecideCheck(t) \/ ApproveFails(t)
      PROVE  Copied'
  <2>1. /\ UNCHANGED <<requests, next>> /\ rpc'[t] # "writing"
        /\ \A u \in Callers \ {t} : /\ rpc'[u] = rpc[u] /\ aim'[u] = aim[u]
                                    /\ verdict'[u] = verdict[u]
    BY Zenon, <1>8 DEF DecideStart, DecideCheck, ApproveFails, PersistFails, RequestTypeOK,
       Callers,
       queueVars
  <2> QED
    BY <1>0, <2>1, Zenon
<1>9. ASSUME UNCHANGED <<requests, callVars>>
      PROVE  Copied'
  BY <1>0, <1>9, Zenon DEF callVars
<1>10. ASSUME NEW t \in Updaters, Stage(t) \/ Reload(t) \/ UpdateGoesOn(t)
      PROVE  Copied'
  BY Zenon, <1>9, <1>10 DEF Stage, Reload, UpdateGoesOn, queueVars
<1>11. ASSUME NEW t \in Handlers, Dns(t)
      PROVE  Copied'
  BY Zenon, <1>9, <1>11 DEF Dns, queueVars
<1>12. ASSUME NEW m \in orphans, OrphanEnds(m)
      PROVE  Copied'
  BY Zenon, <1>9, <1>12 DEF OrphanEnds
<1>13. CASE Environment
  BY Zenon, <1>9, <1>13 DEF Environment, queueVars
<1>14. CASE DaemonRestart
  BY Zenon, <1>14 DEF DaemonRestart, Copied, Callers
<1>15. CASE UNCHANGED requestVars
  BY Zenon, <1>9, <1>15 DEF requestVars, queueVars
<1> QED
  BY Zenon, <1>4, <1>5, <1>6, <1>7, <1>8, <1>10, <1>11, <1>12, <1>13, <1>14, <1>15 DEF
     RequestNext

\* A request comes to be recorded as approved, other than in doubt, only when
\* its own call is answered or dropped with the policy in place.
LEMMA RecordStep ==
  ASSUME RequestTypeOK, Calls, Linked, Copied, [RequestNext]_requestVars,
         NEW r \in Requests \ doubtful', Recorded(r)'
  PROVE  \/ Recorded(r)
         \/ \E t \in Updaters : /\ rpc[t] = "writing" /\ Own(t, r)
                                /\ UpdateReturn(t) /\ UNCHANGED <<files, policy>>
<1> DEFINE Answered == \E t \in Updaters : /\ rpc[t] = "writing" /\ Own(t, r)
                                           /\ UpdateReturn(t)
                                           /\ UNCHANGED <<files, policy>>
<1>0. ASSUME UNCHANGED queueVars PROVE Recorded(r)
  BY <1>0, Zenon DEF Recorded, queueVars
<1>1. ASSUME NEW t \in Callers, Persisted(t) \/ PersistFails(t) \/ Orphan(t)
      PROVE  Recorded(r) \/ Own(t, r)
  <2>1. rpc[t] = "writing"
    BY Zenon, <1>1 DEF Persisted, PersistFails, Orphan
  <2>2. next[t][r] = "approved" => Recorded(r) \/ Own(t, r)
    BY Zenon, <2>1 DEF Copied, Recorded
  <2> QED
    BY Zenon, <1>1, <2>2 DEF Persisted, PersistFails, Orphan, Recorded
<1>2. ASSUME NEW t \in Agents, SubmitDone(t) \/ SubmitFails(t)
      PROVE  Recorded(r)
  <2>1. t \in Callers /\ t \notin Updaters
    BY Zenon, RequestAssumption DEF RequestAssumption, Callers
  <2> QED
    BY Zenon, <1>1, <1>2, <2>1 DEF SubmitDone, SubmitFails, Own
<1>3. ASSUME NEW t \in Updaters, DecideDone(t)
      PROVE  Recorded(r) \/ Answered
  <2>1. Recorded(r) \/ Own(t, r)
    BY Zenon, <1>1, <1>3 DEF DecideDone, Callers
  <2>2. ASSUME Own(t, r) PROVE Answered
    <3>1. verdict[t] = "approved" /\ rpc[t] = "writing" /\ pc[t] = "done"
      BY Zenon, <1>3, <2>2 DEF DecideDone, Persisted, Own, Linked, Link
    <3>2. UpdateReturn(t) /\ UNCHANGED <<files, policy>>
      BY Zenon, <1>3, <3>1 DEF DecideDone, Finish
    <3> QED
      BY Zenon, <2>2, <3>1, <3>2
  <2> QED
    BY Zenon, <2>1, <2>2
<1>4. ASSUME NEW t \in Updaters, RejectFails(t)
      PROVE  Recorded(r)
  BY Zenon, <1>1, <1>4 DEF RejectFails, Own, Callers
<1>5. ASSUME NEW t \in Updaters, ApproveFails(t)
      PROVE  Recorded(r)
  <2>1. Recorded(r) \/ Own(t, r)
    BY Zenon, <1>1, <1>5 DEF ApproveFails, Callers
  <2>2. ASSUME Own(t, r) PROVE disk' = disk
    BY Zenon, <1>5, <2>2 DEF ApproveFails, Own
  <2>3. UNCHANGED <<requests, orphans, orphaned>>
    BY Zenon, <1>5 DEF ApproveFails, PersistFails
  <2> QED
    BY Zenon, <1>0, <2>1, <2>2, <2>3 DEF queueVars
<1>6. ASSUME NEW t \in Updaters, CallerHangsUp(t)
      PROVE  Recorded(r) \/ Answered
  <2>1. CASE UNCHANGED queueVars
    BY Zenon, <1>0, <2>1
  <2>2. CASE rpc[t] = "writing" /\ Orphan(t)
    <3>1. Recorded(r) \/ Own(t, r)
      BY Zenon, <1>1, <2>2 DEF Callers
    <3>2. ASSUME Own(t, r) PROVE Answered
      <4>1. pc[t] = "done"
        BY Zenon, <2>2, <3>2 DEF Own, Linked, Link
      <4>2. UpdateReturn(t) /\ UNCHANGED <<files, policy>>
        BY Zenon, <1>6, <4>1 DEF CallerHangsUp, HangUp
      <4> QED
        BY Zenon, <2>2, <3>2, <4>2
    <3> QED
      BY Zenon, <3>1, <3>2
  <2> QED
    BY Zenon, <1>6, <2>1, <2>2 DEF CallerHangsUp
<1>7. ASSUME NEW m \in orphans, OrphanEnds(m)
      PROVE  Recorded(r)
  BY <1>7, Zenon DEF OrphanEnds, Recorded
<1>8. CASE DaemonRestart
  BY Zenon, <1>8 DEF DaemonRestart, Recorded
<1>9. ASSUME NEW t \in Agents, NEW q \in Requests, SubmitBegin(t, q)
      PROVE  Recorded(r)
  BY Zenon, <1>0, <1>9 DEF SubmitBegin
<1>10. ASSUME NEW t \in Updaters,
             \/ \E q \in Requests, v \in {"approved", "rejected"} : DecideStart(t, q, v)
             \/ DecideCheck(t) \/ DecideConflict(t) \/ Stage(t) \/ StagingFails(t)
             \/ ReloadFailed(t) \/ DecideBegin(t) \/ Undone(t) \/ Reload(t)
             \/ UpdateGoesOn(t)
      PROVE  Recorded(r)
  BY <1>0, <1>10, Zenon DEF DecideStart, DecideCheck, DecideConflict, Stage, StagingFails,
     ReloadFailed, DecideBegin, Undone, Reload, UpdateGoesOn
<1>11. ASSUME NEW t \in Handlers, Dns(t)
      PROVE  Recorded(r)
  BY <1>0, <1>11, Zenon DEF Dns
<1>12. CASE Environment
  BY <1>0, <1>12, Zenon DEF Environment
<1>13. CASE UNCHANGED requestVars
  BY Zenon, <1>0, <1>13 DEF requestVars
<1> QED
  BY Zenon, <1>2, <1>3, <1>4, <1>5, <1>6, <1>7, <1>8, <1>9, <1>10, <1>11, <1>12, <1>13
     DEF RequestNext

\* A doubtful approval stays doubtful.
LEMMA DoubtStays == [RequestNext]_requestVars => doubtful \subseteq doubtful'
BY Zenon DEF RequestNext, requestVars, historyVars, SubmitBegin, SubmitDone, SubmitFails, DecideStart,
   DecideCheck, DecideConflict, Stage, StagingFails, ReloadFailed, DecideBegin, DecideDone,
   RejectFails, ApproveFails, Undone, CallerHangsUp, Reload, UpdateGoesOn, Dns, OrphanEnds,
   Environment, DaemonRestart

\* Every step keeps what is recorded as approved in force.
LEMMA ForceStep ==
  ASSUME RequestTypeOK, Calls, UpdateInv, Linked, Copied, InForce, [RequestNext]_requestVars
  PROVE  InForce'
<1> SUFFICES ASSUME NEW r \in Requests \ doubtful', Recorded(r)' PROVE Good(r)'
  BY Zenon DEF InForce
<1>1. CASE Recorded(r)
  <2>1. PolicyMoves \/ UNCHANGED vars
    BY Zenon, PolicyMove DEF AimOK, RequestTypeOK
  <2>2. Good(r)
    BY Zenon, <1>1, DoubtStays DEF InForce
  <2> QED
    BY Zenon, <2>1, <2>2, MovesKeep
<1>2. ASSUME NEW t \in Updaters, rpc[t] = "writing", Own(t, r), UpdateReturn(t),
             UNCHANGED <<files, policy>>
      PROVE  Good(r)'
  <2>0. UpdateTypes /\ Locked /\ StagedIn
    BY Zenon DEF UpdateInv
  <2>1. pc[t] = "done" /\ staged[t] = r /\ r # NoFile
    BY Zenon, <1>2, RequestAssumption DEF Linked, Link, Own, Busy, Labels,
       RequestAssumption
  <2>2. r \in files /\ r \in policy
    BY Zenon, <2>0, <2>1 DEF StagedIn
  <2>3. \A u \in Updaters : pc'[u] \notin Busy
    <3>1. pc[t] \in Busy /\ "idle" \notin Busy
      BY Zenon, <2>1 DEF Busy, Labels
    <3>2. \A u \in Updaters \ {t} : pc[u] \notin Busy
      BY Zenon, <2>0, <3>1 DEF Locked
    <3> QED
      BY Zenon, <1>2, <2>0, <3>1, <3>2 DEF UpdateReturn, Goto, UpdateTypes
  <2> QED
    BY Zenon, <1>2, <2>2, <2>3 DEF Good, Loaded, Busy, Labels
<1> QED
  BY Zenon, <1>1, <1>2, RecordStep

\* The approvals and the policy go together at the start and after every step.
THEOREM ForceInvariant == RequestSpec => [](UpdateInv /\ Linked /\ Copied /\ InForce)
<1>1. RequestInit => UpdateInv /\ Linked /\ Copied /\ InForce
  <2> SUFFICES ASSUME RequestInit PROVE UpdateInv /\ Linked /\ Copied /\ InForce
    OBVIOUS
  <2>1. UpdateInv
    BY Zenon, RequestAssumption DEF RequestInit, Init, Policies, UpdateInv,
       UpdateTypes,
       Locked, StagedIn, Labels, Busy, RequestAssumption, Callers
  <2>2. Linked
    BY Zenon DEF RequestInit, Init, Linked, Link, Busy, Callers
  <2> QED
    BY Zenon, <2>1, <2>2 DEF RequestInit, Copied, InForce, Recorded, Empty, Callers
<1>2. /\ RequestTypeOK /\ Calls /\ [RequestNext]_requestVars
      /\ UpdateInv /\ Linked /\ Copied /\ InForce
      => (UpdateInv /\ Linked /\ Copied /\ InForce)'
  <2> SUFFICES ASSUME RequestTypeOK, Calls, [RequestNext]_requestVars, UpdateInv, Linked, Copied, InForce
               PROVE  (UpdateInv /\ Linked /\ Copied /\ InForce)'
    OBVIOUS
  <2>1. PolicyMoves \/ UNCHANGED vars
    BY Zenon, PolicyMove DEF AimOK, RequestTypeOK
  <2> QED
    BY Zenon, <2>1, MovesKeep, LinkStep, CopyStep, ForceStep
<1> QED
  BY <1>1, <1>2, CallsInvariant, PTL DEF RequestSpec

\* A request that is reported as approved has its rule file in place and in
\* force while no update is in progress, whatever crashed, failed or was dropped
\* before, unless the approval was reported as failed.
THEOREM ApprovedAreInForce == RequestSpec => []ApprovedInForce
<1>1. UpdateInv /\ InForce => ApprovedInForce
  BY Zenon DEF InForce, Recorded, Good, ApprovedInForce
<1> QED
  BY <1>1, ForceInvariant, PTL

-----------------------------------------------------------------------------
(* Rejected requests are not in force.                                     *)

Live == {"pending", "rejected"}

\* r is pending or rejected in memory, on disk or in a map being written.
Open(r) ==
  \/ requests[r] \in Live \/ disk[r] \in Live
  \/ \E t \in Callers : rpc[t] = "writing" /\ next[t][r] \in Live

\* The file r is there only while an update has it staged, and in force only
\* between the commit of that update and its restore.
Out(r) ==
  /\ r \in files => \E t \in Updaters : /\ pc[t] \in Busy \ {"restore", "revoke"}
                                        /\ staged[t] = r
  /\ r \in policy => \E t \in Updaters : pc[t] \in {"done", "restore"} /\ staged[t] = r
  /\ \A t \in Updaters :
       /\ pc[t] \in Busy => r \notin saved[t]
       /\ pc[t] \in Loaded /\ r \in prepared[t] => staged[t] = r

\* As long as no write outlived its call, a request whose approval was never
\* cut short is out of the policy, or in force for good and nowhere open.
Settled ==
  orphaned = 0 => \A r \in Requests \ interrupted : Out(r) \/ (Good(r) /\ ~Open(r))

\* Only the update that holds policy_update has a file staged, for its own call.
LEMMA StagedIsAim ==
  ASSUME RequestTypeOK, Calls, UpdateInv, Linked, NEW t \in Updaters, pc[t] \in Busy,
         staged[t] \in Requests
  PROVE  rpc[t] # "idle" /\ staged[t] = aim[t] /\ verdict[t] = "approved"
<1>1. staged[t] # NoFile /\ pc[t] # "idle"
  BY RequestAssumption DEF RequestAssumption, Busy
<1>2. rpc[t] # "idle"
  BY Zenon, <1>1 DEF Linked, Link
<1>3. verdict[t] = "approved"
  BY <1>1, <1>2 DEF Linked, Link, Calls, RequestTypeOK, Callers
<1>4. rpc[t] \in {"decide", "writing", "undo"}
  BY <1>1, <1>2 DEF Linked, Link, RequestTypeOK, Callers
<1> QED
  BY Zenon, <1>2, <1>3, <1>4 DEF Linked, Link

\* An update returns, without its file or with another one.
LEMMA OutReturn ==
  ASSUME NEW t \in Updaters, NEW r, UpdateInv, Out(r), UpdateReturn(t),
         policy' = policy, r \in files' => r \in files,
         pc[t] \in Busy /\ staged[t] = r => r \notin files' /\ r \notin policy
  PROVE  Out(r)'
<1>0. UpdateTypes
  BY DEF UpdateInv
<1>1. /\ pc'[t] = "idle"
      /\ \A u \in Updaters \ {t} : /\ pc'[u] = pc[u] /\ staged'[u] = staged[u]
                                   /\ saved'[u] = saved[u] /\ prepared'[u] = prepared[u]
  BY Zenon, <1>0 DEF UpdateReturn, Goto, UpdateTypes
<1>2. "idle" \notin Busy /\ Loaded \subseteq Busy /\ {"done", "restore"} \subseteq Busy
  BY DEF Busy, Labels, Loaded
<1>3. ASSUME r \in files'
      PROVE  \E u \in Updaters : pc'[u] \in Busy \ {"restore", "revoke"} /\ staged'[u] = r
  <2>1. PICK u \in Updaters : pc[u] \in Busy \ {"restore", "revoke"} /\ staged[u] = r
    BY Zenon, <1>3 DEF Out
  <2>2. u # t
    BY Zenon, <1>3, <2>1
  <2> QED
    BY Zenon, <1>1, <2>1, <2>2
<1>4. ASSUME r \in policy'
      PROVE  \E u \in Updaters : pc'[u] \in {"done", "restore"} /\ staged'[u] = r
  <2>1. PICK u \in Updaters : pc[u] \in {"done", "restore"} /\ staged[u] = r
    BY Zenon, <1>4 DEF Out
  <2>2. u # t
    BY Zenon, <1>2, <1>4, <2>1
  <2> QED
    BY Zenon, <1>1, <2>1, <2>2
<1>5. ASSUME NEW u \in Updaters
      PROVE  /\ pc'[u] \in Busy => r \notin saved'[u]
             /\ pc'[u] \in Loaded /\ r \in prepared'[u] => staged'[u] = r
  <2>1. CASE u = t
    BY Zenon, <1>1, <1>2, <2>1
  <2>2. CASE u # t
    BY Zenon, <1>1, <2>2 DEF Out
  <2> QED
    BY <2>1, <2>2
<1> QED
  BY Zenon, <1>3, <1>4, <1>5 DEF Out

\* The update that holds policy_update goes on.
LEMMA OutGoesOn ==
  ASSUME NEW t \in Updaters, NEW r, NEW l \in Busy, UpdateInv, Out(r),
         pc[t] \in Busy, Goto(t, l), UNCHANGED <<staged, saved>>,
         \A u \in Updaters \ {t} : prepared'[u] = prepared[u],
         files' \subseteq files,
         l \in {"restore", "revoke"} => (staged[t] = r => r \notin files'),
         \/ policy' = policy /\ (pc[t] \in {"done", "restore"} => l = "restore")
         \/ policy' = saved[t]
         \/ policy' = prepared[t] /\ pc[t] = "commit" /\ l = "done",
         l \in Loaded => \/ prepared'[t] = files
                         \/ prepared'[t] = prepared[t] /\ pc[t] \in Loaded
  PROVE  Out(r)'
<1>0. UpdateTypes /\ Locked
  BY DEF UpdateInv
<1>1. pc'[t] = l /\ \A u \in Updaters \ {t} : pc'[u] = pc[u] /\ pc[u] \notin Busy
  BY Zenon, <1>0 DEF UpdateTypes, Goto, Locked
<1>2. Loaded \subseteq Busy /\ {"done", "restore"} \subseteq Busy /\ "commit" \in Loaded
  BY DEF Busy, Labels, Loaded
<1>3. r \in files => staged[t] = r
  BY Zenon, <1>1 DEF Out
<1>4. r \in policy => staged[t] = r /\ pc[t] \in {"done", "restore"}
  BY Zenon, <1>1, <1>2 DEF Out
<1>5. ASSUME r \in files'
      PROVE  \E u \in Updaters : pc'[u] \in Busy \ {"restore", "revoke"} /\ staged'[u] = r
  BY Zenon, <1>1, <1>3, <1>5
<1>6. ASSUME r \in policy'
      PROVE  \E u \in Updaters : pc'[u] \in {"done", "restore"} /\ staged'[u] = r
  <2>1. r \notin saved[t]
    BY Zenon DEF Out
  <2>2. CASE policy' = policy /\ (pc[t] \in {"done", "restore"} => l = "restore")
    BY Zenon, <1>1, <1>4, <1>6, <2>2
  <2>3. CASE policy' = prepared[t] /\ pc[t] = "commit" /\ l = "done"
    BY Zenon, <1>1, <1>2, <1>6, <2>3 DEF Out
  <2> QED
    BY Zenon, <1>6, <2>1, <2>2, <2>3
<1>7. ASSUME NEW u \in Updaters
      PROVE  /\ pc'[u] \in Busy => r \notin saved'[u]
             /\ pc'[u] \in Loaded /\ r \in prepared'[u] => staged'[u] = r
  <2>1. CASE u = t
    BY Zenon, <1>1, <1>3, <2>1 DEF Out
  <2>2. CASE u # t
    BY Zenon, <1>1, <1>2, <2>2
  <2> QED
    BY <2>1, <2>2
<1> QED
  BY Zenon, <1>5, <1>6, <1>7 DEF Out

\* A request that is in force for good and nowhere open does not become open:
\* its id is taken, and only a pending request is decided.
LEMMA ClosedStep ==
  ASSUME RequestTypeOK, Calls, Durable, orphaned = 0, [RequestNext]_requestVars,
         NEW r \in Requests, r \in files, ~Open(r)
  PROVE  ~Open(r)'
<1>0. /\ requests[r] \notin Live /\ disk[r] \notin Live
      /\ \A t \in Callers : rpc[t] = "writing" => next[t][r] \notin Live
  BY Zenon DEF Open
<1>1. ASSUME requests'[r] \notin Live, disk'[r] \notin Live,
             \A t \in Callers : rpc'[t] = "writing" =>
               next'[t][r] \notin Live \/ (rpc[t] = "writing" /\ next'[t] = next[t])
      PROVE  ~Open(r)'
  BY Zenon, <1>0, <1>1 DEF Open
<1>2. ASSUME NEW t \in Callers, CallReturn(t),
             \/ Persisted(t) \/ PersistFails(t) \/ Orphan(t) \/ UNCHANGED queueVars
      PROVE  ~Open(r)'
  <2>1. requests'[r] \notin Live /\ disk'[r] \notin Live
    BY Zenon, <1>0, <1>2 DEF Persisted, PersistFails, Orphan, queueVars
  <2>2. \A u \in Callers : rpc'[u] = "writing" => rpc[u] = "writing" /\ next'[u] = next[u]
    BY Zenon, <1>2 DEF CallReturn, RequestTypeOK
  <2> QED
    BY Zenon, <1>1, <2>1, <2>2
<1>3. ASSUME NEW t \in Callers, NEW m, BeginWrite(t, m), m[r] \notin Live,
             UNCHANGED queueVars
      PROVE  ~Open(r)'
  <2>1. \A u \in Callers : rpc'[u] = "writing" =>
          (u = t /\ next'[u] = m) \/ (rpc[u] = "writing" /\ next'[u] = next[u])
    BY Zenon, <1>3 DEF BeginWrite, RequestTypeOK
  <2> QED
    BY Zenon, <1>0, <1>1, <1>3, <2>1 DEF queueVars
<1>4. ASSUME UNCHANGED queueVars,
             \A t \in Callers : rpc'[t] = "writing" =>
               rpc[t] = "writing" /\ next'[t] = next[t]
      PROVE  ~Open(r)'
  BY Zenon, <1>0, <1>1, <1>4 DEF queueVars
<1>5. ASSUME NEW t \in Agents, NEW q \in Requests, SubmitBegin(t, q)
      PROVE  ~Open(r)'
  <2> DEFINE m == [p \in Requests |-> IF p = q THEN "pending"
                                      ELSE IF p \in Pruned THEN "none" ELSE requests[p]]
  <2>1. r # q /\ BeginWrite(t, m) /\ UNCHANGED queueVars /\ t \in Callers
    BY Zenon, <1>5 DEF SubmitBegin, Fresh, Callers
  <2>2. m[r] \notin Live
    BY <1>0, <2>1 DEF Live
  <2> QED
    BY Zenon, <1>3, <2>1, <2>2
<1>6. ASSUME NEW t \in Agents, SubmitDone(t) \/ SubmitFails(t)
      PROVE  ~Open(r)'
  BY Zenon, <1>2, <1>6 DEF SubmitDone, SubmitFails, Callers
<1>7. ASSUME NEW t \in Updaters,
             \/ DecideConflict(t) \/ StagingFails(t) \/ ReloadFailed(t)
             \/ DecideDone(t) \/ RejectFails(t) \/ Undone(t) \/ CallerHangsUp(t)
      PROVE  ~Open(r)'
  <2>1. /\ t \in Callers /\ CallReturn(t)
        /\ Persisted(t) \/ PersistFails(t) \/ Orphan(t) \/ UNCHANGED queueVars
    BY Zenon, <1>7 DEF Callers, DecideConflict, StagingFails, ReloadFailed, DecideDone,
       RejectFails, Undone, CallerHangsUp
  <2> QED
    BY Zenon, <1>2, <2>1
<1>8. ASSUME NEW t \in Updaters, DecideBegin(t)
      PROVE  ~Open(r)'
  <2>1. t \in Callers /\ aim[t] \in Requests /\ UNCHANGED queueVars
    BY Zenon, <1>8 DEF DecideBegin, Calls, Callers
  <2>2. aim[t] # r
    BY <1>0, <1>8 DEF DecideBegin, Live
  <2>3. [requests EXCEPT ![aim[t]] = verdict[t]][r] \notin Live
    BY Zenon, <1>0, <2>2 DEF RequestTypeOK, Maps
  <2> QED
    BY Zenon, <1>3, <1>8, <2>1, <2>3 DEF DecideBegin
<1>9. ASSUME NEW t \in Updaters, ApproveFails(t)
      PROVE  ~Open(r)'
  <2>1. requests'[r] \notin Live /\ disk'[r] \notin Live
    BY Zenon, <1>0, <1>9 DEF ApproveFails, PersistFails, Callers
  <2>2. \A u \in Callers : rpc'[u] = "writing" => rpc[u] = "writing" /\ next'[u] = next[u]
    BY Zenon, <1>9 DEF ApproveFails, RequestTypeOK
  <2> QED
    BY Zenon, <1>1, <2>1, <2>2
<1>10. ASSUME NEW t \in Updaters,
              \/ \E q \in Requests, v \in {"approved", "rejected"} : DecideStart(t, q, v)
              \/ DecideCheck(t) \/ Stage(t) \/ Reload(t) \/ UpdateGoesOn(t)
       PROVE  ~Open(r)'
  <2>1. UNCHANGED queueVars
    BY Zenon, <1>10 DEF DecideStart, DecideCheck, Stage, Reload, UpdateGoesOn
  <2>2. \A u \in Callers : rpc'[u] = "writing" => rpc[u] = "writing" /\ next'[u] = next[u]
    BY Zenon, <1>10 DEF DecideStart, DecideCheck, Stage, Reload, UpdateGoesOn, callVars,
       RequestTypeOK
  <2> QED
    BY Zenon, <1>4, <2>1, <2>2
<1>11. ASSUME NEW t \in Handlers, Dns(t)
       PROVE  ~Open(r)'
  BY Zenon, <1>4, <1>11 DEF Dns, callVars
<1>12. ASSUME NEW m \in orphans, OrphanEnds(m)
       PROVE  ~Open(r)'
  BY Zenon, <1>12 DEF Durable
<1>13. CASE Environment
  BY Zenon, <1>4, <1>13 DEF Environment, callVars
<1>14. CASE DaemonRestart
  BY Zenon, <1>0, <1>1, <1>14 DEF DaemonRestart, Callers
<1>15. CASE UNCHANGED requestVars
  BY Zenon, <1>4, <1>15 DEF requestVars, callVars
<1> QED
  BY Zenon, <1>5, <1>6, <1>7, <1>8, <1>9, <1>10, <1>11, <1>12, <1>13, <1>14, <1>15 DEF
     RequestNext

\* A rule that is out of the policy stays out, unless its approval is cut short
\* or it is approved.
LEMMA OutStep ==
  ASSUME RequestTypeOK, Calls, UpdateInv, Linked, Copied, [RequestNext]_requestVars,
         NEW r \in Requests \ interrupted', Out(r)
  PROVE  Out(r)' \/ (Good(r)' /\ ~Open(r)')
<1>0. UpdateTypes /\ Locked /\ StagedIn
  BY Zenon DEF UpdateInv
<1>1. ASSUME UNCHANGED <<files, policy, updateVars>>
      PROVE  Out(r)'
  BY Zenon, <1>1 DEF Out, updateVars
<1>2. policyVars' = policyVars => Out(r)'
  BY Zenon, <1>1 DEF policyVars, updateVars
<1>3. ASSUME NEW t \in Updaters, pc[t] \in Busy, staged[t] = r
      PROVE  /\ rpc[t] # "idle" /\ aim[t] = r /\ verdict[t] = "approved"
             /\ r \in files => pc[t] \notin {"restore", "revoke"}
             /\ r \in policy => pc[t] \in {"done", "restore"}
  <2>1. \A u \in Updaters : pc[u] \in Busy => u = t
    BY Zenon, <1>0, <1>3 DEF Locked
  <2>2. {"done", "restore"} \subseteq Busy
    BY DEF Busy, Labels
  <2> QED
    BY Zenon, <1>3, <2>1, <2>2, StagedIsAim DEF Out
<1>4. ASSUME NEW t \in Updaters, StartUpdate(t)
      PROVE  Out(r)'
  <2>1. /\ pc'[t] = "update" /\ pc[t] = "idle" /\ \A u \in Updaters \ {t} : pc'[u] = pc[u]
        /\ UNCHANGED <<files, policy, staged, saved, prepared>>
    BY Zenon, <1>0, <1>4 DEF StartUpdate, Goto, UpdateTypes
  <2> QED
    BY Zenon, <2>1 DEF Out, Busy, Loaded, Labels
<1>5. ASSUME NEW t \in Updaters, NEW f, Begin(t, f)
      PROVE  Out(r)'
  <2>1. /\ pc'[t] = "prepare" /\ updateLock = NoTask
        /\ staged'[t] = f /\ saved'[t] = policy
        /\ UNCHANGED <<policy, prepared>>
        /\ \A u \in Updaters \ {t} : /\ pc'[u] = pc[u] /\ staged'[u] = staged[u]
                                     /\ saved'[u] = saved[u]
    BY Zenon, <1>0, <1>5 DEF Begin, Goto, UpdateTypes
  <2>2. r \in files' => r = f \/ r \in files
    BY Zenon, <1>5 DEF Begin
  <2>3. \A u \in Updaters : pc[u] \notin Busy
    BY Zenon, <1>0, <2>1, RequestAssumption DEF Locked, RequestAssumption, Callers
  <2>4. "prepare" \in Busy \ {"restore", "revoke"} /\ "prepare" \notin Loaded
        /\ Loaded \subseteq Busy /\ {"done", "restore"} \subseteq Busy
    BY DEF Busy, Labels, Loaded
  <2>5. r \notin files /\ r \notin policy
    BY Zenon, <2>3, <2>4 DEF Out
  <2> QED
    BY Zenon, <2>1, <2>2, <2>3, <2>4, <2>5 DEF Out
<1>6. ASSUME NEW t \in Updaters, HangUp(t), pc[t] \in Busy => staged[t] # r
      PROVE  Out(r)'
  BY Zenon, <1>6, OutReturn DEF HangUp
<1>7. ASSUME NEW t \in Updaters, Finish(t), pc[t] \in Busy => staged[t] # r
      PROVE  Out(r)'
  BY Zenon, <1>7, OutReturn DEF Finish
<1>8. ASSUME NEW t \in Agents,
             \/ \E q \in Requests : SubmitBegin(t, q)
             \/ SubmitDone(t) \/ SubmitFails(t)
      PROVE  Out(r)'
  BY Zenon, <1>2, <1>8 DEF SubmitBegin, SubmitDone, SubmitFails
<1>9. ASSUME NEW t \in Updaters,
             \/ \E q \in Requests, v \in {"approved", "rejected"} : DecideStart(t, q, v)
             \/ DecideCheck(t) \/ DecideConflict(t) \/ Stage(t) \/ DecideBegin(t)
             \/ RejectFails(t)
      PROVE  Out(r)'
  BY Zenon, <1>2, <1>4, <1>5, <1>9 DEF DecideStart, DecideCheck, DecideConflict, Stage,
     DecideBegin, RejectFails
<1>10. ASSUME NEW t \in Updaters, StagingFails(t)
       PROVE  Out(r)'
  <2>1. /\ UpdateReturn(t) /\ policy' = policy /\ pc[t] = "update"
        /\ files' \in {files, files \cup {aim[t]}}
    BY Zenon, <1>10 DEF StagingFails, StageFails
  <2>2. r \in files' => r # aim[t]
    BY Zenon, <1>10 DEF StagingFails
  <2>3. r \in files' => r \in files
    BY Zenon, <2>1, <2>2
  <2>4. pc[t] \notin Busy
    BY <2>1 DEF Busy
  <2> QED
    BY Zenon, <2>1, <2>3, <2>4, OutReturn
<1>11. ASSUME NEW t \in Updaters, ReloadFailed(t)
       PROVE  Out(r)'
  <2>1. /\ UpdateReturn(t) /\ policy' = policy /\ pc[t] = "failed"
        /\ files' \subseteq files
    BY Zenon, <1>11 DEF ReloadFailed, Finish
  <2>2. r \in files' => r # aim[t]
    BY Zenon, <1>11 DEF ReloadFailed
  <2>3. ASSUME pc[t] \in Busy, staged[t] = r
        PROVE  r \notin files' /\ r \notin policy
    BY Zenon, <1>3, <2>1, <2>2, <2>3
  <2> QED
    BY Zenon, <2>1, <2>3, OutReturn
<1>12. ASSUME NEW t \in Updaters, DecideDone(t)
       PROVE  Out(r)' \/ (Good(r)' /\ ~Open(r)')
  <2>1. CASE verdict[t] # "approved"
    BY Zenon, <1>2, <1>12, <2>1 DEF DecideDone
  <2>2. CASE verdict[t] = "approved" /\ ~(pc[t] \in Busy /\ staged[t] = r)
    BY Zenon, <1>7, <1>12, <2>2 DEF DecideDone
  <2>3. CASE verdict[t] = "approved" /\ pc[t] \in Busy /\ staged[t] = r
    <3>1. /\ rpc[t] = "writing" /\ requests' = next[t] /\ disk' = next[t]
          /\ CallReturn(t) /\ Finish(t) /\ t \in Callers
      BY Zenon, <1>12, <2>3 DEF DecideDone, Persisted, Callers
    <3>2. aim[t] = r /\ next[t][r] = "approved" /\ pc[t] = "done"
      BY Zenon, <1>3, <2>3, <3>1 DEF Copied, Linked, Link
    <3>3. \A u \in Callers : rpc'[u] # "writing"
      BY Zenon, <3>1, RequestAssumption DEF CallReturn, Calls, RequestTypeOK, RequestAssumption
    <3>4. ~Open(r)'
      BY <3>1, <3>2, <3>3 DEF Open, Live
    <3>5. UpdateReturn(t) /\ UNCHANGED <<files, policy>>
      BY Zenon, <3>1, <3>2 DEF Finish
    <3>6. r \in files /\ r \in policy
      BY Zenon, <1>0, <2>3, <3>2, RequestAssumption DEF StagedIn, RequestAssumption
    <3>7. \A u \in Updaters : pc'[u] \notin Busy
      BY Zenon, <1>0, <2>3, <3>5 DEF UpdateReturn, Goto, UpdateTypes,
         Locked,
         Busy
    <3>8. Good(r)'
      BY Zenon, <3>5, <3>6, <3>7 DEF Good, Busy, Loaded, Labels
    <3> QED
      BY Zenon, <3>4, <3>8
  <2> QED
    BY Zenon, <2>1, <2>2, <2>3
<1>13. ASSUME NEW t \in Updaters, ApproveFails(t)
       PROVE  Out(r)'
  <2>1. /\ Goto(t, "restore") /\ pc[t] = "done" /\ UNCHANGED <<staged, saved>>
        /\ prepared' = prepared /\ policy' = policy /\ files' \subseteq files
    BY Zenon, <1>13 DEF ApproveFails, Undo
  <2>2. r \in files' => r # aim[t]
    BY Zenon, <1>13 DEF ApproveFails
  <2>3. pc[t] \in Busy /\ "restore" \in Busy /\ "restore" \notin Loaded
    BY <2>1 DEF Busy, Labels, Loaded
  <2>4. staged[t] = r => r \notin files'
    BY Zenon, <1>3, <2>2, <2>3
  <2> QED
    BY Zenon, <2>1, <2>3, <2>4, OutGoesOn
<1>14. ASSUME NEW t \in Updaters, Undone(t)
       PROVE  Out(r)'
  <2>1. /\ UpdateReturn(t) /\ UNCHANGED <<files, policy>> /\ pc[t] = "revoke"
    BY Zenon, <1>14 DEF Undone, Revoke, RevokeFails
  <2>2. ASSUME pc[t] \in Busy, staged[t] = r
        PROVE  r \notin files' /\ r \notin policy
    BY Zenon, <1>3, <2>1, <2>2
  <2> QED
    BY Zenon, <2>1, <2>2, OutReturn
<1>15. ASSUME NEW t \in Updaters, CallerHangsUp(t)
       PROVE  Out(r)'
  <2>1. pc[t] \in Busy => aim[t] # r
    BY Zenon, <1>15 DEF CallerHangsUp, Busy
  <2>2. pc[t] \in Busy => staged[t] # r
    BY Zenon, <1>3, <2>1
  <2> QED
    BY Zenon, <1>2, <1>6, <1>15, <2>2 DEF CallerHangsUp
<1>16. ASSUME NEW t \in Updaters, Reload(t)
       PROVE  Out(r)'
  <2>1. pc[t] \in Busy => staged[t] # r
    BY Zenon, <1>3, <1>16 DEF Reload
  <2> QED
    BY Zenon, <1>4, <1>5, <1>6, <1>7, <1>16, <2>1 DEF Reload
<1>17. ASSUME NEW t \in Updaters, UpdateGoesOn(t)
       PROVE  Out(r)'
  <2>1. CASE Prepare(t)
    BY Zenon, <1>0, <2>1, OutGoesOn DEF Prepare, UpdateTypes, Busy, Loaded,
       Labels
  <2>2. CASE PrepareFails(t)
    BY Zenon, <2>2, OutGoesOn DEF PrepareFails, Busy, Loaded, Labels
  <2>3. CASE Barrier(t)
    BY Zenon, <2>3, OutGoesOn DEF Barrier, Busy, Loaded, Labels
  <2>4. CASE Flush(t)
    BY Zenon, <2>4, OutGoesOn DEF Flush, Busy, Loaded, Labels
  <2>5. CASE FlushFails(t)
    BY Zenon, <2>5, OutGoesOn DEF FlushFails, Busy, Loaded, Labels
  <2>6. CASE Commit(t)
    BY Zenon, <2>6, OutGoesOn DEF Commit, Busy, Loaded, Labels
  <2>7. CASE Restore(t)
    <3>1. pc[t] = "restore" /\ pc[t] \in Busy
      BY <2>7 DEF Restore, Busy, Labels
    <3>2. staged[t] = r => r \notin files
      BY Zenon, <1>3, <3>1
    <3> QED
      BY Zenon, <2>7, <3>1, <3>2, OutGoesOn DEF Restore, Busy, Loaded, Labels
  <2> QED
    BY Zenon, <1>17, <2>1, <2>2, <2>3, <2>4, <2>5, <2>6, <2>7 DEF UpdateGoesOn
<1>18. ASSUME NEW t \in Handlers, Dns(t)
       PROVE  Out(r)'
  BY Zenon, <1>1, <1>18 DEF Dns, DnsLease, DnsStep, DnsAllowed,
     DnsAnswer, DnsGrant, DnsDone
<1>19. ASSUME NEW m \in orphans, OrphanEnds(m)
       PROVE  Out(r)'
  BY Zenon, <1>2, <1>19 DEF OrphanEnds
<1>20. CASE Environment
  BY Zenon, <1>1, <1>20 DEF Environment, Expire
<1>21. CASE DaemonRestart
  <2>1. r \notin files
    <3> SUFFICES ASSUME r \in files PROVE FALSE
      OBVIOUS
    <3>1. PICK t \in Updaters : pc[t] \in Busy /\ staged[t] = r
      BY Zenon DEF Out
    <3>2. aim[t] = r
      BY Zenon, <1>3, <3>1
    <3> QED
      BY Zenon, <1>21, <3>2 DEF DaemonRestart
  <2>2. \A t \in Updaters : pc'[t] = "idle"
    BY Zenon, <1>21 DEF DaemonRestart, Restart
  <2> QED
    BY Zenon, <1>21, <2>1, <2>2 DEF DaemonRestart, Restart, Out, Busy, Loaded
<1>22. CASE UNCHANGED requestVars
  BY Zenon, <1>2, <1>22 DEF requestVars
<1> QED
  BY Zenon, <1>8, <1>9, <1>10, <1>11, <1>12, <1>13, <1>14, <1>15, <1>16, <1>17, <1>18,
     <1>19, <1>20, <1>21, <1>22 DEF RequestNext

\* An approval that was cut short stays so, and so does a write that outlived
\* its call.
LEMMA InterruptedStays ==
  ASSUME RequestTypeOK, [RequestNext]_requestVars
  PROVE  interrupted \subseteq interrupted' /\ (orphaned' = 0 => orphaned = 0)
<1>1. interrupted \subseteq interrupted'
  BY Zenon DEF RequestNext, requestVars, historyVars, SubmitBegin, SubmitDone, SubmitFails,
     DecideStart,
     DecideCheck, DecideConflict, Stage, StagingFails, ReloadFailed, DecideBegin, DecideDone,
     RejectFails, ApproveFails, Undone, CallerHangsUp, Reload, UpdateGoesOn, Dns, OrphanEnds,
     Environment, DaemonRestart
<1>2. orphaned' \in {orphaned, orphaned + 1}
  BY Zenon DEF RequestNext, requestVars, queueVars, SubmitBegin, SubmitDone, SubmitFails, DecideStart,
     DecideCheck, DecideConflict, Stage, StagingFails, ReloadFailed, DecideBegin, DecideDone,
     RejectFails, ApproveFails, Undone, CallerHangsUp, Reload, UpdateGoesOn, Dns, OrphanEnds,
     Environment, DaemonRestart, Persisted, PersistFails, Orphan
<1>3. orphaned \in Nat
  BY RequestAssumption DEF RequestTypeOK, RequestAssumption
<1> QED
  BY <1>1, <1>2, <1>3

\* Every step keeps the requests settled.
LEMMA SettledStep ==
  ASSUME RequestTypeOK, Calls, Durable, UpdateInv, Linked, Copied, Settled, [RequestNext]_requestVars
  PROVE  Settled'
<1> SUFFICES ASSUME orphaned' = 0, NEW r \in Requests \ interrupted'
             PROVE  Out(r)' \/ (Good(r)' /\ ~Open(r)')
  BY Zenon DEF Settled
<1>1. orphaned = 0 /\ r \notin interrupted
  BY Zenon, InterruptedStays
<1>2. Out(r) \/ (Good(r) /\ ~Open(r))
  BY Zenon, <1>1 DEF Settled
<1>3. CASE Good(r) /\ ~Open(r)
  <2>1. PolicyMoves \/ UNCHANGED vars
    BY Zenon, PolicyMove DEF AimOK, RequestTypeOK
  <2>2. Good(r)'
    BY Zenon, <1>3, <2>1, MovesKeep
  <2>3. r \in files /\ r \in Requests
    BY Zenon, <1>3 DEF Good
  <2>4. ~Open(r)'
    BY Zenon, <1>1, <1>3, <2>3, ClosedStep
  <2> QED
    BY Zenon, <2>2, <2>4
<1> QED
  BY Zenon, <1>2, <1>3, OutStep

\* Every request is out of the policy, or in force for good and nowhere open,
\* unless its approval was cut short or a write of the queue outlived its call.
THEOREM SettledInvariant == RequestSpec => []Settled
<1>1. RequestInit => Settled
  <2> SUFFICES ASSUME RequestInit, NEW r \in Requests PROVE Out(r)
    BY Zenon DEF Settled
  <2>1. r \notin files /\ policy = files /\ \A t \in Updaters : pc[t] = "idle"
    BY Zenon DEF RequestInit, Init
  <2> QED
    BY Zenon, <2>1 DEF Out, Busy, Loaded
<1>2. /\ RequestTypeOK /\ Calls /\ Durable /\ UpdateInv /\ Linked /\ Copied /\ Settled
      /\ [RequestNext]_requestVars
      => Settled'
  BY Zenon, SettledStep
<1> QED
  BY <1>1, <1>2, CallsInvariant, QueueInvariant, ForceInvariant, PTL DEF RequestSpec

\* The rule of a rejected request is neither in force nor staged while no update
\* is in progress, unless an approval of it was cut short or not cleaned up.
THEOREM RejectedAreNotInForce == RequestSpec => []RejectedNotInForce
<1>1. UpdateInv /\ Settled => RejectedNotInForce
  <2> SUFFICES ASSUME UpdateInv, Settled, updateLock = NoTask, orphaned = 0,
                      NEW r \in Requests \ interrupted, requests[r] = "rejected"
               PROVE  r \notin policy \cup files
    BY Zenon DEF RejectedNotInForce
  <2>1. \A t \in Updaters : pc[t] \notin Busy
    BY Zenon, RequestAssumption DEF UpdateInv, Locked, RequestAssumption, Callers
  <2>2. Open(r)
    BY DEF Open, Live
  <2>3. Out(r)
    BY Zenon, <2>2 DEF Settled
  <2> QED
    BY Zenon, <2>1, <2>3 DEF Out, Busy, Labels
<1> QED
  BY <1>1, ForceInvariant, SettledInvariant, PTL

-----------------------------------------------------------------------------
(* Policy updates.  Nothing below is about the queue of requests.          *)

\* Every step keeps the state well formed.
LEMMA TypeStep ==
  TypeOK /\ [Next]_vars => TypeOK'
<1> SUFFICES ASSUME TypeOK, [Next]_vars PROVE TypeOK'
  OBVIOUS
<1> USE PolicyAssumption
    DEF TypeOK, Policies, updateVars, barrierVars, dnsVars, derivedVars
<1>1. ASSUME NEW t \in Updaters, StartUpdate(t)
      PROVE  TypeOK'
  BY Zenon, <1>1 DEF StartUpdate, Goto
<1>2. ASSUME NEW t \in Updaters, NEW f \in Files \cup {NoFile}, Begin(t, f)
      PROVE  TypeOK'
  BY Zenon, <1>2 DEF Begin, Goto
<1>3. ASSUME NEW t \in Updaters, NEW f \in Files, StageFails(t, f)
      PROVE  TypeOK'
  BY <1>3 DEF StageFails, UpdateReturn, Goto, Fault
<1>4. ASSUME NEW t \in Updaters, Prepare(t)
      PROVE  TypeOK'
  BY Zenon, <1>4 DEF Prepare, Goto
<1>5. ASSUME NEW t \in Updaters, PrepareFails(t)
      PROVE  TypeOK'
  BY <1>5 DEF PrepareFails, Goto, Fault
<1>6. ASSUME NEW t \in Updaters, Barrier(t)
      PROVE  TypeOK'
  BY Zenon, <1>6 DEF Barrier, Goto
<1>7. ASSUME NEW t \in Updaters, Flush(t)
      PROVE  TypeOK'
  BY Zenon, <1>7 DEF Flush, Goto
<1>8. ASSUME NEW t \in Updaters, FlushFails(t)
      PROVE  TypeOK'
  BY <1>8 DEF FlushFails, Goto, Release, Fault
<1>9. ASSUME NEW t \in Updaters, Commit(t)
      PROVE  TypeOK'
  BY Zenon, <1>9 DEF Commit, Goto, Release
<1>10. ASSUME NEW t \in Updaters, Finish(t)
      PROVE  TypeOK'
  BY <1>10 DEF Finish, UpdateReturn, Goto, Fault
<1>11. ASSUME NEW t \in Updaters, Undo(t)
      PROVE  TypeOK'
  BY <1>11 DEF Undo, Goto, Fault
<1>12. ASSUME NEW t \in Updaters, Restore(t)
      PROVE  TypeOK'
  BY Zenon, <1>12 DEF Restore, Goto
<1>13. ASSUME NEW t \in Updaters, Revoke(t)
      PROVE  TypeOK'
  BY Zenon, <1>13 DEF Revoke, UpdateReturn, Goto, Release
<1>14. ASSUME NEW t \in Updaters, RevokeFails(t)
      PROVE  TypeOK'
  BY <1>14 DEF RevokeFails, UpdateReturn, Goto, Release, Fault
<1>15. ASSUME NEW t \in Updaters, HangUp(t)
      PROVE  TypeOK'
  BY <1>15 DEF HangUp, UpdateReturn, Goto, Release, Fault
<1>16. ASSUME NEW t \in Handlers, DnsLease(t)
      PROVE  TypeOK'
  BY Zenon, <1>16 DEF DnsLease
<1>17. ASSUME NEW t \in Handlers, DnsAllowed(t)
      PROVE  TypeOK'
  BY Zenon, <1>17 DEF DnsAllowed
<1>18. ASSUME NEW t \in Handlers, DnsAnswer(t)
      PROVE  TypeOK'
  BY <1>18 DEF DnsAnswer
<1>19. ASSUME NEW t \in Handlers, DnsGrant(t)
      PROVE  TypeOK'
  BY <1>19 DEF DnsGrant
<1>20. ASSUME NEW t \in Handlers, DnsDone(t)
      PROVE  TypeOK'
  BY Zenon, <1>20 DEF DnsDone
<1>21. ASSUME Expire
      PROVE  TypeOK'
  BY Zenon, <1>21 DEF Expire
<1>22. ASSUME NEW f \in Files, EditFiles(f)
      PROVE  TypeOK'
  BY <1>22 DEF EditFiles
<1>23. ASSUME Restart
      PROVE  TypeOK'
  <2>1. /\ files' \in Policies /\ policy' \in Policies
        /\ faults' \in Nat /\ edits' \in Nat
    BY <1>23 DEF Restart, Fault
  <2>2. /\ saved' \in [Updaters -> Policies] /\ prepared' \in [Updaters -> Policies]
        /\ basis' \in [Handlers -> Policies]
    BY Zenon, <1>23 DEF Restart
  <2>3. /\ updateLock' \in Updaters \cup {NoTask} /\ writer' \in Updaters \cup {NoTask}
        /\ staged' \in [Updaters -> Files \cup {NoFile}]
        /\ readers' \subseteq Handlers
        /\ grants' \subseteq Policies /\ cache' \subseteq Policies
        /\ unrevoked' \in BOOLEAN
    BY Zenon, <1>23 DEF Restart
  <2>4. /\ pc' \in [Updaters -> {"idle", "update", "prepare", "barrier", "flush",
                               "commit", "done", "failed", "restore", "revoke"}]
        /\ dpc' \in [Handlers -> {"idle", "leased", "resolve", "grant"}]
    BY Zenon, <1>23 DEF Restart
  <2> QED
    BY Zenon, <2>1, <2>2, <2>3, <2>4
<1>24. CASE UNCHANGED vars
  BY Zenon, <1>24 DEF vars
<1> QED
  BY Zenon, <1>1, <1>2, <1>3, <1>4, <1>5, <1>6, <1>7, <1>8, <1>9, <1>10,
     <1>11, <1>12, <1>13, <1>14, <1>15, <1>16, <1>17, <1>18, <1>19, <1>20,
     <1>21, <1>22, <1>23, <1>24
     DEF Next, BeginUpdate, UpdateStep, DnsStep

\* Every step keeps the locks with the tasks that are to hold them.
LEMMA LocksStep ==
  TypeOK /\ LocksHeld /\ [Next]_vars => LocksHeld'
<1> SUFFICES ASSUME TypeOK /\ LocksHeld, [Next]_vars PROVE LocksHeld'
  OBVIOUS
<1> USE PolicyAssumption
    DEF TypeOK, LocksHeld, Updating, Behind, updateVars, barrierVars, dnsVars,
     derivedVars
<1>1. ASSUME NEW t \in Updaters, StartUpdate(t)
      PROVE  LocksHeld'
  BY Zenon, <1>1 DEF StartUpdate, Goto
<1>2. ASSUME NEW t \in Updaters, NEW f \in Files \cup {NoFile}, Begin(t, f)
      PROVE  LocksHeld'
  BY Zenon, <1>2 DEF Begin, Goto
<1>3. ASSUME NEW t \in Updaters, NEW f \in Files, StageFails(t, f)
      PROVE  LocksHeld'
  BY Zenon, <1>3 DEF StageFails, UpdateReturn, Goto, Fault
<1>4. ASSUME NEW t \in Updaters, Prepare(t)
      PROVE  LocksHeld'
  BY Zenon, <1>4 DEF Prepare, Goto
<1>5. ASSUME NEW t \in Updaters, PrepareFails(t)
      PROVE  LocksHeld'
  BY Zenon, <1>5 DEF PrepareFails, Goto, Fault
<1>6. ASSUME NEW t \in Updaters, Barrier(t)
      PROVE  LocksHeld'
  BY Zenon, <1>6 DEF Barrier, Goto
<1>7. ASSUME NEW t \in Updaters, Flush(t)
      PROVE  LocksHeld'
  BY Zenon, <1>7 DEF Flush, Goto
<1>8. ASSUME NEW t \in Updaters, FlushFails(t)
      PROVE  LocksHeld'
  BY Zenon, <1>8 DEF FlushFails, Goto, Release, Fault
<1>9. ASSUME NEW t \in Updaters, Commit(t)
      PROVE  LocksHeld'
  BY Zenon, <1>9 DEF Commit, Goto, Release
<1>10. ASSUME NEW t \in Updaters, Finish(t)
      PROVE  LocksHeld'
  BY <1>10 DEF Finish, UpdateReturn, Goto, Fault
<1>11. ASSUME NEW t \in Updaters, Undo(t)
      PROVE  LocksHeld'
  BY Zenon, <1>11 DEF Undo, Goto, Fault
<1>12. ASSUME NEW t \in Updaters, Restore(t)
      PROVE  LocksHeld'
  BY Zenon, <1>12 DEF Restore, Goto
<1>13. ASSUME NEW t \in Updaters, Revoke(t)
      PROVE  LocksHeld'
  BY <1>13 DEF Revoke, UpdateReturn, Goto, Release
<1>14. ASSUME NEW t \in Updaters, RevokeFails(t)
      PROVE  LocksHeld'
  BY <1>14 DEF RevokeFails, UpdateReturn, Goto, Release, Fault
<1>15. ASSUME NEW t \in Updaters, HangUp(t)
      PROVE  LocksHeld'
  BY <1>15 DEF HangUp, UpdateReturn, Goto, Release, Fault
<1>16. ASSUME NEW t \in Handlers, DnsLease(t)
      PROVE  LocksHeld'
  BY Zenon, <1>16 DEF DnsLease
<1>17. ASSUME NEW t \in Handlers, DnsAllowed(t)
      PROVE  LocksHeld'
  BY Zenon, <1>17 DEF DnsAllowed
<1>18. ASSUME NEW t \in Handlers, DnsAnswer(t)
      PROVE  LocksHeld'
  BY Zenon, <1>18 DEF DnsAnswer
<1>19. ASSUME NEW t \in Handlers, DnsGrant(t)
      PROVE  LocksHeld'
  BY Zenon, <1>19 DEF DnsGrant
<1>20. ASSUME NEW t \in Handlers, DnsDone(t)
      PROVE  LocksHeld'
  BY Zenon, <1>20 DEF DnsDone
<1>21. ASSUME Expire
      PROVE  LocksHeld'
  BY Zenon, <1>21 DEF Expire
<1>22. ASSUME NEW f \in Files, EditFiles(f)
      PROVE  LocksHeld'
  BY Zenon, <1>22 DEF EditFiles
<1>23. ASSUME Restart
      PROVE  LocksHeld'
  BY Zenon, <1>23 DEF Restart, Fault
<1>24. CASE UNCHANGED vars
  BY Zenon, <1>24 DEF vars
<1> QED
  BY Zenon, <1>1, <1>2, <1>3, <1>4, <1>5, <1>6, <1>7, <1>8, <1>9, <1>10,
     <1>11, <1>12, <1>13, <1>14, <1>15, <1>16, <1>17, <1>18, <1>19, <1>20,
     <1>21, <1>22, <1>23, <1>24
     DEF Next, BeginUpdate, UpdateStep, DnsStep

\* The policy of a request in progress stays the live one.
LEMMA BasisLiveStep ==
  IInv /\ [Next]_vars => BasisLive'
<1> SUFFICES ASSUME IInv, [Next]_vars PROVE BasisLive'
  OBVIOUS
<1> USE PolicyAssumption
    DEF IInv, TypeOK, LocksHeld, BasisLive, Updating, Behind, updateVars,
     barrierVars, dnsVars, derivedVars
<1>1. ASSUME NEW t \in Updaters, StartUpdate(t)
      PROVE  BasisLive'
  BY Zenon, <1>1 DEF StartUpdate, Goto
<1>2. ASSUME NEW t \in Updaters, NEW f \in Files \cup {NoFile}, Begin(t, f)
      PROVE  BasisLive'
  BY Zenon, <1>2 DEF Begin, Goto
<1>3. ASSUME NEW t \in Updaters, NEW f \in Files, StageFails(t, f)
      PROVE  BasisLive'
  BY Zenon, <1>3 DEF StageFails, UpdateReturn, Goto, Fault
<1>4. ASSUME NEW t \in Updaters, Prepare(t)
      PROVE  BasisLive'
  BY Zenon, <1>4 DEF Prepare, Goto
<1>5. ASSUME NEW t \in Updaters, PrepareFails(t)
      PROVE  BasisLive'
  BY Zenon, <1>5 DEF PrepareFails, Goto, Fault
<1>6. ASSUME NEW t \in Updaters, Barrier(t)
      PROVE  BasisLive'
  BY Zenon, <1>6 DEF Barrier, Goto
<1>7. ASSUME NEW t \in Updaters, Flush(t)
      PROVE  BasisLive'
  BY Zenon, <1>7 DEF Flush, Goto
<1>8. ASSUME NEW t \in Updaters, FlushFails(t)
      PROVE  BasisLive'
  BY Zenon, <1>8 DEF FlushFails, Goto, Release, Fault
<1>9. ASSUME NEW t \in Updaters, Commit(t)
      PROVE  BasisLive'
  BY <1>9 DEF Commit, Goto, Release
<1>10. ASSUME NEW t \in Updaters, Finish(t)
      PROVE  BasisLive'
  BY Zenon, <1>10 DEF Finish, UpdateReturn, Goto, Fault
<1>11. ASSUME NEW t \in Updaters, Undo(t)
      PROVE  BasisLive'
  BY Zenon, <1>11 DEF Undo, Goto, Fault
<1>12. ASSUME NEW t \in Updaters, Restore(t)
      PROVE  BasisLive'
  BY Zenon, <1>12 DEF Restore, Goto
<1>13. ASSUME NEW t \in Updaters, Revoke(t)
      PROVE  BasisLive'
  BY Zenon, <1>13 DEF Revoke, UpdateReturn, Goto, Release
<1>14. ASSUME NEW t \in Updaters, RevokeFails(t)
      PROVE  BasisLive'
  BY Zenon, <1>14 DEF RevokeFails, UpdateReturn, Goto, Release, Fault
<1>15. ASSUME NEW t \in Updaters, HangUp(t)
      PROVE  BasisLive'
  BY Zenon, <1>15 DEF HangUp, UpdateReturn, Goto, Release, Fault
<1>16. ASSUME NEW t \in Handlers, DnsLease(t)
      PROVE  BasisLive'
  BY Zenon, <1>16 DEF DnsLease
<1>17. ASSUME NEW t \in Handlers, DnsAllowed(t)
      PROVE  BasisLive'
  BY Zenon, <1>17 DEF DnsAllowed
<1>18. ASSUME NEW t \in Handlers, DnsAnswer(t)
      PROVE  BasisLive'
  BY Zenon, <1>18 DEF DnsAnswer
<1>19. ASSUME NEW t \in Handlers, DnsGrant(t)
      PROVE  BasisLive'
  BY Zenon, <1>19 DEF DnsGrant
<1>20. ASSUME NEW t \in Handlers, DnsDone(t)
      PROVE  BasisLive'
  BY Zenon, <1>20 DEF DnsDone
<1>21. ASSUME Expire
      PROVE  BasisLive'
  BY Zenon, <1>21 DEF Expire
<1>22. ASSUME NEW f \in Files, EditFiles(f)
      PROVE  BasisLive'
  BY Zenon, <1>22 DEF EditFiles
<1>23. ASSUME Restart
      PROVE  BasisLive'
  BY Zenon, <1>23 DEF Restart, Fault
<1>24. CASE UNCHANGED vars
  BY Zenon, <1>24 DEF vars
<1> QED
  BY Zenon, <1>1, <1>2, <1>3, <1>4, <1>5, <1>6, <1>7, <1>8, <1>9, <1>10, <1>11, <1>12,
     <1>13, <1>14, <1>15, <1>16, <1>17, <1>18, <1>19, <1>20, <1>21, <1>22, <1>23,
     <1>24
     DEF Next, BeginUpdate, UpdateStep, DnsStep

\* Nothing is granted between a flush and its commit.
LEMMA FlushedStep ==
  IInv /\ [Next]_vars => Flushed'
<1> SUFFICES ASSUME IInv, [Next]_vars PROVE Flushed'
  OBVIOUS
<1> USE PolicyAssumption
    DEF IInv, TypeOK, LocksHeld, Flushed, Updating, Behind, updateVars,
     barrierVars, dnsVars, derivedVars
<1>1. ASSUME NEW t \in Updaters, StartUpdate(t)
      PROVE  Flushed'
  BY Zenon, <1>1 DEF StartUpdate, Goto
<1>2. ASSUME NEW t \in Updaters, NEW f \in Files \cup {NoFile}, Begin(t, f)
      PROVE  Flushed'
  BY Zenon, <1>2 DEF Begin, Goto
<1>3. ASSUME NEW t \in Updaters, NEW f \in Files, StageFails(t, f)
      PROVE  Flushed'
  BY Zenon, <1>3 DEF StageFails, UpdateReturn, Goto, Fault
<1>4. ASSUME NEW t \in Updaters, Prepare(t)
      PROVE  Flushed'
  BY Zenon, <1>4 DEF Prepare, Goto
<1>5. ASSUME NEW t \in Updaters, PrepareFails(t)
      PROVE  Flushed'
  BY Zenon, <1>5 DEF PrepareFails, Goto, Fault
<1>6. ASSUME NEW t \in Updaters, Barrier(t)
      PROVE  Flushed'
  BY Zenon, <1>6 DEF Barrier, Goto
<1>7. ASSUME NEW t \in Updaters, Flush(t)
      PROVE  Flushed'
  BY Zenon, <1>7 DEF Flush, Goto
<1>8. ASSUME NEW t \in Updaters, FlushFails(t)
      PROVE  Flushed'
  BY Zenon, <1>8 DEF FlushFails, Goto, Release, Fault
<1>9. ASSUME NEW t \in Updaters, Commit(t)
      PROVE  Flushed'
  BY Zenon, <1>9 DEF Commit, Goto, Release
<1>10. ASSUME NEW t \in Updaters, Finish(t)
      PROVE  Flushed'
  BY Zenon, <1>10 DEF Finish, UpdateReturn, Goto, Fault
<1>11. ASSUME NEW t \in Updaters, Undo(t)
      PROVE  Flushed'
  BY Zenon, <1>11 DEF Undo, Goto, Fault
<1>12. ASSUME NEW t \in Updaters, Restore(t)
      PROVE  Flushed'
  BY Zenon, <1>12 DEF Restore, Goto
<1>13. ASSUME NEW t \in Updaters, Revoke(t)
      PROVE  Flushed'
  BY Zenon, <1>13 DEF Revoke, UpdateReturn, Goto, Release
<1>14. ASSUME NEW t \in Updaters, RevokeFails(t)
      PROVE  Flushed'
  BY Zenon, <1>14 DEF RevokeFails, UpdateReturn, Goto, Release, Fault
<1>15. ASSUME NEW t \in Updaters, HangUp(t)
      PROVE  Flushed'
  BY Zenon, <1>15 DEF HangUp, UpdateReturn, Goto, Release, Fault
<1>16. ASSUME NEW t \in Handlers, DnsLease(t)
      PROVE  Flushed'
  BY Zenon, <1>16 DEF DnsLease
<1>17. ASSUME NEW t \in Handlers, DnsAllowed(t)
      PROVE  Flushed'
  BY Zenon, <1>17 DEF DnsAllowed
<1>18. ASSUME NEW t \in Handlers, DnsAnswer(t)
      PROVE  Flushed'
  BY Zenon, <1>18 DEF DnsAnswer
<1>19. ASSUME NEW t \in Handlers, DnsGrant(t)
      PROVE  Flushed'
  BY <1>19 DEF DnsGrant
<1>20. ASSUME NEW t \in Handlers, DnsDone(t)
      PROVE  Flushed'
  BY Zenon, <1>20 DEF DnsDone
<1>21. ASSUME Expire
      PROVE  Flushed'
  BY Zenon, <1>21 DEF Expire
<1>22. ASSUME NEW f \in Files, EditFiles(f)
      PROVE  Flushed'
  BY Zenon, <1>22 DEF EditFiles
<1>23. ASSUME Restart
      PROVE  Flushed'
  BY Zenon, <1>23 DEF Restart, Fault
<1>24. CASE UNCHANGED vars
  BY Zenon, <1>24 DEF vars
<1> QED
  BY Zenon, <1>1, <1>2, <1>3, <1>4, <1>5, <1>6, <1>7, <1>8, <1>9, <1>10,
     <1>11, <1>12, <1>13, <1>14, <1>15, <1>16, <1>17, <1>18, <1>19, <1>20,
     <1>21, <1>22, <1>23, <1>24
     DEF Next, BeginUpdate, UpdateStep, DnsStep

\* What is derived stays derived from the live policy.
LEMMA DerivedStep ==
  IInv /\ [Next]_vars => Derived'
<1> SUFFICES ASSUME IInv, [Next]_vars PROVE Derived'
  OBVIOUS
<1> USE PolicyAssumption
    DEF IInv, TypeOK, LocksHeld, Derived, Updating, Behind, updateVars,
     barrierVars, dnsVars, derivedVars, Flushed, BasisLive
<1>1. ASSUME NEW t \in Updaters, StartUpdate(t)
      PROVE  Derived'
  BY Zenon, <1>1 DEF StartUpdate, Goto
<1>2. ASSUME NEW t \in Updaters, NEW f \in Files \cup {NoFile}, Begin(t, f)
      PROVE  Derived'
  BY Zenon, <1>2 DEF Begin, Goto
<1>3. ASSUME NEW t \in Updaters, NEW f \in Files, StageFails(t, f)
      PROVE  Derived'
  BY Zenon, <1>3 DEF StageFails, UpdateReturn, Goto, Fault
<1>4. ASSUME NEW t \in Updaters, Prepare(t)
      PROVE  Derived'
  BY Zenon, <1>4 DEF Prepare, Goto
<1>5. ASSUME NEW t \in Updaters, PrepareFails(t)
      PROVE  Derived'
  BY Zenon, <1>5 DEF PrepareFails, Goto, Fault
<1>6. ASSUME NEW t \in Updaters, Barrier(t)
      PROVE  Derived'
  BY Zenon, <1>6 DEF Barrier, Goto
<1>7. ASSUME NEW t \in Updaters, Flush(t)
      PROVE  Derived'
  BY Zenon, <1>7 DEF Flush, Goto
<1>8. ASSUME NEW t \in Updaters, FlushFails(t)
      PROVE  Derived'
  BY Zenon, <1>8 DEF FlushFails, Goto, Release, Fault
<1>9. ASSUME NEW t \in Updaters, Commit(t)
      PROVE  Derived'
  BY Zenon, <1>9 DEF Commit, Goto, Release
<1>10. ASSUME NEW t \in Updaters, Finish(t)
      PROVE  Derived'
  BY Zenon, <1>10 DEF Finish, UpdateReturn, Goto, Fault
<1>11. ASSUME NEW t \in Updaters, Undo(t)
      PROVE  Derived'
  BY Zenon, <1>11 DEF Undo, Goto, Fault
<1>12. ASSUME NEW t \in Updaters, Restore(t)
      PROVE  Derived'
  BY Zenon, <1>12 DEF Restore, Goto
<1>13. ASSUME NEW t \in Updaters, Revoke(t)
      PROVE  Derived'
  BY Zenon, <1>13 DEF Revoke, UpdateReturn, Goto, Release
<1>14. ASSUME NEW t \in Updaters, RevokeFails(t)
      PROVE  Derived'
  BY Zenon, <1>14 DEF RevokeFails, UpdateReturn, Goto, Release, Fault
<1>15. ASSUME NEW t \in Updaters, HangUp(t)
      PROVE  Derived'
  BY ZenonT(30), <1>15 DEF HangUp, UpdateReturn, Goto, Release, Fault
<1>16. ASSUME NEW t \in Handlers, DnsLease(t)
      PROVE  Derived'
  BY Zenon, <1>16 DEF DnsLease
<1>17. ASSUME NEW t \in Handlers, DnsAllowed(t)
      PROVE  Derived'
  BY Zenon, <1>17 DEF DnsAllowed
<1>18. ASSUME NEW t \in Handlers, DnsAnswer(t)
      PROVE  Derived'
  BY Zenon, <1>18 DEF DnsAnswer
<1>19. ASSUME NEW t \in Handlers, DnsGrant(t)
      PROVE  Derived'
  BY Zenon, <1>19 DEF DnsGrant
<1>20. ASSUME NEW t \in Handlers, DnsDone(t)
      PROVE  Derived'
  BY Zenon, <1>20 DEF DnsDone
<1>21. ASSUME Expire
      PROVE  Derived'
  BY Zenon, <1>21 DEF Expire
<1>22. ASSUME NEW f \in Files, EditFiles(f)
      PROVE  Derived'
  BY Zenon, <1>22 DEF EditFiles
<1>23. ASSUME Restart
      PROVE  Derived'
  BY Zenon, <1>23 DEF Restart, Fault
<1>24. CASE UNCHANGED vars
  BY Zenon, <1>24 DEF vars
<1> QED
  BY Zenon, <1>1, <1>2, <1>3, <1>4, <1>5, <1>6, <1>7, <1>8, <1>9, <1>10,
     <1>11, <1>12, <1>13, <1>14, <1>15, <1>16, <1>17, <1>18, <1>19, <1>20,
     <1>21, <1>22, <1>23, <1>24
     DEF Next, BeginUpdate, UpdateStep, DnsStep

\* Only the update that holds policy_update replaces the policy.
LEMMA PreviousRulesRemainStep ==
  IInv /\ [Next]_vars => PreviousRulesRemain'
<1> SUFFICES ASSUME IInv, [Next]_vars PROVE PreviousRulesRemain'
  OBVIOUS
<1> USE PolicyAssumption
    DEF IInv, TypeOK, LocksHeld, PreviousRulesRemain, Updating, Behind,
     updateVars, barrierVars, dnsVars, derivedVars
<1>1. ASSUME NEW t \in Updaters, StartUpdate(t)
      PROVE  PreviousRulesRemain'
  BY Zenon, <1>1 DEF StartUpdate, Goto
<1>2. ASSUME NEW t \in Updaters, NEW f \in Files \cup {NoFile}, Begin(t, f)
      PROVE  PreviousRulesRemain'
  BY Zenon, <1>2 DEF Begin, Goto
<1>3. ASSUME NEW t \in Updaters, NEW f \in Files, StageFails(t, f)
      PROVE  PreviousRulesRemain'
  BY Zenon, <1>3 DEF StageFails, UpdateReturn, Goto, Fault
<1>4. ASSUME NEW t \in Updaters, Prepare(t)
      PROVE  PreviousRulesRemain'
  BY Zenon, <1>4 DEF Prepare, Goto
<1>5. ASSUME NEW t \in Updaters, PrepareFails(t)
      PROVE  PreviousRulesRemain'
  BY <1>5 DEF PrepareFails, Goto, Fault
<1>6. ASSUME NEW t \in Updaters, Barrier(t)
      PROVE  PreviousRulesRemain'
  BY <1>6 DEF Barrier, Goto
<1>7. ASSUME NEW t \in Updaters, Flush(t)
      PROVE  PreviousRulesRemain'
  BY <1>7 DEF Flush, Goto
<1>8. ASSUME NEW t \in Updaters, FlushFails(t)
      PROVE  PreviousRulesRemain'
  BY Zenon, <1>8 DEF FlushFails, Goto, Release, Fault
<1>9. ASSUME NEW t \in Updaters, Commit(t)
      PROVE  PreviousRulesRemain'
  BY <1>9 DEF Commit, Goto, Release
<1>10. ASSUME NEW t \in Updaters, Finish(t)
      PROVE  PreviousRulesRemain'
  BY <1>10 DEF Finish, UpdateReturn, Goto, Fault
<1>11. ASSUME NEW t \in Updaters, Undo(t)
      PROVE  PreviousRulesRemain'
  BY Zenon, <1>11 DEF Undo, Goto, Fault
<1>12. ASSUME NEW t \in Updaters, Restore(t)
      PROVE  PreviousRulesRemain'
  BY <1>12 DEF Restore, Goto
<1>13. ASSUME NEW t \in Updaters, Revoke(t)
      PROVE  PreviousRulesRemain'
  BY <1>13 DEF Revoke, UpdateReturn, Goto, Release
<1>14. ASSUME NEW t \in Updaters, RevokeFails(t)
      PROVE  PreviousRulesRemain'
  BY Zenon, <1>14 DEF RevokeFails, UpdateReturn, Goto, Release, Fault
<1>15. ASSUME NEW t \in Updaters, HangUp(t)
      PROVE  PreviousRulesRemain'
  BY Zenon, <1>15 DEF HangUp, UpdateReturn, Goto, Release, Fault
<1>16. ASSUME NEW t \in Handlers, DnsLease(t)
      PROVE  PreviousRulesRemain'
  BY Zenon, <1>16 DEF DnsLease
<1>17. ASSUME NEW t \in Handlers, DnsAllowed(t)
      PROVE  PreviousRulesRemain'
  BY Zenon, <1>17 DEF DnsAllowed
<1>18. ASSUME NEW t \in Handlers, DnsAnswer(t)
      PROVE  PreviousRulesRemain'
  BY Zenon, <1>18 DEF DnsAnswer
<1>19. ASSUME NEW t \in Handlers, DnsGrant(t)
      PROVE  PreviousRulesRemain'
  BY Zenon, <1>19 DEF DnsGrant
<1>20. ASSUME NEW t \in Handlers, DnsDone(t)
      PROVE  PreviousRulesRemain'
  BY Zenon, <1>20 DEF DnsDone
<1>21. ASSUME Expire
      PROVE  PreviousRulesRemain'
  BY Zenon, <1>21 DEF Expire
<1>22. ASSUME NEW f \in Files, EditFiles(f)
      PROVE  PreviousRulesRemain'
  BY Zenon, <1>22 DEF EditFiles
<1>23. ASSUME Restart
      PROVE  PreviousRulesRemain'
  BY Zenon, <1>23 DEF Restart, Fault
<1>24. CASE UNCHANGED vars
  BY Zenon, <1>24 DEF vars
<1> QED
  BY Zenon, <1>1, <1>2, <1>3, <1>4, <1>5, <1>6, <1>7, <1>8, <1>9, <1>10,
     <1>11, <1>12, <1>13, <1>14, <1>15, <1>16, <1>17, <1>18, <1>19, <1>20,
     <1>21, <1>22, <1>23, <1>24
     DEF Next, BeginUpdate, UpdateStep, DnsStep

\* The strengthening holds at first.
LEMMA InitInv == Init => IInv
<1> SUFFICES ASSUME Init PROVE IInv
  OBVIOUS
<1> USE PolicyAssumption DEF Init
<1>1. TypeOK
  BY Zenon DEF TypeOK, Policies
<1>2. LocksHeld
  BY Zenon DEF LocksHeld, Updating, Behind
<1>3. BasisLive /\ Flushed /\ Derived /\ PreviousRulesRemain
  BY Zenon DEF BasisLive, Flushed, Derived, PreviousRulesRemain
<1> QED
  BY Zenon, <1>1, <1>2, <1>3 DEF IInv

\* Every step keeps it.
LEMMA NextInv == IInv /\ [Next]_vars => IInv'
BY Zenon, TypeStep, LocksStep, BasisLiveStep, FlushedStep, DerivedStep,
   PreviousRulesRemainStep DEF IInv

\* The strengthening is an invariant: the locks follow the tasks, a request acts
\* on the live policy, and only a restore leaves something to revoke.
THEOREM PolicyInductive == Spec => []IInv
BY InitInv, NextInv, PTL DEF Spec

\* Updates and requests keep the daemon's policy state well formed.
THEOREM PolicyTypeCorrect == Spec => []TypeOK
<1>1. IInv => TypeOK
  BY Zenon DEF IInv
<1> QED
  BY <1>1, PolicyInductive, PTL

\* Every dynamic rule and every cached answer derives from the live policy,
\* unless an update is behind the barrier or a revocation failed.
THEOREM GrantsFollow == Spec => []GrantsFollowPolicy
<1>1. IInv => GrantsFollowPolicy
  BY Zenon, PolicyAssumption
     DEF IInv, Derived, LocksHeld, Behind, TypeOK, GrantsFollowPolicy
<1> QED
  BY <1>1, PolicyInductive, PTL

\* An update that fails at any point finds the policy it began with.
THEOREM PreviousRemain == Spec => []PreviousRulesRemain
<1>1. IInv => PreviousRulesRemain
  BY Zenon DEF IInv
<1> QED
  BY <1>1, PolicyInductive, PTL

\* A dynamic rule is made only under the policy that is live at that moment.
THEOREM GrantsLive == Spec => GrantsAreLive
<1>1. IInv /\ [Next]_vars => [grants' \subseteq grants \cup {policy}]_vars
  <2> SUFFICES ASSUME IInv, Next PROVE grants' \subseteq grants \cup {policy}
    OBVIOUS
  <2>1. ASSUME NEW t \in Handlers, DnsGrant(t)
        PROVE  grants' \subseteq grants \cup {policy}
    BY Zenon, <2>1 DEF DnsGrant, IInv, BasisLive
  <2>2. ASSUME NEW t \in Handlers, DnsLease(t) \/ DnsAllowed(t) \/ DnsAnswer(t)
     \/ DnsDone(t)
        PROVE  grants' \subseteq grants
    BY Zenon, <2>2 DEF DnsLease, DnsAllowed, DnsAnswer, DnsDone, derivedVars
  <2>3. ASSUME NEW t \in Updaters, UpdateStep(t) \/ HangUp(t)
        PROVE  grants' \subseteq grants
    BY Zenon, <2>3 DEF UpdateStep, HangUp, Prepare, PrepareFails, Barrier, Flush,
       FlushFails, Commit, Finish, Undo, Restore, Revoke, RevokeFails, derivedVars
  <2>4. ASSUME NEW t \in Updaters, NEW f \in Files \cup {NoFile},
               StartUpdate(t) \/ Begin(t, f) \/ StageFails(t, f)
        PROVE  grants' \subseteq grants
    BY Zenon, <2>4 DEF StartUpdate, Begin, StageFails, derivedVars
  <2>5. ASSUME NEW f \in Files, EditFiles(f)
        PROVE  grants' \subseteq grants
    BY Zenon, <2>5 DEF EditFiles, derivedVars
  <2>6. ASSUME Expire \/ Restart
        PROVE  grants' \subseteq grants
    BY Zenon, <2>6 DEF Expire, Restart
  <2> QED
    BY Zenon, <2>1, <2>2, <2>3, <2>4, <2>5, <2>6 DEF Next, BeginUpdate, DnsStep
<1> QED
  BY <1>1, PolicyInductive, PTL DEF Spec, GrantsAreLive

-----------------------------------------------------------------------------
(* AgentShim, which sees of the daemon only what DaemonService says.       *)

(* ShimTypeOK with the types of the variables it leaves out.               *)
ShimTypes ==
    /\ ShimTypeOK
    /\ heart \in [Shims -> {"off", "on", "stopped", "lost"}]
    /\ termed \in [Shims -> BOOLEAN]
    /\ hasCmd \in [Shims -> BOOLEAN]

(* Why a command that is alive is supervised: it exists only from execute_ *)
(* command on, and the supervision is left with it alive only by a signal. *)
Supervised(s) ==
    /\ heart[s] = "stopped" => termed[s]
    /\ at[s] \in {"idle", "reach", "checkin", "ask", "exec"} => child[s] = "none"
    /\ at[s] = "drain" => termed[s]
    /\ child[s] = "alive" => at[s] \in {"run", "drain"} \/ code[s] = "killed"

(* Why success is explained: the result is fixed only on the way out, and  *)
(* it is left open only for an invocation without a command.               *)
ResultKept(s) ==
    /\ at[s] \notin {"close", "end"} => code[s] = "none"
    /\ at[s] = "close" => code[s] \in {"none", "refused", "status"}
    /\ at[s] = "close" /\ code[s] = "none" => ~hasCmd[s]
    /\ code[s] = "success" /\ hasCmd[s] => termed[s] /\ child[s] = "none"

ShimInv ==
    /\ ShimTypes
    /\ \A s \in Shims : Supervised(s) /\ ResultKept(s)

-----------------------------------------------------------------------------
(* Before a shim is launched nothing has happened to it (ShimInit).        *)
LEMMA ShimInitInv == ShimInit => ShimInv
BY DEF ShimInit, ServiceInit, ShimInv, ShimTypes, ShimTypeOK, Supervised, ResultKept, Lives

(* Whatever the service does, no shim moves (ServiceStep).                 *)
LEMMA ServiceKeepsInv == ShimInv /\ ServiceStep => ShimInv'
<1> SUFFICES ASSUME ShimInv, ServiceStep PROVE ShimInv'
  OBVIOUS
<1>1. /\ life' \in Lives
      /\ sess' \in [Shims -> {"none", "live", "lost"}]
      /\ UNCHANGED <<at, hasCmd, heart, termed, child, code>>
  BY Zenon DEF ServiceStep, ServiceNext, Bind, ApplyPolicy, Serve, Fall, Lives, ShimInv,
         ShimTypes, ShimTypeOK
<1>2. ShimTypes'
  BY Zenon, <1>1 DEF ShimInv, ShimTypes, ShimTypeOK
<1>3. \A s \in Shims : Supervised(s)' /\ ResultKept(s)'
  BY <1>1, Zenon DEF ShimInv, Supervised, ResultKept
<1> QED
  BY Zenon, <1>2, <1>3 DEF ShimInv

(* The types of what belongs to the shims, the heartbeat's clause apart.    *)
ShimSorts ==
    /\ at \in [Shims -> {"idle", "reach", "checkin", "ask", "exec", "run",
                         "drain", "close", "end"}]
    /\ sess \in [Shims -> {"none", "live", "lost"}]
    /\ child \in [Shims -> {"none", "alive", "gone"}]
    /\ code \in [Shims -> {"none", "refused", "success", "status",
                           "unreachable", "killed"}]
    /\ heart \in [Shims -> {"off", "on", "stopped", "lost"}]
    /\ termed \in [Shims -> BOOLEAN]
    /\ hasCmd \in [Shims -> BOOLEAN]

(* What the invariant says of one shim.                                    *)
Beats(s) == heart[s] = "off" <=> at[s] \in {"idle", "reach", "checkin", "end"}

Kept(s) == Beats(s) /\ Supervised(s) /\ ResultKept(s)

Same(x) ==
    /\ at'[x] = at[x] /\ heart'[x] = heart[x] /\ termed'[x] = termed[x]
    /\ child'[x] = child[x] /\ code'[x] = code[x] /\ hasCmd'[x] = hasCmd[x]

OnlyShim(s) == ShimSorts' /\ life' = life /\ \A x \in Shims : x = s \/ Same(x)

(* The invariant speaks of the types and of each shim by itself.           *)
LEMMA ShimInvParts ==
  ShimInv <=> ShimSorts /\ life \in Lives /\ \A x \in Shims : Kept(x)
BY Zenon DEF ShimInv, ShimTypes, ShimTypeOK, ShimSorts, Kept, Beats

(* A step that moves one shim and leaves that one as it should be keeps    *)
(* the invariant.                                                          *)
LEMMA OneShimMoves ==
  ASSUME NEW s \in Shims, ShimInv, OnlyShim(s), Kept(s)'
  PROVE  ShimInv'
<1>1. ASSUME NEW x \in Shims, Kept(x), Same(x) PROVE Kept(x)'
  BY Zenon, <1>1 DEF Kept, Beats, Supervised, ResultKept, Same
<1>2. \A x \in Shims : Kept(x)'
  BY Zenon, <1>1, ShimInvParts DEF OnlyShim
<1>3. ShimSorts' /\ (life \in Lives)'
  BY Zenon, ShimInvParts DEF OnlyShim
<1>4. (ShimSorts /\ life \in Lives /\ \A x \in Shims : Kept(x))' => ShimInv'
  BY Zenon DEF ShimInv, ShimTypes, ShimTypeOK, ShimSorts, Kept, Beats
<1> QED
  BY Zenon, <1>2, <1>3, <1>4

(* What one shim, its heartbeat, a signal or its command does keeps the    *)
(* invariant: one step per action.                                         *)
LEMMA ShimKeepsInv ==
  ASSUME NEW s \in Shims, ShimInv,
         \/ Launch(s) \/ ShimStep(s) \/ Beat(s) \/ SigTerm(s) \/ Kill(s)
         \/ CommandEnds(s) \/ WaitFails(s)
  PROVE  ShimInv'
<1>a. ShimSorts /\ Kept(s)
  BY Zenon, ShimInvParts
<1> SUFFICES OnlyShim(s) /\ Kept(s)'
  BY Zenon, OneShimMoves
<1>1. CASE Launch(s)
  <2>1. PICK verb \in Verbs, rest \in 0..1 :
          hasCmd' = [hasCmd EXCEPT ![s] = Commands(verb, rest)]
    BY <1>1, Zenon DEF Launch
  <2>2. Commands(verb, rest) \in BOOLEAN
    BY Zenon DEF Commands
  <2>3. hasCmd' \in [Shims -> BOOLEAN] /\ \A x \in Shims : x = s \/ hasCmd'[x] = hasCmd[x]
    BY Zenon, <1>a, <2>1, <2>2 DEF ShimSorts
  <2>4. OnlyShim(s)
    BY Zenon, <1>1, <1>a, <2>3 DEF Launch, OnlyShim, ShimSorts, Same
  <2>5. Kept(s)'
    BY Zenon, <1>1, <1>a DEF Launch, ShimSorts, Kept, Beats, Supervised, ResultKept
  <2> QED
    BY Zenon, <2>4, <2>5
<1>2. CASE VerifySocket(s)
  <2>1. OnlyShim(s)
    BY <1>2, <1>a DEF VerifySocket, Ends, OnlyShim, ShimSorts, Same
  <2>2. Kept(s)'
    BY <1>2, <1>a DEF VerifySocket, Ends, ShimSorts, Kept, Beats, Supervised, ResultKept
  <2> QED
    BY Zenon, <2>1, <2>2
<1>3. CASE CheckIn(s)
  <2>1. OnlyShim(s)
    BY <1>3, <1>a DEF CheckIn, Ends, OnlyShim, ShimSorts, Same
  <2>2. Kept(s)'
    BY <1>3, <1>a DEF CheckIn, Ends, ShimSorts, Kept, Beats, Supervised, ResultKept
  <2> QED
    BY Zenon, <2>1, <2>2
<1>4. CASE Verdict(s)
  <2>1. OnlyShim(s)
    BY <1>4, <1>a DEF Verdict, OnlyShim, ShimSorts, Same
  <2>2. Kept(s)'
    BY <1>4, <1>a DEF Verdict, ShimSorts, Kept, Beats, Supervised, ResultKept
  <2> QED
    BY Zenon, <2>1, <2>2
<1>5. CASE NoVerdict(s)
  <2>1. OnlyShim(s)
    BY <1>5, <1>a DEF NoVerdict, Ends, OnlyShim, ShimSorts, Same
  <2>2. Kept(s)'
    BY <1>5, <1>a DEF NoVerdict, Ends, ShimSorts, Kept, Beats, Supervised, ResultKept
  <2> QED
    BY Zenon, <2>1, <2>2
<1>6. CASE Spawn(s)
  <2>1. OnlyShim(s)
    BY <1>6, <1>a DEF Spawn, OnlyShim, ShimSorts, Same
  <2>2. Kept(s)'
    BY <1>6, <1>a DEF Spawn, ShimSorts, Kept, Beats, Supervised, ResultKept
  <2> QED
    BY Zenon, <2>1, <2>2
<1>7. CASE Supervise(s)
  <2>1. OnlyShim(s)
    BY <1>7, <1>a DEF Supervise, Ends, OnlyShim, ShimSorts, Same
  <2>2. Kept(s)'
    BY <1>7, <1>a DEF Supervise, Ends, ShimSorts, Kept, Beats, Supervised, ResultKept
  <2> QED
    BY Zenon, <2>1, <2>2
<1>8. CASE Drain(s)
  <2>1. OnlyShim(s)
    BY Zenon, <1>8, <1>a DEF Drain, Ends, OnlyShim, ShimSorts, Same
  <2>2. Kept(s)'
    BY Zenon, <1>8, <1>a DEF Drain, Ends, ShimSorts, Kept, Beats, Supervised, ResultKept
  <2> QED
    BY Zenon, <2>1, <2>2
<1>9. CASE Close(s)
  <2>1. OnlyShim(s)
    BY Zenon, <1>9, <1>a DEF Close, Ends, OnlyShim, ShimSorts, Same
  <2>2. Kept(s)'
    BY Zenon, <1>9, <1>a DEF Close, Ends, ShimSorts, Kept, Beats, Supervised, ResultKept
  <2> QED
    BY Zenon, <2>1, <2>2
<1>10. CASE Beat(s)
  <2>1. OnlyShim(s)
    BY Zenon, <1>10, <1>a DEF Beat, OnlyShim, ShimSorts, Same
  <2>2. Kept(s)'
    BY Zenon, <1>10, <1>a DEF Beat, ShimSorts, Kept, Beats, Supervised, ResultKept
  <2> QED
    BY Zenon, <2>1, <2>2
<1>11. CASE SigTerm(s)
  <2>3. termed' = [termed EXCEPT ![s] = TRUE] /\ UNCHANGED <<life, hasCmd, sess, child>>
    BY Zenon, <1>11 DEF SigTerm
  <2>4. ASSUME Ends(s, "killed") PROVE OnlyShim(s)
    BY Zenon, <1>a, <2>3, <2>4 DEF Ends, OnlyShim, ShimSorts, Same
  <2>5. ASSUME NEW h \in {"off", "on", "stopped", "lost"}, UNCHANGED <<at, code>>,
               heart' = [heart EXCEPT ![s] = h]
        PROVE  OnlyShim(s)
    BY Zenon, <1>a, <2>3, <2>5 DEF OnlyShim, ShimSorts, Same
  <2>6. (IF heart[s] = "on" THEN "stopped" ELSE heart[s]) \in {"off", "on", "stopped", "lost"}
    BY Zenon, <1>a DEF ShimSorts
  <2>1. OnlyShim(s)
    BY Zenon, <1>11, <2>4, <2>5, <2>6 DEF SigTerm
  <2>2. Kept(s)'
    BY <1>11, <1>a DEF SigTerm, Ends, ShimSorts, Kept, Beats, Supervised, ResultKept
  <2> QED
    BY Zenon, <2>1, <2>2
<1>12. CASE Kill(s)
  <2>1. OnlyShim(s)
    BY Zenon, <1>12, <1>a DEF Kill, Ends, OnlyShim, ShimSorts, Same
  <2>2. Kept(s)'
    BY Zenon, <1>12, <1>a DEF Kill, Ends, ShimSorts, Kept, Beats, Supervised, ResultKept
  <2> QED
    BY Zenon, <2>1, <2>2
<1>13. CASE CommandEnds(s)
  <2>1. OnlyShim(s)
    BY Zenon, <1>13, <1>a DEF CommandEnds, OnlyShim, ShimSorts, Same
  <2>2. Kept(s)'
    BY Zenon, <1>13, <1>a DEF CommandEnds, ShimSorts, Kept, Beats, Supervised, ResultKept
  <2> QED
    BY Zenon, <2>1, <2>2
<1>14. CASE WaitFails(s)
  <2>1. OnlyShim(s)
    BY <1>14, <1>a DEF WaitFails, Ends, OnlyShim, ShimSorts, Same
  <2>2. Kept(s)'
    BY <1>14, <1>a DEF WaitFails, Ends, ShimSorts, Kept, Beats, Supervised, ResultKept
  <2> QED
    BY Zenon, <2>1, <2>2
<1> QED
  BY <1>1, <1>2, <1>3, <1>4, <1>5, <1>6, <1>7, <1>8, <1>9, <1>10, <1>11, <1>12, <1>13, <1>14,
     Zenon DEF ShimStep

(* The inductive invariant holds of every behaviour of the shims.          *)
THEOREM ShimInvariant == ShimSpec => []ShimInv
<1>1. ShimInv /\ [ShimNext]_svars => ShimInv'
  <2>1. ASSUME ShimInv, UNCHANGED svars PROVE ShimInv'
    <3>1. UNCHANGED <<life, at, hasCmd, sess, heart, termed, child, code>>
      BY Zenon, <2>1 DEF svars, shim
    <3> QED
      BY Zenon, <2>1, <3>1 DEF ShimInv, ShimTypes, ShimTypeOK, Supervised, ResultKept
  <2> QED
    BY Zenon, <2>1, ServiceKeepsInv, ShimKeepsInv DEF ShimNext
<1> QED
  BY <1>1, ShimInitInv, PTL DEF ShimSpec

(* The heartbeat runs exactly from the check-in to the end of a shim       *)
(* (Heartbeat::start and stop), whatever the daemon does.                  *)
THEOREM ShimTyped == ShimSpec => []ShimTypeOK
<1>1. ShimInv => ShimTypeOK
  BY Zenon DEF ShimInv, ShimTypes
<1> QED
  BY <1>1, ShimInvariant, PTL

(* For any number of shims, daemon failures and signals: a live command is *)
(* supervised, with the heartbeat on or a lost daemon about to be acted    *)
(* on, unless the shim was told to stop or was killed (execute_command).   *)
THEOREM CommandsWatched == ShimSpec => []ChildWatched
<1>1. ShimInv => ChildWatched
  BY Zenon DEF ShimInv, ShimTypes, ShimTypeOK, Supervised, ChildWatched
<1> QED
  BY <1>1, ShimInvariant, PTL

(* Losing the daemon is never reported as success: a shim with a command   *)
(* ends with success only after SIGTERM and before the command ran.        *)
THEOREM SuccessIsExplained == ShimSpec => []SuccessExplained
<1>1. ShimInv => SuccessExplained
  BY Zenon DEF ShimInv, ResultKept, SuccessExplained
<1> QED
  BY <1>1, ShimInvariant, PTL
=============================================================================
