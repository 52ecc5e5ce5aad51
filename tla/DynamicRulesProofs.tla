------------------------- MODULE DynamicRulesProofs -------------------------
(***************************************************************************)
(* Proofs about the dynamic rule manager, for any containers, requests,    *)
(* tasks and bounds.                                                       *)
(***************************************************************************)
EXTENDS DynamicRules, FiniteSetTheorems, TLAPS

-----------------------------------------------------------------------------
(* What the parts of an action do, for the actions that combine them.      *)

\* A delete or a table replacement, applied or not, adds nothing to the kernel.
LEMMA KernelShrinks ==
  ASSUME NEW h,
         NftDelete(h) \/ NftReplaceTable \/ UNCHANGED kernelVars
  PROVE  /\ kernel' \subseteq kernel
         /\ lost' \subseteq lost
         /\ nextHandle' = nextHandle \/ (nextHandle' = 1 /\ kernel' = {} /\ lost' = {})
BY DEF NftDelete, NftReplaceTable, kernelVars

\* A delete, applied or not, keeps the lost mark of every rule it leaves.
LEMMA LostKept ==
  ASSUME NEW h,
         NftDelete(h) \/ NftReplaceTable \/ UNCHANGED kernelVars,
         NEW k \in kernel', k.handle \in lost
  PROVE  k.handle \in lost'
BY DEF NftDelete, NftReplaceTable, kernelVars

\* However a task returns, it is idle and no longer holds the lock.
LEMMA ReturnReleases ==
  ASSUME NEW t \in Tasks, TypeOK, InsertReturn(t) \/ CleanReturn(t)
  PROVE  /\ pc' = [pc EXCEPT ![t] = "idle"]
         /\ lock' = IF lock = t THEN NoTask ELSE lock
BY Zenon DEF InsertReturn, CleanReturn, Release, Goto

TypeReady == TypeOK /\ TasksReady

\* Every step keeps the state well formed and every running task in possession
\* of its request.
LEMMA TypeReadyStep == TypeReady /\ [Next]_vars => TypeReady'
<1> SUFFICES ASSUME TypeReady, [Next]_vars PROVE TypeReady'
  OBVIOUS
<1> USE TaskAssumption, DataAssumption
    DEF TypeReady, TypeOK, TasksReady, Tasks, Cleaners, kernelVars, insertVars,
        cleanVars, Labels, Goto
<1>1. ASSUME NEW t \in Inserters, NEW r \in Requests, StartInsert(t, r)
      PROVE  TypeReady'
  BY <1>1 DEF StartInsert, expiration_deadline, ValidTtl, Ttls, Request
<1>2. ASSUME NEW t \in Inserters, NEW a \in Answers, OwnerLookup(t, a)
      PROVE  TypeReady'
  BY <1>2 DEF OwnerLookup
<1>3. ASSUME NEW t \in Inserters, NEW a \in Answers, RecheckOk(t, a)
      PROVE  TypeReady'
  BY <1>3 DEF RecheckOk, InsertReturn, Release, Ttls
<1>4. ASSUME NEW t \in Inserters, NEW a \in Answers, RecheckFails(t, a)
      PROVE  TypeReady'
  BY <1>4 DEF RecheckFails
<1>5. ASSUME NEW t \in Inserters, InsertRefused(t)
      PROVE  TypeReady'
  BY <1>5 DEF InsertRefused, InsertReturn, Release, Ttls, Request, Record,
     KernelRule
<1>6. ASSUME NEW t \in Inserters, RenewDuplicate(t)
      PROVE  TypeReady'
  BY <1>6 DEF RenewDuplicate, InsertReturn, Release, Ttls, Request, Record,
     KernelRule, SameRule, renew_expiration
<1>7. ASSUME NEW t \in Inserters, RejectAtCap(t)
      PROVE  TypeReady'
  BY <1>7 DEF RejectAtCap, InsertReturn, Release, Ttls, Request, Record,
     KernelRule
<1>8. ASSUME NEW t \in Inserters, BeginNftInsert(t)
      PROVE  TypeReady'
  BY <1>8 DEF BeginNftInsert, InsertReturn, Release, Ttls, Request, Record,
     KernelRule
<1>9. ASSUME NEW t \in Inserters, NftInsert(t)
      PROVE  TypeReady'
  BY <1>9 DEF NftInsert, InsertReturn, Release, Ttls, Request, Record,
     KernelRule, NftAdd, MadeRecord, MadeKernelRule
<1>10. ASSUME NEW t \in Inserters, NftInsertRefused(t)
      PROVE  TypeReady'
  BY <1>10 DEF NftInsertRefused, InsertReturn, Release, Ttls, Request, Record,
     KernelRule
<1>11. ASSUME NEW t \in Inserters, NftInsertLost(t)
      PROVE  TypeReady'
  BY <1>11 DEF NftInsertLost, InsertReturn, Release, Ttls, Request, Record,
     KernelRule, NftAdd, MadeKernelRule, Fault
<1>12. ASSUME NEW t \in Inserters, RollbackDelete(t)
      PROVE  TypeReady'
  BY Zenon, <1>12 DEF RollbackDelete, InsertReturn, Release, Ttls, Request,
                      Record, KernelRule, NftDelete, Untrack
<1>13. ASSUME NEW t \in Inserters, RollbackMissing(t)
      PROVE  TypeReady'
  BY <1>13 DEF RollbackMissing, InsertReturn, Release, Ttls, Request, Record,
     KernelRule
<1>14. ASSUME NEW t \in Inserters, RollbackFails(t)
      PROVE  TypeReady'
  <2>1. /\ kernel' \subseteq kernel
        /\ lost' \subseteq lost
        /\ nextHandle' \in Nat \ {0}
    BY <1>14, KernelShrinks DEF RollbackFails
  <2> QED
    BY <1>14, <2>1 DEF RollbackFails, Fault
<1>15. ASSUME NEW t \in Inserters, InsertHangUp(t)
      PROVE  TypeReady'
  <2>1. /\ kernel' \subseteq kernel
        /\ lost' \subseteq lost
        /\ nextHandle' \in Nat \ {0}
    BY <1>15, KernelShrinks DEF InsertHangUp
  <2> QED
    BY <1>15, <2>1 DEF InsertHangUp, Fault, InsertReturn, Release, Ttls
<1>16. ASSUME NEW t \in Cleaners, NEW j \in Jobs, StartClean(t, j)
      PROVE  TypeReady'
  BY <1>16 DEF StartClean
<1>17. ASSUME NEW t \in Cleaners, NothingToClean(t)
      PROVE  TypeReady'
  BY <1>17 DEF NothingToClean, CleanReturn, Release
<1>18. ASSUME NEW t \in Cleaners, BeginClean(t)
      PROVE  TypeReady'
  BY ZenonT(30), <1>18 DEF BeginClean, Doomed
<1>19. ASSUME NEW t \in Cleaners, NEW r \in todo[t], DeleteOne(t, r)
      PROVE  TypeReady'
  BY <1>19 DEF DeleteOne, TrackedAfter, Untrack, RulesOf, NftDelete
<1>20. ASSUME NEW t \in Cleaners, NEW r \in todo[t], DeleteLast(t, r)
      PROVE  TypeReady'
  BY <1>20 DEF DeleteLast, TrackedAfter, Untrack, RulesOf, NftDelete,
     CleanReturn, Release
<1>21. ASSUME NEW t \in Cleaners, NEW r \in todo[t], DeleteMissing(t, r)
      PROVE  TypeReady'
  BY <1>21 DEF DeleteMissing
<1>22. ASSUME NEW t \in Cleaners, NEW r \in todo[t], DeleteFails(t, r)
      PROVE  TypeReady'
  <2>1. /\ kernel' \subseteq kernel
        /\ lost' \subseteq lost
        /\ nextHandle' \in Nat \ {0}
    BY <1>22, KernelShrinks DEF DeleteFails
  <2> QED
    BY <1>22, <2>1 DEF DeleteFails, Fault
<1>23. ASSUME NEW t \in Cleaners, FlushHangUp(t)
      PROVE  TypeReady'
  <2>1. /\ kernel' \subseteq kernel
        /\ lost' \subseteq lost
        /\ nextHandle' \in Nat \ {0}
    BY <1>23, KernelShrinks DEF FlushHangUp
  <2> QED
    BY <1>23, <2>1 DEF FlushHangUp, Fault, CleanReturn, Release
<1>24. ASSUME NEW t \in Inserters, ResetOk(t)
      PROVE  TypeReady'
  <2>1. InsertReturn(t)
    BY Zenon, <1>24 DEF ResetOk, TaskReturn
  <2> QED
    BY <1>24, <2>1 DEF ResetOk, NftReplaceTable, InsertReturn, Release, Ttls
<1>25. ASSUME NEW t \in Cleaners, ResetOk(t)
      PROVE  TypeReady'
  BY <1>25 DEF ResetOk, NftReplaceTable, TaskReturn, CleanReturn, Release
<1>26. ASSUME NEW t \in Inserters, ResetFails(t)
      PROVE  TypeReady'
  <2>1. /\ kernel' \subseteq kernel
        /\ lost' \subseteq lost
        /\ nextHandle' \in Nat \ {0}
    BY <1>26, KernelShrinks DEF ResetFails
  <2>2. InsertReturn(t)
    BY Zenon, <1>26 DEF ResetFails, TaskReturn
  <2> QED
    BY <1>26, <2>1, <2>2 DEF ResetFails, InsertReturn, Release, Ttls, Fault
<1>27. ASSUME NEW t \in Cleaners, ResetFails(t)
      PROVE  TypeReady'
  <2>1. /\ kernel' \subseteq kernel
        /\ lost' \subseteq lost
        /\ nextHandle' \in Nat \ {0}
    BY <1>27, KernelShrinks DEF ResetFails
  <2> QED
    BY <1>27, <2>1 DEF ResetFails, TaskReturn, CleanReturn, Release, Fault
<1>28. ASSUME Tick
      PROVE  TypeReady'
  BY <1>28 DEF Tick
<1>29. ASSUME BridgeUp
      PROVE  TypeReady'
  BY <1>29 DEF BridgeUp, NftReplaceTable
<1>30. ASSUME UNCHANGED vars
      PROVE  TypeReady'
  BY <1>30 DEF vars
<1> QED
  BY ZenonT(30), <1>1, <1>2, <1>3, <1>4, <1>5, <1>6, <1>7, <1>8, <1>9, <1>10,
     <1>11, <1>12, <1>13, <1>14, <1>15, <1>16, <1>17, <1>18, <1>19, <1>20,
     <1>21, <1>22, <1>23, <1>24, <1>25, <1>26, <1>27, <1>28, <1>29, <1>30
  DEF Next, InsertStep, CleanStep, Jobs, FlushJob, PruneJob, RemoveJob

\* The type invariant of the manager holds in every reachable state.
THEOREM TypeCorrect == Spec => []TypeOK
<1>1. Init => TypeReady
  BY DEF Init, TypeReady, TypeOK, TasksReady, Ttls, Tasks, Labels
<1>2. TypeReady => TypeOK
  BY Zenon DEF TypeReady
<1> QED
  BY <1>1, <1>2, TypeReadyStep, PTL DEF Spec

-----------------------------------------------------------------------------
(* The lock.                                                               *)

\* Every step leaves the program counters and the lock alone, returns from a
\* task, takes the free lock, or moves a task that keeps what it has.
LockMove(t) ==
  \/ /\ pc' = [pc EXCEPT ![t] = "idle"]
     /\ lock' = IF lock = t THEN NoTask ELSE lock
  \/ /\ lock = NoTask /\ lock' = t
     /\ \E l \in Holding : pc' = [pc EXCEPT ![t] = l]
  \/ /\ UNCHANGED lock
     /\ \E l \in Labels : /\ pc' = [pc EXCEPT ![t] = l]
                          /\ l \in Holding <=> pc[t] \in Holding

\* The four kinds of step above are all there are.
LEMMA LockMoves ==
  ASSUME TypeReady, [Next]_vars
  PROVE  UNCHANGED <<pc, lock>> \/ \E t \in Tasks : LockMove(t)
<1> USE DEF Goto, Holding, Labels, Tasks, Cleaners
<1>1. ASSUME NEW t \in Inserters,
             \/ \E r \in Requests : StartInsert(t, r)
             \/ \E a \in Answers : OwnerLookup(t, a) \/ RecheckFails(t, a)
             \/ RollbackMissing(t) \/ RollbackFails(t)
      PROVE  LockMove(t)
  BY Zenon, <1>1 DEF StartInsert, OwnerLookup, RecheckFails, RollbackMissing,
              RollbackFails, LockMove
<1>2. ASSUME NEW t \in Inserters,
             \/ \E a \in Answers : RecheckOk(t, a)
             \/ InsertRefused(t) \/ RenewDuplicate(t) \/ RejectAtCap(t)
             \/ NftInsertRefused(t) \/ NftInsertLost(t) \/ RollbackDelete(t)
             \/ InsertHangUp(t)
      PROVE  LockMove(t)
  BY Zenon, <1>2 DEF RecheckOk, InsertRefused, RenewDuplicate, RejectAtCap,
              NftInsertRefused, NftInsertLost, RollbackDelete, InsertHangUp,
              InsertReturn, Release, LockMove
<1>3. ASSUME NEW t \in Inserters, BeginNftInsert(t) \/ NftInsert(t)
      PROVE  LockMove(t)
  BY <1>3 DEF BeginNftInsert, NftInsert, LockMove
<1>4. ASSUME NEW t \in Tasks, ResetOk(t) \/ ResetFails(t)
      PROVE  LockMove(t)
  BY <1>4 DEF ResetOk, ResetFails, TaskReturn, InsertReturn, CleanReturn,
              Release, LockMove
<1>5. ASSUME NEW t \in Cleaners,
             \/ \E j \in Jobs : StartClean(t, j)
             \/ BeginClean(t)
             \/ \E r \in todo[t] : DeleteMissing(t, r) \/ DeleteFails(t, r)
      PROVE  LockMove(t)
  BY <1>5 DEF StartClean, BeginClean, DeleteMissing, DeleteFails, LockMove
<1>6. ASSUME NEW t \in Cleaners,
             \/ NothingToClean(t)
             \/ FlushHangUp(t)
             \/ \E r \in todo[t] : DeleteLast(t, r)
      PROVE  LockMove(t)
  BY Zenon, <1>6 DEF NothingToClean, DeleteLast, FlushHangUp, CleanReturn,
                     Release, LockMove
<1>7. ASSUME \/ \E t \in Cleaners : \E r \in todo[t] : DeleteOne(t, r)
             \/ Tick \/ BridgeUp \/ UNCHANGED vars
      PROVE  UNCHANGED <<pc, lock>>
  BY ZenonT(30), <1>7 DEF DeleteOne, Tick, BridgeUp, vars
<1> QED
  BY ZenonT(30), <1>1, <1>2, <1>3, <1>4, <1>5, <1>6, <1>7
  DEF Next, InsertStep, CleanStep, Jobs, FlushJob, PruneJob, RemoveJob

\* The lock is held by the one task that is past its acquisition.
LEMMA LockStep ==
  ASSUME TypeReady, LockHeld, [Next]_vars
  PROVE  LockHeld'
<1>1. CASE UNCHANGED <<pc, lock>>
  BY <1>1 DEF LockHeld
<1>2. ASSUME NEW t \in Tasks, LockMove(t)
      PROVE  LockHeld'
  BY <1>2, TaskAssumption
  DEF LockMove, LockHeld, TypeReady, TypeOK, Holding, Labels
<1> QED
  BY <1>1, <1>2, LockMoves

-----------------------------------------------------------------------------
(* The tracked records and the kernel's rules.                             *)

\* The steps that change the records or the kernel.
RuleStep ==
  \/ \E t \in Inserters :
       \/ RenewDuplicate(t) \/ NftInsert(t) \/ NftInsertLost(t)
       \/ RollbackDelete(t) \/ RollbackFails(t) \/ InsertHangUp(t)
  \/ \E t \in Cleaners :
       \/ FlushHangUp(t)
       \/ \E r \in todo[t] : \/ DeleteOne(t, r) \/ DeleteLast(t, r)
                             \/ DeleteFails(t, r)
  \/ \E t \in Tasks : ResetOk(t) \/ ResetFails(t)
  \/ BridgeUp

\* Every other step leaves both alone.
LEMMA QuietSteps ==
  ASSUME [Next]_vars
  PROVE  RuleStep \/ UNCHANGED <<rules, kernelVars>>
<1>1. ASSUME NEW t \in Inserters,
             \/ \E r \in Requests : StartInsert(t, r)
             \/ \E a \in Answers : \/ OwnerLookup(t, a) \/ RecheckOk(t, a)
                                   \/ RecheckFails(t, a)
             \/ InsertRefused(t) \/ RejectAtCap(t) \/ BeginNftInsert(t)
             \/ NftInsertRefused(t) \/ RollbackMissing(t)
      PROVE  UNCHANGED <<rules, kernelVars>>
  BY <1>1 DEF StartInsert, OwnerLookup, RecheckOk, RecheckFails, InsertRefused,
              RejectAtCap, BeginNftInsert, NftInsertRefused, RollbackMissing
<1>2. ASSUME NEW t \in Cleaners,
             \/ \E j \in Jobs : StartClean(t, j)
             \/ NothingToClean(t) \/ BeginClean(t)
             \/ \E r \in todo[t] : DeleteMissing(t, r)
      PROVE  UNCHANGED <<rules, kernelVars>>
  BY <1>2 DEF StartClean, NothingToClean, BeginClean, DeleteMissing
<1>3. ASSUME Tick \/ UNCHANGED vars
      PROVE  UNCHANGED <<rules, kernelVars>>
  BY Zenon, <1>3 DEF Tick, vars, kernelVars
<1> QED
  BY ZenonT(30), <1>1, <1>2, <1>3
  DEF Next, InsertStep, CleanStep, RuleStep, Jobs, FlushJob, PruneJob,
      RemoveJob, Cleaners, Tasks

\* The kernel never has two rules with one handle, nor reuses one in a table.
LEMMA HandlesStep ==
  ASSUME TypeReady, HandlesFresh, [Next]_vars
  PROVE  HandlesFresh'
<1> USE DEF HandlesFresh, TypeReady, TypeOK
<1>1. CASE UNCHANGED <<rules, kernelVars>>
  BY <1>1 DEF kernelVars
<1>2. ASSUME NEW t \in Inserters, NftInsert(t) \/ NftInsertLost(t)
      PROVE  HandlesFresh'
  <2>1. /\ kernel' = kernel \cup {MadeKernelRule(t, nextHandle)}
        /\ nextHandle' = nextHandle + 1
        /\ lost' = lost \/ lost' = lost \cup {nextHandle}
    BY <1>2 DEF NftInsert, NftInsertLost, NftAdd
  <2>2. MadeKernelRule(t, nextHandle).handle = nextHandle
    BY DEF MadeKernelRule
  <2>3. \A k \in kernel' : k.handle < nextHandle'
    BY <2>1, <2>2 DEF KernelRule
  <2>4. \A k, m \in kernel' : k.handle = m.handle => k = m
    <3>1. \A k \in kernel : k.handle # nextHandle
      BY DEF KernelRule
    <3> QED
      BY <2>1, <2>2, <3>1
  <2>5. \A h \in lost' : h < nextHandle'
    <3> SUFFICES ASSUME NEW h \in lost' PROVE h < nextHandle'
      OBVIOUS
    <3>1. h \in lost \/ h = nextHandle
      BY <2>1
    <3>2. nextHandle \in Nat /\ h \in Nat
      BY Zenon, <3>1
    <3> QED
      BY <2>1, <3>1, <3>2
  <2> QED
    BY Zenon, <2>3, <2>4, <2>5
<1>3. ASSUME NEW h, NftDelete(h) \/ NftReplaceTable \/ UNCHANGED kernelVars
      PROVE  HandlesFresh'
  BY Zenon, <1>3, KernelShrinks
<1>4. ASSUME NEW t \in Inserters,
             \/ RenewDuplicate(t) \/ RollbackDelete(t)
             \/ RollbackFails(t) \/ InsertHangUp(t)
      PROVE  HandlesFresh'
  BY ZenonT(30), <1>3, <1>4
  DEF RenewDuplicate, RollbackDelete, RollbackFails, InsertHangUp
<1>5. ASSUME NEW t \in Cleaners, NEW r \in todo[t],
             \/ DeleteOne(t, r) \/ DeleteLast(t, r)
             \/ DeleteFails(t, r)
      PROVE  HandlesFresh'
  BY Zenon, <1>3, <1>5 DEF DeleteOne, DeleteLast, DeleteFails
<1>6. ASSUME \/ \E t \in Tasks : ResetOk(t) \/ ResetFails(t)
             \/ \E t \in Cleaners : FlushHangUp(t)
             \/ BridgeUp
      PROVE  HandlesFresh'
  BY ZenonT(30), <1>3, <1>6 DEF ResetOk, ResetFails, BridgeUp, FlushHangUp
<1> QED
  BY ZenonT(30), <1>1, <1>2, <1>4, <1>5, <1>6, QuietSteps DEF RuleStep

\* While a task holds the lock, only its own steps change the records.
LEMMA RecordsGuarded ==
  ASSUME TypeReady, LockHeld, [Next]_vars,
         NEW t \in Tasks, lock = t, rules' # rules
  PROVE  \/ t \in Inserters /\ (NftInsert(t) \/ RollbackDelete(t))
         \/ t \in Cleaners /\ \E r \in todo[t] : DeleteOne(t, r) \/ DeleteLast(t, r)
         \/ ResetOk(t)
<1> USE TaskAssumption DEF LockHeld, Holding, Tasks
<1>1. ASSUME NEW s \in Inserters, RenewDuplicate(s)
      PROVE  FALSE
  BY Zenon, <1>1 DEF RenewDuplicate
<1>2. ASSUME NEW s \in Inserters, NftInsert(s) \/ RollbackDelete(s)
      PROVE  s = t
  BY <1>2 DEF NftInsert, RollbackDelete
<1>3. ASSUME NEW s \in Cleaners, NEW r \in todo[s],
             DeleteOne(s, r) \/ DeleteLast(s, r)
      PROVE  s = t
  BY Zenon, <1>3 DEF DeleteOne, DeleteLast
<1>4. ASSUME NEW s \in Tasks, ResetOk(s)
      PROVE  s = t
  BY <1>4 DEF ResetOk
<1>5. ASSUME \/ \E s \in Inserters : \/ NftInsertLost(s) \/ RollbackFails(s)
                                     \/ InsertHangUp(s)
             \/ \E s \in Cleaners : \/ FlushHangUp(s)
                                    \/ \E r \in todo[s] : DeleteFails(s, r)
             \/ \E s \in Tasks : ResetFails(s)
             \/ BridgeUp
      PROVE  FALSE
  BY <1>5 DEF NftInsertLost, RollbackFails, InsertHangUp, DeleteFails,
              FlushHangUp, ResetFails, BridgeUp
<1> QED
  BY <1>1, <1>2, <1>3, <1>4, <1>5, QuietSteps DEF RuleStep

\* An insertion is at its nft command because it just passed the checks, or
\* it was there before, for the same request.
LEMMA NftEntered ==
  ASSUME TypeReady, [Next]_vars, NEW t \in Inserters, pc'[t] = "nft"
  PROVE  BeginNftInsert(t) \/ (pc[t] = "nft" /\ req'[t] = req[t])
<1> USE TaskAssumption
    DEF TypeReady, TypeOK, Goto, Tasks, Cleaners, insertVars
<1>1. ASSUME NEW s \in Inserters,
             \/ \E r \in Requests : StartInsert(s, r)
             \/ \E a \in Answers : OwnerLookup(s, a) \/ RecheckFails(s, a)
             \/ BeginNftInsert(s) \/ NftInsert(s)
             \/ RollbackMissing(s) \/ RollbackFails(s)
      PROVE  BeginNftInsert(t) \/ (pc[t] = "nft" /\ req'[t] = req[t])
  BY ZenonT(30), <1>1 DEF StartInsert, OwnerLookup, RecheckFails,
                          BeginNftInsert, NftInsert, RollbackMissing,
                          RollbackFails
<1>2. ASSUME NEW s \in Inserters, InsertReturn(s)
      PROVE  pc[t] = "nft" /\ req'[t] = req[t]
  BY <1>2 DEF InsertReturn, Release
<1>3. ASSUME NEW s \in Cleaners, CleanReturn(s)
      PROVE  pc[t] = "nft" /\ req'[t] = req[t]
  BY <1>3 DEF CleanReturn, Release
<1>4. ASSUME NEW s \in Inserters,
             \/ \E a \in Answers : RecheckOk(s, a)
             \/ InsertRefused(s) \/ RenewDuplicate(s) \/ RejectAtCap(s)
             \/ NftInsertRefused(s) \/ NftInsertLost(s) \/ RollbackDelete(s)
             \/ InsertHangUp(s)
      PROVE  InsertReturn(s)
  BY Zenon, <1>4 DEF RecheckOk, InsertRefused, RenewDuplicate, RejectAtCap,
              NftInsertRefused, NftInsertLost, RollbackDelete, InsertHangUp
<1>5. ASSUME NEW s \in Tasks, ResetOk(s) \/ ResetFails(s)
      PROVE  \/ s \in Inserters /\ InsertReturn(s)
             \/ s \in Cleaners /\ CleanReturn(s)
  BY Zenon, <1>5 DEF ResetOk, ResetFails, TaskReturn
<1>6. ASSUME NEW s \in Cleaners,
             \/ \E j \in Jobs : StartClean(s, j)
             \/ BeginClean(s)
             \/ \E r \in todo[s] : \/ DeleteOne(s, r) \/ DeleteMissing(s, r)
                                   \/ DeleteFails(s, r)
      PROVE  pc[t] = "nft" /\ req'[t] = req[t]
  BY ZenonT(30), <1>6 DEF StartClean, BeginClean, DeleteOne, DeleteMissing,
                          DeleteFails
<1>7. ASSUME NEW s \in Cleaners,
             \/ NothingToClean(s)
             \/ FlushHangUp(s)
             \/ \E r \in todo[s] : DeleteLast(s, r)
      PROVE  CleanReturn(s)
  BY ZenonT(30), <1>7 DEF NothingToClean, DeleteLast, FlushHangUp
<1>8. ASSUME Tick \/ BridgeUp \/ UNCHANGED vars
      PROVE  pc[t] = "nft" /\ req'[t] = req[t]
  BY ZenonT(30), <1>8 DEF Tick, BridgeUp, vars
<1> QED
  BY ZenonT(30), <1>1, <1>2, <1>3, <1>4, <1>5, <1>6, <1>7, <1>8
  DEF Next, InsertStep, CleanStep, Jobs, FlushJob, PruneJob, RemoveJob

\* What an insertion checked under the lock still holds when nft answers.
LEMMA ChecksStep ==
  ASSUME TypeReady, LockHeld, ChecksHold, [Next]_vars
  PROVE  ChecksHold'
<1> SUFFICES ASSUME NEW t \in Inserters, pc'[t] = "nft"
             PROVE  /\ \A r \in rules' : ~SameRule(r, req'[t])
                    /\ Cardinality({r \in rules' : r.container = req'[t].container})
                         < MaxRules
  BY Zenon DEF ChecksHold, SameRule, RulesOf
<1>1. CASE BeginNftInsert(t)
  BY Zenon, <1>1 DEF BeginNftInsert, RulesOf, insertVars, SameRule
<1>2. CASE pc[t] = "nft" /\ req'[t] = req[t]
  <2>1. lock = t
    BY <1>2 DEF LockHeld, Tasks, Holding
  <2>2. rules' = rules
    <3> SUFFICES ASSUME rules' # rules PROVE FALSE
      OBVIOUS
    <3>1. NftInsert(t) \/ RollbackDelete(t) \/ ResetOk(t)
      BY ZenonT(30), <2>1, RecordsGuarded, TaskAssumption DEF Tasks
    <3> QED
      BY Zenon, <3>1, <1>2 DEF NftInsert, RollbackDelete, ResetOk, Goto,
                               TypeReady, TypeOK, Tasks
  <2> QED
    BY Zenon, <1>2, <2>2 DEF ChecksHold, SameRule, RulesOf
<1> QED
  BY ZenonT(30), <1>1, <1>2, NftEntered

\* Only an insertion, with the lock held, adds a rule to the kernel.
LEMMA KernelGrows ==
  ASSUME [Next]_vars, \A s \in Inserters : pc[s] # "nft"
  PROVE  kernel' \subseteq kernel
<1>1. CASE UNCHANGED <<rules, kernelVars>>
  BY <1>1 DEF kernelVars
<1>2. ASSUME NEW s \in Inserters, NftInsert(s) \/ NftInsertLost(s)
      PROVE  FALSE
  BY <1>2 DEF NftInsert, NftInsertLost
<1>3. ASSUME NEW h, NftDelete(h) \/ NftReplaceTable \/ UNCHANGED kernelVars
      PROVE  kernel' \subseteq kernel
  BY <1>3, KernelShrinks
<1>4. ASSUME NEW s \in Inserters,
             \/ RenewDuplicate(s) \/ RollbackDelete(s)
             \/ RollbackFails(s) \/ InsertHangUp(s)
      PROVE  kernel' \subseteq kernel
  BY Zenon, <1>3, <1>4
  DEF RenewDuplicate, RollbackDelete, RollbackFails, InsertHangUp
<1>5. ASSUME NEW s \in Cleaners, NEW r \in todo[s],
             \/ DeleteOne(s, r) \/ DeleteLast(s, r)
             \/ DeleteFails(s, r)
      PROVE  kernel' \subseteq kernel
  BY ZenonT(30), <1>3, <1>5 DEF DeleteOne, DeleteLast, DeleteFails
<1>6. ASSUME \/ \E s \in Tasks : ResetOk(s) \/ ResetFails(s)
             \/ \E s \in Cleaners : FlushHangUp(s)
             \/ BridgeUp
      PROVE  kernel' \subseteq kernel
  BY <1>3, <1>6 DEF ResetOk, ResetFails, BridgeUp, FlushHangUp
<1> QED
  BY Zenon, <1>1, <1>2, <1>4, <1>5, <1>6, QuietSteps DEF RuleStep

\* A cleanup is at its deletes because it just collected the handles, or it was
\* there before, and shortened its list by at most one delete.
LEMMA DeleteEntered ==
  ASSUME TypeReady, [Next]_vars, NEW t \in Cleaners, pc'[t] = "delete"
  PROVE  \/ BeginClean(t)
         \/ /\ pc[t] = "delete" /\ job'[t] = job[t]
            /\ \/ todo'[t] = todo[t]
               \/ \E r \in todo[t] : DeleteOne(t, r)
<1> DEFINE Stays == pc[t] = "delete" /\ job'[t] = job[t] /\ todo'[t] = todo[t]
<1> USE TaskAssumption
    DEF TypeReady, TypeOK, Goto, Tasks, Cleaners, cleanVars
<1>1. ASSUME NEW s \in Inserters,
             \/ \E r \in Requests : StartInsert(s, r)
             \/ \E a \in Answers : OwnerLookup(s, a) \/ RecheckFails(s, a)
             \/ BeginNftInsert(s) \/ NftInsert(s)
             \/ RollbackMissing(s) \/ RollbackFails(s)
      PROVE  Stays
  BY ZenonT(30), <1>1 DEF StartInsert, OwnerLookup, RecheckFails,
                          BeginNftInsert, NftInsert, RollbackMissing,
                          RollbackFails
<1>2. ASSUME NEW s \in Inserters, InsertReturn(s)
      PROVE  Stays
  BY Zenon, <1>2 DEF InsertReturn, Release
<1>3. ASSUME NEW s \in Cleaners, CleanReturn(s)
      PROVE  Stays
  BY <1>3 DEF CleanReturn, Release
<1>4. ASSUME NEW s \in Inserters,
             \/ \E a \in Answers : RecheckOk(s, a)
             \/ InsertRefused(s) \/ RenewDuplicate(s) \/ RejectAtCap(s)
             \/ NftInsertRefused(s) \/ NftInsertLost(s) \/ RollbackDelete(s)
             \/ InsertHangUp(s)
      PROVE  InsertReturn(s)
  BY Zenon, <1>4 DEF RecheckOk, InsertRefused, RenewDuplicate, RejectAtCap,
              NftInsertRefused, NftInsertLost, RollbackDelete, InsertHangUp
<1>5. ASSUME NEW s \in Tasks, ResetOk(s) \/ ResetFails(s)
      PROVE  \/ s \in Inserters /\ InsertReturn(s)
             \/ s \in Cleaners /\ CleanReturn(s)
  BY Zenon, <1>5 DEF ResetOk, ResetFails, TaskReturn
<1>6. ASSUME NEW s \in Cleaners,
             \/ \E j \in Jobs : StartClean(s, j)
             \/ \E r \in todo[s] : DeleteMissing(s, r) \/ DeleteFails(s, r)
      PROVE  Stays
  BY Zenon, <1>6 DEF StartClean, DeleteMissing, DeleteFails
<1>7. ASSUME NEW s \in Cleaners,
             \/ NothingToClean(s)
             \/ FlushHangUp(s)
             \/ \E r \in todo[s] : DeleteLast(s, r)
      PROVE  CleanReturn(s)
  BY ZenonT(30), <1>7 DEF NothingToClean, DeleteLast, FlushHangUp
<1>8. ASSUME NEW s \in Cleaners, BeginClean(s)
      PROVE  BeginClean(t) \/ Stays
  BY ZenonT(30), <1>8 DEF BeginClean
<1>9. ASSUME NEW s \in Cleaners, NEW r \in todo[s], DeleteOne(s, r)
      PROVE  \/ /\ pc[t] = "delete" /\ job'[t] = job[t]
                /\ \E q \in todo[t] : DeleteOne(t, q)
             \/ Stays
  <2>1. CASE s = t
    BY ZenonT(30), <1>9, <2>1 DEF DeleteOne
  <2>2. CASE s # t
    BY ZenonT(30), <1>9, <2>2 DEF DeleteOne
  <2> QED
    BY <2>1, <2>2
<1>10. ASSUME Tick \/ BridgeUp \/ UNCHANGED vars
       PROVE  Stays
  BY Zenon, <1>10 DEF Tick, BridgeUp, vars
<1> QED
  BY ZenonT(30), <1>1, <1>2, <1>3, <1>4, <1>5, <1>6, <1>7, <1>8, <1>9, <1>10
  DEF Next, InsertStep, CleanStep, Jobs, FlushJob, PruneJob, RemoveJob

\* A flush or a container's cleanup never forgets a record it did not delete.
LEMMA DoomedStep ==
  ASSUME TypeReady, LockHeld, DoomedCovered, [Next]_vars
  PROVE  DoomedCovered'
<1> SUFFICES ASSUME NEW t \in Cleaners, pc'[t] = "delete", NEW r \in rules',
                    job'[t] = FlushJob \/ job'[t] = RemoveJob(r.container)
             PROVE  r \in todo'[t] \/ \A k \in kernel' : k.handle # r.nft_handle
  BY Zenon DEF DoomedCovered, InKernel, RemoveJob
<1>1. CASE BeginClean(t)
  <2>1. rules' = rules /\ job' = job /\ todo'[t] = Doomed(job[t])
    BY <1>1 DEF BeginClean, TypeReady, TypeOK
  <2>2. CASE job[t] = FlushJob
    <3>1. job[t].kind = "flush"
      BY <2>2 DEF FlushJob
    <3> QED
      BY Zenon, <2>1, <3>1 DEF Doomed
  <2>3. CASE job[t] = RemoveJob(r.container)
    <3>1. job[t].kind = "remove" /\ job[t].container = r.container
      BY <2>3 DEF RemoveJob
    <3> QED
      BY <2>1, <3>1 DEF Doomed
  <2> QED
    BY Zenon, <2>1, <2>2, <2>3
<1>2. CASE /\ pc[t] = "delete" /\ job'[t] = job[t]
           /\ \/ todo'[t] = todo[t]
              \/ \E q \in todo[t] : DeleteOne(t, q)
  <2>1. lock = t
    BY Zenon, <1>2 DEF LockHeld, Tasks, Holding
  <2>2. rules' = rules
    <3> SUFFICES ASSUME rules' # rules PROVE FALSE
      OBVIOUS
    <3>1. \/ \E q \in todo[t] : DeleteOne(t, q) \/ DeleteLast(t, q)
          \/ ResetOk(t)
      BY <2>1, RecordsGuarded, TaskAssumption DEF Tasks
    <3>2. ASSUME NEW q \in todo[t], DeleteOne(t, q)
          PROVE  FALSE
      BY <1>2, <3>2 DEF DeleteOne, TrackedAfter, FlushJob, RemoveJob
    <3>3. ASSUME NEW q \in todo[t], DeleteLast(t, q)
          PROVE  FALSE
      BY Zenon, <3>3 DEF DeleteLast, CleanReturn, Release, Goto, TypeReady,
                         TypeOK, Tasks
    <3>4. ASSUME ResetOk(t)
          PROVE  FALSE
      BY Zenon, <1>2, <3>4 DEF ResetOk
    <3> QED
      BY <3>1, <3>2, <3>3, <3>4
  <2>3. kernel' \subseteq kernel
    <3>1. \A s \in Inserters : pc[s] # "nft"
      BY Zenon, <2>1, TaskAssumption DEF LockHeld, Tasks, Holding
    <3> QED
      BY <3>1, KernelGrows
  <2>4. r \in todo[t] \/ \A k \in kernel : k.handle # r.nft_handle
    BY Zenon, <1>2, <2>2 DEF DoomedCovered, InKernel
  <2>5. ASSUME NEW q \in todo[t], DeleteOne(t, q)
        PROVE  \/ r \in todo'[t]
               \/ \A k \in kernel' : k.handle # r.nft_handle
    BY Zenon, <2>3, <2>4, <2>5 DEF DeleteOne, NftDelete, TypeReady, TypeOK
  <2> QED
    BY <1>2, <2>3, <2>4, <2>5
<1> QED
  BY Zenon, <1>1, <1>2, DeleteEntered

\* No step makes the manager forget a rule that stays in the kernel.
LEMMA TrackedStep ==
  ASSUME TypeReady, DoomedCovered, KernelRulesTracked, [Next]_vars
  PROVE  KernelRulesTracked'
<1> SUFFICES ASSUME NEW k \in kernel'
             PROVE  k.handle \in lost' \/ \E r \in rules' : Backs(r, k)
  BY Zenon DEF KernelRulesTracked, Backs
<1> USE DEF TypeReady, TypeOK
<1>1. CASE UNCHANGED <<rules, kernelVars>>
  BY Zenon, <1>1 DEF KernelRulesTracked, kernelVars
<1>2. ASSUME NEW t \in Inserters, NftInsert(t)
      PROVE  k.handle \in lost' \/ \E r \in rules' : Backs(r, k)
  <2>1. Backs(MadeRecord(t, nextHandle), MadeKernelRule(t, nextHandle))
    BY Zenon DEF Backs, MadeRecord, MadeKernelRule
  <2> QED
    BY Zenon, <1>2, <2>1 DEF NftInsert, NftAdd, KernelRulesTracked
<1>3. ASSUME NEW t \in Inserters, NftInsertLost(t)
      PROVE  k.handle \in lost' \/ \E r \in rules' : Backs(r, k)
  BY <1>3 DEF NftInsertLost, NftAdd, MadeKernelRule, KernelRulesTracked
<1>4. ASSUME NEW t \in Inserters, RenewDuplicate(t)
      PROVE  k.handle \in lost' \/ \E r \in rules' : Backs(r, k)
  <2>1. kernel' = kernel /\ lost' = lost
    BY <1>4 DEF RenewDuplicate, kernelVars
  <2>2. PICK r \in rules :
          rules' = (rules \ {r}) \cup
            {[r EXCEPT !.expires_at =
                 renew_expiration(r.expires_at, deadline[t], req[t].policy)]}
    BY <1>4 DEF RenewDuplicate
  <2>3. Backs(r, k) => Backs([r EXCEPT !.expires_at =
                 renew_expiration(r.expires_at, deadline[t], req[t].policy)], k)
    BY Zenon DEF Backs, Record
  <2> QED
    BY <2>1, <2>2, <2>3 DEF KernelRulesTracked
<1>5. ASSUME NEW h, NftDelete(h) \/ NftReplaceTable \/ UNCHANGED kernelVars,
             \A r \in rules \ rules' : r.nft_handle # k.handle
      PROVE  k.handle \in lost' \/ \E r \in rules' : Backs(r, k)
  <2>1. k \in kernel
    BY <1>5, KernelShrinks
  <2>2. k.handle \in lost => k.handle \in lost'
    BY Zenon, <1>5, LostKept
  <2> QED
    BY Zenon, <1>5, <2>1, <2>2 DEF KernelRulesTracked, Backs
<1>6. ASSUME NEW t \in Inserters, RollbackDelete(t)
      PROVE  k.handle \in lost' \/ \E r \in rules' : Backs(r, k)
  BY ZenonT(30), <1>5, <1>6 DEF RollbackDelete, NftDelete, Untrack
<1>7. ASSUME NEW t \in Inserters, RollbackFails(t) \/ InsertHangUp(t)
      PROVE  k.handle \in lost' \/ \E r \in rules' : Backs(r, k)
  BY <1>5, <1>7 DEF RollbackFails, InsertHangUp
<1>8. ASSUME NEW t \in Cleaners, NEW q \in todo[t],
             DeleteOne(t, q) \/ DeleteLast(t, q)
      PROVE  k.handle \in lost' \/ \E r \in rules' : Backs(r, k)
  <2>1. NftDelete(q.nft_handle) /\ k.handle # q.nft_handle /\ k \in kernel
    BY Zenon, <1>8 DEF DeleteOne, DeleteLast, NftDelete
  <2>2. ASSUME NEW r \in rules \ rules'
        PROVE  r.nft_handle # k.handle
    <3>1. CASE job[t].kind = "prune"
      <4>1. rules' = Untrack(rules, q.container, q.nft_handle)
        BY Zenon, <1>8, <3>1 DEF DeleteOne, DeleteLast, TrackedAfter
      <4> QED
        BY <2>1, <2>2, <4>1 DEF Untrack
    <3>2. CASE job[t].kind # "prune"
      <4>1. /\ pc[t] = "delete" /\ todo[t] = {q}
            /\ job[t].kind \in {"remove", "flush"}
            /\ job[t].kind = "remove" => r.container = job[t].container
        BY Zenon, <1>8, <2>2, <3>2 DEF DeleteOne, DeleteLast, TrackedAfter,
                                       RulesOf
      <4>2. job[t] \in Jobs
        BY Zenon, <4>1 DEF TasksReady
      <4>3. job[t] = FlushJob \/ job[t] = RemoveJob(r.container)
        BY Zenon, <4>1, <4>2 DEF Jobs, FlushJob, RemoveJob
      <4>4. r \in todo[t] \/ ~InKernel(r.nft_handle)
        BY Zenon, <2>2, <4>1, <4>3 DEF DoomedCovered
      <4> QED
        BY <2>1, <4>1, <4>4 DEF InKernel
    <3> QED
      BY <3>1, <3>2
  <2> QED
    BY Zenon, <1>5, <2>1, <2>2
<1>9. ASSUME NEW t \in Cleaners,
             FlushHangUp(t) \/ \E q \in todo[t] : DeleteFails(t, q)
      PROVE  k.handle \in lost' \/ \E r \in rules' : Backs(r, k)
  BY ZenonT(30), <1>5, <1>9 DEF DeleteFails, FlushHangUp
<1>10. ASSUME NEW t \in Tasks, ResetOk(t)
       PROVE  FALSE
  BY ZenonT(30), <1>10 DEF ResetOk, NftReplaceTable
<1>11. ASSUME NEW t \in Tasks, ResetFails(t)
       PROVE  k.handle \in lost' \/ \E r \in rules' : Backs(r, k)
  BY Zenon, <1>5, <1>11 DEF ResetFails
<1>12. ASSUME BridgeUp
       PROVE  FALSE
  BY Zenon, <1>12 DEF BridgeUp, NftReplaceTable
<1> QED
  BY ZenonT(30), <1>1, <1>2, <1>3, <1>4, <1>6, <1>7, <1>8, <1>9, <1>10, <1>11,
     <1>12, QuietSteps
  DEF RuleStep

\* Every step but the renewal of a duplicate and the recording of a new rule
\* only removes records.
LEMMA RecordsShrink ==
  ASSUME [Next]_vars
  PROVE  \/ rules' \subseteq rules
         \/ \E t \in Inserters : RenewDuplicate(t) \/ NftInsert(t)
<1>1. CASE UNCHANGED <<rules, kernelVars>>
  BY ZenonT(30), <1>1
<1>2. ASSUME \/ \E t \in Inserters : \/ NftInsertLost(t) \/ RollbackDelete(t)
                                     \/ RollbackFails(t) \/ InsertHangUp(t)
             \/ \E t \in Tasks : ResetOk(t) \/ ResetFails(t)
             \/ \E t \in Cleaners : FlushHangUp(t)
             \/ BridgeUp
      PROVE  rules' \subseteq rules
  BY Zenon, <1>2 DEF FlushHangUp, NftInsertLost, RollbackDelete,
                     RollbackFails, InsertHangUp, ResetOk, ResetFails,
                     BridgeUp, Untrack
<1>3. ASSUME NEW t \in Cleaners, NEW r \in todo[t],
             \/ DeleteOne(t, r) \/ DeleteLast(t, r)
             \/ DeleteFails(t, r)
      PROVE  rules' \subseteq rules
  BY <1>3 DEF DeleteOne, DeleteLast, DeleteFails, TrackedAfter,
              Untrack, RulesOf
<1> QED
  BY Zenon, <1>1, <1>2, <1>3, QuietSteps DEF RuleStep

\* Replacing or adding one record leaves at most as many, or one more.
LEMMA OneMore ==
  ASSUME NEW S, IsFiniteSet(S), NEW x
  PROVE  /\ IsFiniteSet(S \cup {x})
         /\ Cardinality(S \cup {x}) \in Nat
         /\ Cardinality(S \cup {x}) <= Cardinality(S) + 1
         /\ \A y \in S : /\ IsFiniteSet((S \ {y}) \cup {x})
                         /\ Cardinality((S \ {y}) \cup {x}) <= Cardinality(S)
<1>1. ASSUME NEW T, IsFiniteSet(T)
      PROVE  /\ IsFiniteSet(T \cup {x})
             /\ Cardinality(T) \in Nat
             /\ Cardinality(T \cup {x}) \in Nat
             /\ Cardinality(T \cup {x}) <= Cardinality(T) + 1
  <2>1. /\ IsFiniteSet(T \cup {x})
        /\ Cardinality(T \cup {x}) =
             IF x \in T THEN Cardinality(T) ELSE Cardinality(T) + 1
    BY <1>1, FS_AddElement
  <2>2. Cardinality(T) \in Nat
    BY <1>1, FS_CardinalityType
  <2> QED
    BY <2>1, <2>2
<1>2. ASSUME NEW y \in S
      PROVE  /\ IsFiniteSet(S \ {y})
             /\ Cardinality(S \ {y}) = Cardinality(S) - 1
  BY <1>2, FS_RemoveElement
<1>3. ASSUME NEW y \in S
      PROVE  /\ IsFiniteSet((S \ {y}) \cup {x})
             /\ Cardinality((S \ {y}) \cup {x}) <= Cardinality(S)
  <2>1. /\ IsFiniteSet((S \ {y}) \cup {x})
        /\ Cardinality((S \ {y}) \cup {x}) \in Nat
        /\ Cardinality((S \ {y}) \cup {x}) <= Cardinality(S \ {y}) + 1
    BY <1>1, <1>2
  <2>2. Cardinality(S) \in Nat
    BY Zenon, <1>1
  <2> QED
    BY <1>2, <2>1, <2>2
<1> QED
  BY <1>1, <1>3

\* Every step keeps at most one record of a rule.
LEMMA OneRecordStep ==
  ASSUME TypeReady, ChecksHold, OneRecordPerRule, [Next]_vars
  PROVE  OneRecordPerRule'
<1> USE DEF OneRecordPerRule, SameRule
<1>1. CASE rules' \subseteq rules
  BY <1>1
<1>2. ASSUME NEW t \in Inserters, RenewDuplicate(t)
      PROVE  OneRecordPerRule'
  <2> DEFINE Renewed(r) ==
        [r EXCEPT !.expires_at =
           renew_expiration(r.expires_at, deadline[t], req[t].policy)]
  <2>1. PICK r \in rules : rules' = (rules \ {r}) \cup {Renewed(r)}
    BY <1>2 DEF RenewDuplicate
  <2>2. \A q : SameRule(Renewed(r), q) <=> SameRule(r, q)
    BY Zenon DEF Record, TypeReady, TypeOK
  <2> HIDE DEF Renewed
  <2> QED
    BY <2>1, <2>2
<1>3. ASSUME NEW t \in Inserters, NftInsert(t)
      PROVE  OneRecordPerRule'
  <2>1. rules' = rules \cup {MadeRecord(t, nextHandle)} /\ pc[t] = "nft"
    BY Zenon, <1>3 DEF NftInsert
  <2>2. \A q : SameRule(MadeRecord(t, nextHandle), q) <=> SameRule(req[t], q)
    BY ZenonT(30) DEF MadeRecord
  <2>3. \A r \in rules : ~SameRule(r, req[t])
    BY <2>1 DEF ChecksHold
  <2> QED
    BY <2>1, <2>2, <2>3
<1> QED
  BY <1>1, <1>2, <1>3, RecordsShrink

\* Every step keeps finitely many records, and each container within its cap.
LEMMA CapStep ==
  ASSUME TypeReady, IsFiniteSet(rules), ChecksHold, CapHolds, [Next]_vars
  PROVE  IsFiniteSet(rules)' /\ CapHolds'
<1> DEFINE Of(S, c) == {r \in S : r.container = c}
<1>1. \A c : IsFiniteSet(Of(rules, c)) /\ Cardinality(Of(rules, c)) \in Nat
  BY FS_Subset, FS_CardinalityType
<1>2. \A c \in Containers : Cardinality(Of(rules, c)) <= MaxRules
  BY DEF CapHolds, RulesOf
<1>3. ASSUME IsFiniteSet(rules'),
             \A c \in Containers : Cardinality(Of(rules', c)) <= MaxRules
      PROVE  IsFiniteSet(rules)' /\ CapHolds'
  BY <1>3 DEF CapHolds, RulesOf
<1>4. MaxRules \in Nat
  BY BoundAssumption
<1> HIDE DEF Of
<1>5. CASE rules' \subseteq rules
  <2>1. IsFiniteSet(rules')
    BY <1>5, FS_Subset
  <2>2. ASSUME NEW c \in Containers
        PROVE  Cardinality(Of(rules', c)) <= MaxRules
    <3>1. Of(rules', c) \subseteq Of(rules, c)
      BY <1>5 DEF Of
    <3>2. /\ Cardinality(Of(rules', c)) <= Cardinality(Of(rules, c))
          /\ Cardinality(Of(rules', c)) \in Nat
      BY <1>1, <3>1, FS_Subset, FS_CardinalityType
    <3> QED
      BY <1>1, <1>2, <3>2, <1>4
  <2> QED
    BY <1>3, <2>1, <2>2
<1>6. ASSUME NEW t \in Inserters, RenewDuplicate(t)
      PROVE  IsFiniteSet(rules)' /\ CapHolds'
  <2> DEFINE Renewed(r) ==
        [r EXCEPT !.expires_at =
           renew_expiration(r.expires_at, deadline[t], req[t].policy)]
  <2>1. PICK r \in rules : rules' = (rules \ {r}) \cup {Renewed(r)}
    BY <1>6 DEF RenewDuplicate
  <2>2. Renewed(r).container = r.container
    BY DEF Record, TypeReady, TypeOK
  <2> HIDE DEF Renewed
  <2>3. IsFiniteSet(rules')
    BY Zenon, <2>1, OneMore
  <2>4. ASSUME NEW c \in Containers
        PROVE  Cardinality(Of(rules', c)) <= MaxRules
    <3>1. CASE c = r.container
      <4>1. Of(rules', c) = (Of(rules, c) \ {r}) \cup {Renewed(r)}
        BY <2>1, <2>2, <3>1 DEF Of
      <4>2. r \in Of(rules, c)
        BY <3>1 DEF Of
      <4>3. /\ Cardinality(Of(rules', c)) <= Cardinality(Of(rules, c))
            /\ IsFiniteSet(Of(rules', c))
        <5> DEFINE S == Of(rules, c)
                   x == Renewed(r)
        <5>1. IsFiniteSet(S)
          BY <1>1
        <5> HIDE DEF S, x
        <5>2. \A y \in S : /\ IsFiniteSet((S \ {y}) \cup {x})
                           /\ Cardinality((S \ {y}) \cup {x}) <= Cardinality(S)
          BY Zenon, <5>1, OneMore
        <5>3. Of(rules', c) = (S \ {r}) \cup {x} /\ r \in S
          BY <4>1, <4>2 DEF S, x
        <5>4. Cardinality(Of(rules', c)) <= Cardinality(S) /\ IsFiniteSet(Of(rules', c))
          BY <5>2, <5>3
        <5> QED
          BY <5>4 DEF S
      <4>4. Cardinality(Of(rules', c)) \in Nat
        BY <4>3, FS_CardinalityType
      <4>5. /\ Cardinality(Of(rules, c)) \in Nat
            /\ Cardinality(Of(rules, c)) <= MaxRules
        BY <1>1, <1>2
      <4> QED
        BY <1>4, <4>3, <4>4, <4>5
    <3>2. CASE c # r.container
      <4>1. Of(rules', c) = Of(rules, c)
        BY <2>1, <2>2, <3>2 DEF Of
      <4> QED
        BY <1>2, <4>1
    <3> QED
      BY <3>1, <3>2
  <2> QED
    BY <1>3, <2>3, <2>4
<1>7. ASSUME NEW t \in Inserters, NftInsert(t)
      PROVE  IsFiniteSet(rules)' /\ CapHolds'
  <2> DEFINE m == MadeRecord(t, nextHandle)
  <2>1. rules' = rules \cup {m} /\ pc[t] = "nft"
    BY Zenon, <1>7 DEF NftInsert
  <2>2. m.container = req[t].container
    BY Zenon DEF MadeRecord
  <2>3. Cardinality(Of(rules, req[t].container)) < MaxRules
    BY Zenon, <2>1 DEF ChecksHold, RulesOf, Of
  <2> HIDE DEF m
  <2>4. IsFiniteSet(rules')
    BY Zenon, <2>1, OneMore
  <2>5. ASSUME NEW c \in Containers
        PROVE  Cardinality(Of(rules', c)) <= MaxRules
    <3>1. CASE c = m.container
      <4>1. Of(rules', c) = Of(rules, c) \cup {m}
        BY <2>1, <3>1 DEF Of
      <4>2. /\ Cardinality(Of(rules', c)) <= Cardinality(Of(rules, c)) + 1
            /\ Cardinality(Of(rules', c)) \in Nat
        BY Zenon, <1>1, <4>1, OneMore
      <4> QED
        BY <1>1, <2>2, <2>3, <3>1, <4>2, <1>4
    <3>2. CASE c # m.container
      <4>1. Of(rules', c) = Of(rules, c)
        BY <2>1, <3>2 DEF Of
      <4> QED
        BY <1>2, <4>1
    <3> QED
      BY <3>1, <3>2
  <2> QED
    BY <1>3, <2>4, <2>5
<1> QED
  BY <1>5, <1>6, <1>7, RecordsShrink

-----------------------------------------------------------------------------
(* The safety of the manager.                                              *)

\* The invariant is inductive: all its parts hold together in every state the
\* manager can reach, whatever fails and whoever hangs up.
THEOREM Inductive == Spec => []IInv
<1>1. Init => IInv
  <2> SUFFICES ASSUME Init PROVE IInv
    OBVIOUS
  <2>1. TypeOK /\ TasksReady
    BY DEF Init, TypeOK, TasksReady, Ttls, Tasks, Labels
  <2>2. IsFiniteSet(rules) /\ Cardinality(rules) = 0
    BY FS_EmptySet DEF Init
  <2>3. CapHolds
    <3>1. \A c \in Containers : RulesOf(c) = {}
      BY DEF Init, RulesOf
    <3> QED
      BY <3>1, FS_EmptySet, BoundAssumption DEF CapHolds
  <2>4. LockHeld /\ HandlesFresh /\ ChecksHold /\ DoomedCovered
    BY TaskAssumption
    DEF Init, LockHeld, Holding, HandlesFresh, ChecksHold, DoomedCovered, Tasks
  <2>5. KernelRulesTracked /\ OneRecordPerRule
    BY DEF Init, KernelRulesTracked, OneRecordPerRule
  <2> QED
    BY <2>1, <2>2, <2>3, <2>4, <2>5 DEF IInv
<1>2. IInv /\ [Next]_vars => IInv'
  BY TypeReadyStep, LockStep, HandlesStep, ChecksStep, DoomedStep, TrackedStep,
     OneRecordStep, CapStep
  DEF IInv, TypeReady
<1> QED
  BY <1>1, <1>2, PTL DEF Spec

\* The manager never forgets a rule that is in force in the kernel, except one
\* whose insertion never returned to it.
THEOREM RulesTracked == Spec => []KernelRulesTracked
<1>1. IInv => KernelRulesTracked
  BY DEF IInv
<1> QED
  BY <1>1, Inductive, PTL

\* Concurrent insertions leave one record of a rule.
THEOREM OneRecord == Spec => []OneRecordPerRule
<1>1. IInv => OneRecordPerRule
  BY DEF IInv
<1> QED
  BY <1>1, Inductive, PTL

\* No container ever has more than MAX_DYNAMIC_RULES_PER_CONTAINER rules.
THEOREM CapRespected == Spec => []CapHolds
<1>1. IInv => CapHolds
  BY Zenon DEF IInv
<1> QED
  BY <1>1, Inductive, PTL

\* A flush returns by finding nothing to do, by its last delete or by the
\* emergency reset, unless a command failed or its caller hung up.
LEMMA FlushReturns ==
  ASSUME TypeReady, [Next]_vars, NEW t \in Cleaners,
         pc[t] # "idle", pc'[t] = "idle", faults' = faults
  PROVE  NothingToClean(t) \/ ResetOk(t) \/ \E r \in todo[t] : DeleteLast(t, r)
<1> USE TaskAssumption
    DEF TypeReady, TypeOK, Goto, Tasks, Cleaners
<1>1. ASSUME NEW s \in Inserters,
             \/ \E r \in Requests : StartInsert(s, r)
             \/ \E a \in Answers : OwnerLookup(s, a) \/ RecheckFails(s, a)
             \/ BeginNftInsert(s) \/ NftInsert(s)
             \/ RollbackMissing(s) \/ RollbackFails(s)
      PROVE  FALSE
  BY ZenonT(30), <1>1 DEF StartInsert, OwnerLookup, RecheckFails,
                          BeginNftInsert, NftInsert, RollbackMissing,
                          RollbackFails
<1>2. ASSUME NEW s \in Inserters, InsertReturn(s)
      PROVE  FALSE
  BY ZenonT(30), <1>2 DEF InsertReturn, Release
<1>3. ASSUME NEW s \in Cleaners, CleanReturn(s)
      PROVE  s = t
  BY Zenon, <1>3 DEF CleanReturn, Release
<1>4. ASSUME NEW s \in Inserters,
             \/ \E a \in Answers : RecheckOk(s, a)
             \/ InsertRefused(s) \/ RenewDuplicate(s) \/ RejectAtCap(s)
             \/ NftInsertRefused(s) \/ NftInsertLost(s) \/ RollbackDelete(s)
             \/ InsertHangUp(s)
      PROVE  InsertReturn(s)
  BY Zenon, <1>4 DEF RecheckOk, InsertRefused, RenewDuplicate, RejectAtCap,
              NftInsertRefused, NftInsertLost, RollbackDelete, InsertHangUp
<1>5. ASSUME NEW s \in Tasks, ResetOk(s)
      PROVE  \/ s \in Inserters /\ InsertReturn(s)
             \/ s \in Cleaners /\ CleanReturn(s)
  BY ZenonT(30), <1>5 DEF ResetOk, TaskReturn
<1>6. ASSUME \/ \E s \in Tasks : ResetFails(s)
             \/ \E s \in Cleaners : FlushHangUp(s)
      PROVE  FALSE
  <2>1. Fault
    BY ZenonT(30), <1>6 DEF ResetFails, FlushHangUp
  <2>2. faults \in Nat /\ faults' = faults + 1
    BY Zenon, <2>1 DEF Fault
  <2> QED
    BY <2>2
<1>7. ASSUME NEW s \in Cleaners,
             \/ \E j \in Jobs : StartClean(s, j)
             \/ BeginClean(s)
             \/ \E r \in todo[s] : \/ DeleteOne(s, r) \/ DeleteMissing(s, r)
                                   \/ DeleteFails(s, r)
      PROVE  FALSE
  BY ZenonT(30), <1>7 DEF StartClean, BeginClean, DeleteOne, DeleteMissing,
                          DeleteFails
<1>8. ASSUME NEW s \in Cleaners,
             NothingToClean(s) \/ \E r \in todo[s] : DeleteLast(s, r)
      PROVE  CleanReturn(s)
  BY ZenonT(30), <1>8 DEF NothingToClean, DeleteLast
<1>9. ASSUME Tick \/ BridgeUp \/ UNCHANGED vars
      PROVE  FALSE
  BY ZenonT(30), <1>9 DEF Tick, BridgeUp, vars
<1>10. ASSUME NEW s \in Cleaners,
              \/ NothingToClean(s) \/ ResetOk(s)
              \/ \E r \in todo[s] : DeleteLast(s, r)
       PROVE  \/ NothingToClean(t) \/ ResetOk(t)
              \/ \E r \in todo[t] : DeleteLast(t, r)
  <2>1. CleanReturn(s)
    BY ZenonT(30), <1>5, <1>8, <1>10
  <2>2. s = t
    BY ZenonT(30), <1>3, <2>1
  <2> QED
    BY ZenonT(30), <1>10, <2>2
<1>11. ASSUME NEW s \in Inserters, ResetOk(s)
       PROVE  FALSE
  BY Zenon, <1>2, <1>5, <1>11
<1> QED
  BY ZenonT(30), <1>1, <1>2, <1>4, <1>6, <1>7, <1>9, <1>10, <1>11
  DEF Next, InsertStep, CleanStep, Jobs, FlushJob, PruneJob, RemoveJob

\* The job that empties the sets is told from the others by its kind.
LEMMA FlushJobKind == FlushJob.kind = "flush"
  BY DEF FlushJob

\* A flush that succeeds has revoked every tracked grant.
THEOREM FlushComplete == Spec => FlushRevokes
<1>1. ASSUME IInv, [Next]_vars, NEW t \in Cleaners,
             job[t] = FlushJob, pc[t] # "idle", pc'[t] = "idle", faults' = faults
      PROVE  rules' = {} /\ \A k \in kernel' : k.handle \in lost'
  <2>1. TypeReady /\ DoomedCovered /\ KernelRulesTracked
    BY Zenon, <1>1 DEF IInv, TypeReady
  <2>2. NothingToClean(t) \/ ResetOk(t) \/ \E r \in todo[t] : DeleteLast(t, r)
    BY Zenon, <1>1, <2>1, FlushReturns
  <2>3. job[t].kind = "flush"
    BY Zenon, <1>1, FlushJobKind
  <2>4. rules' = {}
    <3>1. CASE NothingToClean(t)
      BY <2>3, <3>1 DEF NothingToClean, Doomed
    <3>2. CASE ResetOk(t)
      BY <3>2 DEF ResetOk
    <3>3. ASSUME NEW r \in todo[t], DeleteLast(t, r)
          PROVE  rules' = {}
      BY <2>3, <3>3 DEF DeleteLast, TrackedAfter
    <3> QED
      BY <2>2, <3>1, <3>2, <3>3
  <2>5. KernelRulesTracked'
    BY <1>1, <2>1, TrackedStep
  <2> QED
    BY <2>4, <2>5 DEF KernelRulesTracked
<1>2. IInv /\ [Next]_vars =>
        [\A t \in Cleaners :
           (/\ job[t] = FlushJob /\ pc[t] # "idle" /\ pc'[t] = "idle"
            /\ faults' = faults)
             => rules' = {} /\ \A k \in kernel' : k.handle \in lost']_vars
  BY <1>1
<1> QED
  BY <1>2, Inductive, PTL DEF Spec, FlushRevokes

-----------------------------------------------------------------------------
(* The records while nothing has failed.                                   *)

\* No command has failed, nobody has hung up, and the table is the manager's own.
Calm == faults = 0 /\ rebuilds = 0

\* The record's rule is in force.
Backed(r) == \E k \in kernel : Backs(r, k)

\* A flush or a container's cleanup has deleted the record's rule and is going to
\* forget the record.
Leaving(t, r) ==
  /\ pc[t] = "delete" /\ r \notin todo[t]
  /\ job[t] = FlushJob \/ job[t] = RemoveJob(r.container)

\* A handle names one record; a record is in force, or about to be forgotten.
InForce ==
  /\ \A r \in rules : r.nft_handle < nextHandle
  /\ \A r, q \in rules : r.nft_handle = q.nft_handle => r = q
  /\ \A r \in rules : Backed(r) \/ \E t \in Cleaners : Leaving(t, r)

\* What a cleanup still has to delete is in force.
Aimed ==
  \A t \in Cleaners : pc[t] = "delete" =>
    \A r \in todo[t] :
      /\ r \in rules /\ Backed(r)
      /\ job[t].kind = "remove" => r.container = job[t].container

\* What an insertion may have to roll back is in force, and no delete has failed.
Undoable ==
  /\ \A t \in Inserters : pc[t] \in {"recheck", "rollback"} =>
       \E r \in rules : /\ r.nft_handle = handle[t] /\ r.container = req[t].container
                        /\ Backed(r)
  /\ \A t \in Tasks : pc[t] # "reset"

CalmInv == Calm => InForce /\ Aimed /\ Undoable

\* The sweep deletes what had expired when it read the clock.
SweepInv ==
  /\ asOf <= clock
  /\ job[ExpiryTask] \in {PruneJob, NoJob}
  /\ pc[ExpiryTask] = "delete" => \A r \in todo[ExpiryTask] : Expired(r, asOf)

\* The steps that leave every record, every rule and every operation in progress
\* where it is.
QuietMove ==
  /\ UNCHANGED <<rules, kernel, nextHandle>>
  /\ \A t \in Cleaners : pc[t] = "delete" <=> pc'[t] = "delete"
  /\ \A t \in Cleaners : pc[t] = "delete" => job'[t] = job[t] /\ todo'[t] = todo[t]
  /\ \A t \in Inserters : pc'[t] \in {"recheck", "rollback"} =>
       pc[t] \in {"recheck", "rollback"} /\ handle'[t] = handle[t] /\ req'[t] = req[t]
  /\ \A t \in Tasks : pc'[t] = "reset" => pc[t] = "reset"

\* While nothing fails, every step is quiet or one of the manager's own.
LEMMA CalmMoves ==
  ASSUME TypeReady, [Next]_vars, Calm'
  PROVE  /\ Calm
         /\ \/ QuietMove
            \/ \E t \in Inserters : \/ RenewDuplicate(t) \/ NftInsert(t)
                                    \/ RollbackDelete(t) \/ RollbackMissing(t)
            \/ \E t \in Cleaners :
                 \/ BeginClean(t)
                 \/ \E r \in todo[t] : \/ DeleteOne(t, r) \/ DeleteLast(t, r)
                                       \/ DeleteMissing(t, r)
            \/ \E t \in Tasks : ResetOk(t)
<1>0. /\ pc \in [Tasks -> Labels] /\ job \in [Cleaners -> Jobs \cup {NoJob}]
      /\ todo \in [Cleaners -> SUBSET Record] /\ handle \in [Inserters -> Nat]
      /\ req \in [Inserters -> Requests \cup {NoRequest}]
      /\ Inserters \subseteq Tasks /\ Cleaners \subseteq Tasks
      /\ Inserters \cap Cleaners = {} /\ faults \in Nat /\ rebuilds \in Nat
  BY Zenon, TaskAssumption DEF TypeReady, TypeOK, Tasks
<1>1. ASSUME Fault PROVE FALSE
  BY <1>0, <1>1 DEF Fault, Calm
<1>2. ASSUME BridgeUp PROVE FALSE
  BY <1>0, <1>2 DEF BridgeUp, Calm
<1>3. ASSUME UNCHANGED <<faults, rebuilds>> PROVE Calm
  BY Zenon, <1>3 DEF Calm
<1>4. ASSUME NEW s \in Inserters, InsertReturn(s), UNCHANGED <<rules, kernelVars>>
      PROVE  QuietMove
  BY Zenon, <1>0, <1>4 DEF InsertReturn, Release, Goto, cleanVars, kernelVars, QuietMove
<1>5. ASSUME NEW s \in Inserters,
             \/ \E a \in Answers : RecheckOk(s, a)
             \/ InsertRefused(s) \/ RejectAtCap(s) \/ NftInsertRefused(s)
      PROVE  Calm /\ QuietMove
  BY Zenon, <1>3, <1>4, <1>5 DEF RecheckOk, InsertRefused, RejectAtCap, NftInsertRefused
<1>6. ASSUME NEW s \in Inserters, NEW l \in {"lookup", "waitlock", "nft"},
             Goto(s, l), UNCHANGED <<rules, kernelVars, handle, cleanVars>>,
             \A t \in Inserters : t # s => req'[t] = req[t]
      PROVE  QuietMove
  <2>1. /\ pc'[s] = l /\ \A t \in Tasks : t # s => pc'[t] = pc[t]
    BY Zenon, <1>0, <1>6 DEF Goto
  <2>2. l \notin {"delete", "recheck", "rollback", "reset"}
    OBVIOUS
  <2> QED BY Zenon, <1>0, <1>6, <2>1, <2>2 DEF cleanVars, kernelVars, QuietMove
<1>7. ASSUME NEW s \in Inserters, NEW r \in Requests, StartInsert(s, r)
      PROVE  Calm /\ QuietMove
  <2>1. \A t \in Inserters : t # s => req'[t] = req[t]
    BY Zenon, <1>0, <1>7 DEF StartInsert
  <2> QED BY Zenon, <1>3, <1>6, <1>7, <2>1 DEF StartInsert
<1>8. ASSUME NEW s \in Inserters, NEW a \in Answers, OwnerLookup(s, a)
      PROVE  Calm /\ QuietMove
  BY Zenon, <1>3, <1>6, <1>8 DEF OwnerLookup
<1>9. ASSUME NEW s \in Inserters, BeginNftInsert(s)
      PROVE  Calm /\ QuietMove
  BY Zenon, <1>3, <1>6, <1>9 DEF BeginNftInsert, insertVars
<1>10. ASSUME NEW s \in Inserters, NEW a \in Answers, RecheckFails(s, a)
       PROVE  Calm /\ QuietMove
  BY Zenon, <1>0, <1>3, <1>10
  DEF RecheckFails, Goto, insertVars, cleanVars, kernelVars, QuietMove
<1>11. ASSUME NEW s \in Cleaners, NEW j \in Jobs, StartClean(s, j)
       PROVE  Calm /\ QuietMove
  BY Zenon, <1>0, <1>3, <1>11 DEF StartClean, Goto, insertVars, kernelVars, QuietMove
<1>12. ASSUME NEW s \in Cleaners, NothingToClean(s)
       PROVE  Calm /\ QuietMove
  BY Zenon, <1>0, <1>3, <1>12
  DEF NothingToClean, CleanReturn, Release, Goto, insertVars, kernelVars, QuietMove
<1>13. ASSUME Tick \/ UNCHANGED vars
       PROVE  Calm /\ QuietMove
  BY Zenon, <1>3, <1>13 DEF Tick, vars, insertVars, cleanVars, kernelVars, QuietMove
<1>14. ASSUME \/ \E s \in Inserters : \/ NftInsertLost(s) \/ RollbackFails(s)
                                      \/ InsertHangUp(s)
              \/ \E s \in Cleaners : \/ FlushHangUp(s)
                                     \/ \E r \in todo[s] : DeleteFails(s, r)
              \/ \E s \in Tasks : ResetFails(s)
       PROVE  FALSE
  BY Zenon, <1>1, <1>14
  DEF NftInsertLost, RollbackFails, InsertHangUp, FlushHangUp, DeleteFails, ResetFails
<1>15. ASSUME NEW s \in Inserters,
              \/ RenewDuplicate(s) \/ NftInsert(s) \/ RollbackDelete(s) \/ RollbackMissing(s)
       PROVE  Calm
  BY Zenon, <1>3, <1>15 DEF RenewDuplicate, NftInsert, RollbackDelete, RollbackMissing
<1>16. ASSUME NEW s \in Cleaners,
              \/ BeginClean(s)
              \/ \E r \in todo[s] : \/ DeleteOne(s, r) \/ DeleteLast(s, r)
                                    \/ DeleteMissing(s, r)
       PROVE  Calm
  BY Zenon, <1>3, <1>16 DEF BeginClean, DeleteOne, DeleteLast, DeleteMissing
<1>17. ASSUME NEW s \in Tasks, ResetOk(s) PROVE Calm
  BY Zenon, <1>3, <1>17 DEF ResetOk
<1> QED
  BY ZenonT(60), <1>0, <1>2, <1>5, <1>7, <1>8, <1>9, <1>10, <1>11, <1>12, <1>13, <1>14,
     <1>15, <1>16, <1>17
  DEF Next, InsertStep, CleanStep, Jobs, FlushJob, PruneJob, RemoveJob, Cleaners

\* The types the next lemmas use.
LEMMA Shapes ==
  ASSUME TypeReady
  PROVE  /\ pc \in [Tasks -> Labels] /\ job \in [Cleaners -> Jobs \cup {NoJob}]
         /\ todo \in [Cleaners -> SUBSET Record] /\ handle \in [Inserters -> Nat]
         /\ req \in [Inserters -> Requests \cup {NoRequest}]
         /\ Inserters \subseteq Tasks /\ Cleaners \subseteq Tasks
         /\ Inserters \cap Cleaners = {}
         /\ rules \subseteq Record /\ kernel \subseteq KernelRule /\ nextHandle \in Nat
         /\ \A r \in Record : r.nft_handle \in Nat
BY TaskAssumption DEF TypeReady, TypeOK, Tasks, Record

\* A task that has the lock is alone past its acquisition; without a holder there
\* is nobody.
LEMMA Alone ==
  ASSUME TypeReady, LockHeld, NEW t \in Tasks \cup {NoTask}, lock = t
  PROVE  \A s \in Tasks : s # t => pc[s] \notin Holding
BY Zenon, TaskAssumption DEF LockHeld, Holding, Tasks

\* A quiet step keeps what is said of the records.
LEMMA QuietCalm ==
  ASSUME TypeReady, QuietMove, InForce, Aimed, Undoable
  PROVE  InForce' /\ Aimed' /\ Undoable'
<1>0. Cleaners \subseteq Tasks /\ Inserters \subseteq Tasks
  BY Zenon DEF Tasks
<1>1. rules' = rules /\ kernel' = kernel /\ nextHandle' = nextHandle
  BY Zenon DEF QuietMove
<1>2. \A r \in rules : Backed(r) => Backed(r)'
  BY Zenon, <1>1 DEF Backed, Backs
<1>3. \A r \in rules, t \in Cleaners : Leaving(t, r) => Leaving(t, r)'
  BY Zenon DEF Leaving, QuietMove
<1>4. InForce'
  BY Zenon, <1>1, <1>2, <1>3 DEF InForce
<1>5. Aimed'
  BY Zenon, <1>1, <1>2 DEF Aimed, QuietMove
<1>6. Undoable'
  BY Zenon, <1>0, <1>1, <1>2 DEF Undoable, QuietMove
<1> QED BY Zenon, <1>4, <1>5, <1>6

\* A renewal replaces a record by one with the same handle; the lock is free, so
\* every record is in force.
LEMMA RenewCalm ==
  ASSUME TypeReady, LockHeld, NEW t \in Inserters, RenewDuplicate(t),
         InForce, Aimed, Undoable
  PROVE  InForce' /\ Aimed' /\ Undoable'
<1>0. /\ pc \in [Tasks -> Labels] /\ Inserters \subseteq Tasks /\ Cleaners \subseteq Tasks
      /\ rules \subseteq Record
  BY Zenon, Shapes
<1>1. /\ lock = NoTask /\ pc' = [pc EXCEPT ![t] = "idle"]
      /\ kernel' = kernel /\ nextHandle' = nextHandle
  BY Zenon DEF RenewDuplicate, InsertReturn, Release, Goto, kernelVars
<1>2. \A s \in Tasks : pc[s] \notin Holding
  BY Zenon, <1>1, Alone, TaskAssumption
<1>3. \A s \in Tasks : pc'[s] \notin Holding
  BY Zenon, <1>0, <1>1, <1>2 DEF Holding
<1> DEFINE Renewed(r) ==
      [r EXCEPT !.expires_at =
         renew_expiration(r.expires_at, deadline[t], req[t].policy)]
<1>4. PICK r \in rules : rules' = (rules \ {r}) \cup {Renewed(r)}
  BY Zenon DEF RenewDuplicate
<1>n. PICK n : n = Renewed(r)
  BY Zenon
<1>5. n.nft_handle = r.nft_handle /\ n.src_ip = r.src_ip /\ n.flow = r.flow
  BY Zenon, <1>0, <1>n DEF Record
<1> HIDE DEF Renewed
<1>6. \A q \in rules' : q = n \/ (q \in rules /\ q # r)
  BY Zenon, <1>4, <1>n
<1>7. \A q \in rules : Backed(q)
  BY Zenon, <1>0, <1>2 DEF InForce, Leaving, Holding
<1>8. \A q \in rules : Backed(q)'
  BY Zenon, <1>1, <1>7 DEF Backed, Backs
<1>9. Backed(n)'
  BY Zenon, <1>5, <1>8 DEF Backed, Backs
<1>10. InForce'
  <2>1. \A q \in rules' : q.nft_handle < nextHandle'
    BY Zenon, <1>1, <1>5, <1>6 DEF InForce
  <2>2. \A p, q \in rules' : p.nft_handle = q.nft_handle => p = q
    BY Zenon, <1>5, <1>6 DEF InForce
  <2>3. \A q \in rules' : Backed(q)'
    BY Zenon, <1>6, <1>8, <1>9
  <2> QED BY Zenon, <2>1, <2>2, <2>3 DEF InForce
<1>11. Aimed' /\ Undoable'
  BY Zenon, <1>0, <1>3 DEF Aimed, Undoable, Holding
<1> QED BY Zenon, <1>10, <1>11

\* A new record has the kernel's new handle, and its rule is in force.
LEMMA InsertCalm ==
  ASSUME TypeReady, LockHeld, NEW t \in Inserters, NftInsert(t),
         InForce, Aimed, Undoable
  PROVE  InForce' /\ Aimed' /\ Undoable'
<1>0. /\ pc \in [Tasks -> Labels] /\ Inserters \subseteq Tasks /\ Cleaners \subseteq Tasks
      /\ rules \subseteq Record /\ handle \in [Inserters -> Nat] /\ nextHandle \in Nat
      /\ \A r \in Record : r.nft_handle \in Nat
      /\ Inserters \cap Cleaners = {}
  BY Zenon, Shapes
<1>m. PICK m, k : m = MadeRecord(t, nextHandle) /\ k = MadeKernelRule(t, nextHandle)
  OBVIOUS
<1>1. /\ pc[t] = "nft" /\ pc' = [pc EXCEPT ![t] = "recheck"]
      /\ rules' = rules \cup {m} /\ kernel' = kernel \cup {k}
      /\ nextHandle' = nextHandle + 1 /\ req' = req
      /\ handle' = [handle EXCEPT ![t] = nextHandle]
  BY Zenon, <1>m DEF NftInsert, NftAdd, Goto
<1>2. m.nft_handle = nextHandle /\ m.container = req[t].container
  BY Zenon, <1>m DEF MadeRecord
<1>3. Backs(m, k)
  BY Zenon, <1>m DEF MadeRecord, MadeKernelRule, Backs
<1>4. lock = t
  BY Zenon, <1>0, <1>1 DEF LockHeld, Holding
<1>5. \A s \in Tasks : s # t => pc[s] \notin Holding
  BY Zenon, <1>0, <1>4, Alone
<1>6. /\ \A s \in Tasks : s # t => pc'[s] \notin Holding
      /\ pc'[t] = "recheck" /\ handle'[t] = nextHandle
  BY Zenon, <1>0, <1>1, <1>5
<1>7. Backed(m)'
  BY Zenon, <1>1, <1>3 DEF Backed, Backs
<1>8. \A q \in rules : Backed(q)'
  <2>1. \A q \in rules : Backed(q)
    BY Zenon, <1>0, <1>1, <1>5 DEF InForce, Leaving, Holding
  <2> QED BY Zenon, <1>1, <2>1 DEF Backed, Backs
<1>9. \A q \in rules : q.nft_handle < nextHandle /\ q.nft_handle \in Nat
  BY Zenon, <1>0 DEF InForce
<1>10. InForce'
  <2>1. \A q \in rules : q.nft_handle < nextHandle + 1 /\ q.nft_handle # nextHandle
    BY <1>0, <1>9
  <2>2. nextHandle < nextHandle + 1
    BY <1>0
  <2>3. \A q \in rules' : q.nft_handle < nextHandle'
    BY Zenon, <1>1, <1>2, <2>1, <2>2
  <2>4. \A p, q \in rules' : p.nft_handle = q.nft_handle => p = q
    BY Zenon, <1>1, <1>2, <2>1 DEF InForce
  <2>5. \A q \in rules' : Backed(q)'
    BY Zenon, <1>1, <1>7, <1>8
  <2> QED BY Zenon, <2>3, <2>4, <2>5 DEF InForce
<1>11. Aimed'
  BY Zenon, <1>0, <1>6 DEF Aimed, Holding
<1>12. Undoable'
  <2>1. ASSUME NEW s \in Inserters, pc'[s] \in {"recheck", "rollback"}
        PROVE  \E r \in rules' : /\ r.nft_handle = handle'[s] /\ r.container = req'[s].container
                                 /\ Backed(r)'
    <3>1. s = t
      BY Zenon, <1>0, <1>6, <2>1 DEF Holding
    <3> QED BY Zenon, <1>1, <1>2, <1>6, <1>7, <3>1
  <2>2. \A s \in Tasks : pc'[s] # "reset"
    BY Zenon, <1>6 DEF Holding
  <2> QED BY Zenon, <2>1, <2>2 DEF Undoable
<1> QED BY Zenon, <1>10, <1>11, <1>12

\* The jobs by their kinds.
LEMMA JobKinds ==
  /\ FlushJob.kind = "flush" /\ PruneJob.kind = "prune"
  /\ \A c : RemoveJob(c).kind = "remove" /\ RemoveJob(c).container = c
  /\ \A j \in Jobs : j.kind \in {"flush", "prune", "remove"}
  /\ \A j \in Jobs : j.kind = "flush" => j = FlushJob
  /\ \A j \in Jobs : j.kind = "prune" => j = PruneJob
  /\ \A j \in Jobs : j.kind = "remove" => j = RemoveJob(j.container)
BY DEF Jobs, FlushJob, PruneJob, RemoveJob

\* Deleting one handle leaves every rule with another one in force.
LEMMA OthersStay ==
  ASSUME NEW h, NftDelete(h)
  PROVE  \A r : Backed(r) /\ r.nft_handle # h => Backed(r)'
BY Zenon DEF NftDelete, Backed, Backs

\* A rollback removes the one record of its handle with its rule.
LEMMA RollbackCalm ==
  ASSUME TypeReady, LockHeld, NEW t \in Inserters, RollbackDelete(t),
         InForce, Aimed, Undoable
  PROVE  InForce' /\ Aimed' /\ Undoable'
<1>0. /\ pc \in [Tasks -> Labels] /\ Inserters \subseteq Tasks /\ Cleaners \subseteq Tasks
      /\ Inserters \cap Cleaners = {}
  BY Zenon, Shapes
<1>1. /\ pc[t] = "rollback" /\ pc' = [pc EXCEPT ![t] = "idle"]
      /\ rules' = Untrack(rules, req[t].container, handle[t])
      /\ NftDelete(handle[t]) /\ nextHandle' = nextHandle
  BY Zenon DEF RollbackDelete, InsertReturn, Release, Goto, NftDelete
<1>2. lock = t
  BY Zenon, <1>0, <1>1 DEF LockHeld, Holding
<1>3. \A s \in Tasks : s # t => pc[s] \notin Holding
  BY Zenon, <1>0, <1>2, Alone
<1>4. \A s \in Tasks : pc'[s] \notin Holding
  BY Zenon, <1>0, <1>1, <1>3 DEF Holding
<1>5. PICK r \in rules : r.nft_handle = handle[t] /\ r.container = req[t].container
  BY Zenon, <1>1 DEF Undoable
<1>6. \A q \in rules' : q \in rules /\ q.nft_handle # handle[t]
  BY Zenon, <1>1, <1>5 DEF Untrack, InForce
<1>7. \A q \in rules' : Backed(q)'
  <2>1. \A q \in rules : Backed(q)
    BY Zenon, <1>0, <1>1, <1>3 DEF InForce, Leaving, Holding
  <2> QED BY Zenon, <1>1, <1>6, <2>1, OthersStay
<1>8. InForce'
  BY Zenon, <1>1, <1>6, <1>7 DEF InForce
<1>9. Aimed' /\ Undoable'
  BY Zenon, <1>0, <1>4 DEF Aimed, Undoable, Holding
<1> QED BY Zenon, <1>8, <1>9

\* A cleanup starts on records that are all in force.
LEMMA BeginCalm ==
  ASSUME TypeReady, LockHeld, NEW t \in Cleaners, BeginClean(t),
         InForce, Aimed, Undoable
  PROVE  InForce' /\ Aimed' /\ Undoable'
<1>0. /\ pc \in [Tasks -> Labels] /\ Inserters \subseteq Tasks /\ Cleaners \subseteq Tasks
      /\ Inserters \cap Cleaners = {} /\ todo \in [Cleaners -> SUBSET Record]
  BY Zenon, Shapes
<1>1. /\ lock = NoTask /\ pc' = [pc EXCEPT ![t] = "delete"] /\ job' = job
      /\ todo' = [todo EXCEPT ![t] = Doomed(job[t])]
      /\ rules' = rules /\ kernel' = kernel /\ nextHandle' = nextHandle
  BY Zenon DEF BeginClean, Goto, kernelVars
<1>2. \A s \in Tasks : pc[s] \notin Holding
  BY Zenon, <1>1, Alone, TaskAssumption
<1>3. /\ \A s \in Tasks : s # t => pc'[s] \notin Holding
      /\ pc'[t] = "delete" /\ todo'[t] = Doomed(job[t])
  BY Zenon, <1>0, <1>1, <1>2
<1>4. \A q \in rules : Backed(q)'
  <2>1. \A q \in rules : Backed(q)
    BY Zenon, <1>0, <1>2 DEF InForce, Leaving, Holding
  <2> QED BY Zenon, <1>1, <2>1 DEF Backed, Backs
<1>5. InForce'
  BY Zenon, <1>1, <1>4 DEF InForce
<1>6. \A r \in Doomed(job[t]) :
        r \in rules /\ (job[t].kind = "remove" => r.container = job[t].container)
  BY Zenon DEF Doomed
<1>7. Aimed'
  BY Zenon, <1>0, <1>1, <1>3, <1>4, <1>6 DEF Aimed
<1>8. Undoable'
  BY Zenon, <1>0, <1>3 DEF Undoable, Holding
<1> QED BY Zenon, <1>5, <1>7, <1>8

\* What a delete of q leaves: every other record as it was.
LEMMA DeleteLeaves ==
  ASSUME TypeReady, LockHeld, NEW t \in Cleaners, pc[t] = "delete", NEW q \in todo[t],
         NftDelete(q.nft_handle), InForce, Aimed
  PROVE  /\ \A s \in Tasks : s # t => pc[s] \notin Holding
         /\ q \in rules /\ (job[t].kind = "remove" => q.container = job[t].container)
         /\ \A r \in rules : r # q => r.nft_handle # q.nft_handle
         /\ \A r \in rules : r # q => Backed(r)' \/ Leaving(t, r)
         /\ job[t] \in Jobs
<1>0. Cleaners \subseteq Tasks
  BY Zenon, Shapes
<1>1. lock = t
  BY Zenon, <1>0 DEF LockHeld, Holding
<1>2. \A s \in Tasks : s # t => pc[s] \notin Holding
  BY Zenon, <1>0, <1>1, Alone
<1>3. q \in rules /\ (job[t].kind = "remove" => q.container = job[t].container)
  BY Zenon DEF Aimed
<1>4. \A r \in rules : r # q => r.nft_handle # q.nft_handle
  BY Zenon, <1>3 DEF InForce
<1>5. \A r \in rules : Backed(r) \/ Leaving(t, r)
  BY Zenon, <1>0, <1>2 DEF InForce, Leaving, Holding
<1>6. \A r \in rules : r # q => Backed(r)' \/ Leaving(t, r)
  BY Zenon, <1>4, <1>5, OthersStay
<1>7. job[t] \in Jobs
  BY Zenon DEF TypeReady, TasksReady
<1> QED BY Zenon, <1>2, <1>3, <1>4, <1>6, <1>7

\* A sweep forgets the rule it deletes; a flush or a container's cleanup is going to.
LEMMA DeleteOneCalm ==
  ASSUME TypeReady, LockHeld, NEW t \in Cleaners, NEW q \in todo[t], DeleteOne(t, q),
         InForce, Aimed, Undoable
  PROVE  InForce' /\ Aimed' /\ Undoable'
<1>0. /\ pc \in [Tasks -> Labels] /\ Inserters \subseteq Tasks /\ Cleaners \subseteq Tasks
      /\ Inserters \cap Cleaners = {} /\ todo \in [Cleaners -> SUBSET Record]
  BY Zenon, Shapes
<1>1. /\ pc[t] = "delete" /\ pc' = pc /\ job' = job /\ todo'[t] = todo[t] \ {q}
      /\ rules' = TrackedAfter(job[t], q, FALSE)
      /\ NftDelete(q.nft_handle) /\ nextHandle' = nextHandle
  BY Zenon, <1>0 DEF DeleteOne, NftDelete
<1>2. \A s \in Tasks : s # t => pc[s] \notin Holding
  BY Zenon, <1>1, DeleteLeaves
<1>3. /\ q \in rules /\ (job[t].kind = "remove" => q.container = job[t].container)
      /\ \A r \in rules : r # q => r.nft_handle # q.nft_handle
      /\ \A r \in rules : r # q => Backed(r)' \/ Leaving(t, r)
      /\ job[t] \in Jobs
  BY Zenon, <1>1, DeleteLeaves
<1>4. \/ job[t].kind = "prune" /\ rules' = Untrack(rules, q.container, q.nft_handle)
      \/ job[t] \in {FlushJob, RemoveJob(q.container)} /\ rules' = rules
  <2>1. CASE job[t].kind = "prune"
    BY Zenon, <1>1, <2>1 DEF TrackedAfter
  <2>2. CASE job[t].kind # "prune"
    <3>1. rules' = rules
      BY Zenon, <1>1, <2>2 DEF TrackedAfter
    <3> QED BY Zenon, <1>3, <2>2, <3>1, JobKinds
  <2> QED BY Zenon, <2>1, <2>2
<1>5. /\ \A r \in rules' : r \in rules
      /\ \A r \in rules : r # q => r \in rules'
      /\ q \in rules' => job[t] \in {FlushJob, RemoveJob(q.container)}
  BY Zenon, <1>3, <1>4 DEF Untrack
<1>6. \A r \in rules' : Backed(r)' \/ Leaving(t, r)'
  <2>1. \A r : Leaving(t, r) => Leaving(t, r)'
    BY Zenon, <1>1 DEF Leaving
  <2>2. q \in rules' => Leaving(t, q)'
    BY Zenon, <1>1, <1>5 DEF Leaving
  <2> QED BY Zenon, <1>3, <1>5, <2>1, <2>2
<1>7. InForce'
  BY Zenon, <1>1, <1>5, <1>6 DEF InForce
<1>8. Aimed'
  <2>1. ASSUME NEW s \in Cleaners, pc'[s] = "delete", NEW r \in todo'[s]
        PROVE  /\ r \in rules' /\ Backed(r)'
               /\ job'[s].kind = "remove" => r.container = job'[s].container
    <3>1. s = t /\ r \in todo[t] /\ r # q
      BY Zenon, <1>0, <1>1, <1>2, <2>1 DEF Holding
    <3>2. /\ r \in rules /\ ~Leaving(t, r)
          /\ job[t].kind = "remove" => r.container = job[t].container
      BY Zenon, <1>1, <3>1 DEF Aimed, Leaving
    <3> QED BY Zenon, <1>1, <1>3, <1>5, <3>1, <3>2
  <2> QED BY Zenon, <2>1 DEF Aimed
<1>9. Undoable'
  BY Zenon, <1>0, <1>1, <1>2 DEF Undoable, Holding
<1> QED BY Zenon, <1>7, <1>8, <1>9

\* The last delete forgets with its own record all that were waiting for it.
LEMMA DeleteLastCalm ==
  ASSUME TypeReady, LockHeld, NEW t \in Cleaners, NEW q \in todo[t], DeleteLast(t, q),
         InForce, Aimed, Undoable
  PROVE  InForce' /\ Aimed' /\ Undoable'
<1>0. /\ pc \in [Tasks -> Labels] /\ Inserters \subseteq Tasks /\ Cleaners \subseteq Tasks
      /\ Inserters \cap Cleaners = {}
  BY Zenon, Shapes
<1>1. /\ pc[t] = "delete" /\ pc' = [pc EXCEPT ![t] = "idle"]
      /\ rules' = TrackedAfter(job[t], q, TRUE)
      /\ NftDelete(q.nft_handle) /\ nextHandle' = nextHandle
  BY Zenon DEF DeleteLast, CleanReturn, Release, Goto, NftDelete
<1>2. \A s \in Tasks : s # t => pc[s] \notin Holding
  BY Zenon, <1>1, DeleteLeaves
<1>3. /\ q \in rules /\ (job[t].kind = "remove" => q.container = job[t].container)
      /\ \A r \in rules : r # q => Backed(r)' \/ Leaving(t, r)
      /\ job[t] \in Jobs
  BY Zenon, <1>1, DeleteLeaves
<1>4. \A s \in Tasks : pc'[s] \notin Holding
  BY Zenon, <1>0, <1>1, <1>2 DEF Holding
<1>5. \A r \in rules' : r \in rules /\ r # q /\ ~Leaving(t, r)
  <2>1. CASE job[t].kind = "prune"
    <3>1. rules' = Untrack(rules, q.container, q.nft_handle)
      BY Zenon, <1>1, <2>1 DEF TrackedAfter
    <3>2. \A r : ~Leaving(t, r)
      BY Zenon, <2>1, JobKinds DEF Leaving
    <3> QED BY Zenon, <3>1, <3>2 DEF Untrack
  <2>2. CASE job[t].kind = "remove"
    <3>1. rules' = rules \ RulesOf(job[t].container)
      BY Zenon, <1>1, <2>2 DEF TrackedAfter
    <3>2. \A r \in rules : Leaving(t, r) => r.container = job[t].container
      BY Zenon, <2>2, JobKinds DEF Leaving
    <3> QED BY Zenon, <1>3, <2>2, <3>1, <3>2 DEF RulesOf
  <2>3. CASE job[t].kind = "flush"
    BY Zenon, <1>1, <2>3 DEF TrackedAfter
  <2> QED BY Zenon, <1>3, <2>1, <2>2, <2>3, JobKinds
<1>6. \A r \in rules' : Backed(r)'
  BY Zenon, <1>3, <1>5
<1>7. InForce'
  BY Zenon, <1>1, <1>5, <1>6 DEF InForce
<1>8. Aimed' /\ Undoable'
  BY Zenon, <1>0, <1>4 DEF Aimed, Undoable, Holding
<1> QED BY Zenon, <1>7, <1>8

\* While nothing fails the records and the kernel agree after every step: there is
\* no delete of a rule that is not there, and so no emergency reset.
LEMMA CalmStep ==
  ASSUME TypeReady, LockHeld, CalmInv, [Next]_vars
  PROVE  CalmInv'
<1> SUFFICES ASSUME Calm' PROVE InForce' /\ Aimed' /\ Undoable'
  BY Zenon DEF CalmInv
<1>1. Calm
  BY Zenon, CalmMoves
<1>2. InForce /\ Aimed /\ Undoable
  BY Zenon, <1>1 DEF CalmInv
<1>3. ASSUME NEW t \in Inserters, RollbackMissing(t) PROVE FALSE
  BY Zenon, <1>2, <1>3 DEF RollbackMissing, Undoable, Backed, Backs, InKernel
<1>4. ASSUME NEW t \in Cleaners, NEW r \in todo[t], DeleteMissing(t, r) PROVE FALSE
  BY Zenon, <1>2, <1>4 DEF DeleteMissing, Aimed, Backed, Backs, InKernel
<1>5. ASSUME NEW t \in Tasks, ResetOk(t) PROVE FALSE
  BY Zenon, <1>2, <1>5 DEF ResetOk, Undoable
<1> QED
  BY Zenon, <1>2, <1>3, <1>4, <1>5, CalmMoves, QuietCalm, RenewCalm, InsertCalm,
     RollbackCalm, BeginCalm, DeleteOneCalm, DeleteLastCalm

\* In every reachable state in which nothing has failed, each record names the one
\* rule of its handle, in force or about to be forgotten.
THEOREM CalmRecords == Spec => []CalmInv
<1>1. Init => CalmInv
  <2>1. Inserters \subseteq Tasks /\ Cleaners \subseteq Tasks
    BY Zenon DEF Tasks
  <2> SUFFICES ASSUME Init PROVE CalmInv
    OBVIOUS
  <2>2. rules = {} /\ \A t \in Tasks : pc[t] = "idle"
    BY Zenon DEF Init
  <2> QED BY <2>1, <2>2 DEF CalmInv, InForce, Aimed, Undoable
<1>2. IInv /\ CalmInv /\ [Next]_vars => CalmInv'
  BY Zenon, CalmStep DEF IInv, TypeReady
<1> QED BY <1>1, <1>2, Inductive, PTL DEF Spec

\* GET /rules/dynamic shows rules that are in force, unless a command has failed or
\* the table was replaced by POST /bridge/up.
THEOREM ListedAreInForce == Spec => []ListedUntilRebuild
<1>1. IInv /\ CalmInv => ListedUntilRebuild
  <2> SUFFICES ASSUME IInv, CalmInv, Calm, lock = NoTask, NEW r \in rules
               PROVE  Backed(r)
    BY Zenon DEF ListedUntilRebuild, Calm, Backed
  <2>1. \A t \in Cleaners : pc[t] # "delete"
    <3>1. TypeReady /\ LockHeld /\ Cleaners \subseteq Tasks
      BY Zenon DEF IInv, TypeReady, Tasks
    <3>2. NoTask \notin Cleaners
      BY Zenon, TaskAssumption DEF Tasks
    <3> QED BY Zenon, <3>1, <3>2, Alone DEF Holding
  <2> QED BY Zenon, <2>1 DEF CalmInv, InForce, Leaving
<1> QED BY <1>1, CalmRecords, Inductive, PTL

-----------------------------------------------------------------------------
(* The sweep and the clock.                                                *)

\* The sweep's reading of the clock, and its job, change when it starts and when it
\* returns; the clock only goes on.
LEMMA SweepMoves ==
  ASSUME TypeReady, [Next]_vars
  PROVE  /\ clock' = clock \/ clock' = clock + 1
         /\ \/ asOf' = asOf /\ job'[ExpiryTask] = job[ExpiryTask]
            \/ StartClean(ExpiryTask, PruneJob)
            \/ asOf' = 0 /\ job'[ExpiryTask] = NoJob /\ pc'[ExpiryTask] = "idle"
<1> DEFINE Same == asOf' = asOf /\ job'[ExpiryTask] = job[ExpiryTask]
           Ends == asOf' = 0 /\ job'[ExpiryTask] = NoJob /\ pc'[ExpiryTask] = "idle"
<1>0. /\ job \in [Cleaners -> Jobs \cup {NoJob}] /\ ExpiryTask \in Cleaners
      /\ pc \in [Tasks -> Labels] /\ ExpiryTask \in Tasks
  BY Zenon DEF TypeReady, TypeOK, Cleaners, Tasks
<1>1. ASSUME NEW s \in Inserters, InsertReturn(s) PROVE Same
  BY Zenon, <1>1 DEF InsertReturn, cleanVars
<1>2. ASSUME NEW s \in Cleaners, CleanReturn(s) PROVE Same \/ Ends
  BY Zenon, <1>0, <1>2 DEF CleanReturn, Release, Goto
<1>3. ASSUME NEW s \in Inserters,
             \/ \E r \in Requests : StartInsert(s, r)
             \/ \E a \in Answers : OwnerLookup(s, a) \/ RecheckFails(s, a)
             \/ BeginNftInsert(s) \/ NftInsert(s)
             \/ RollbackMissing(s) \/ RollbackFails(s)
      PROVE  clock' = clock /\ Same
  BY Zenon, <1>3 DEF StartInsert, OwnerLookup, RecheckFails, BeginNftInsert, NftInsert,
     RollbackMissing, RollbackFails, cleanVars
<1>4. ASSUME NEW s \in Inserters,
             \/ \E a \in Answers : RecheckOk(s, a)
             \/ InsertRefused(s) \/ RenewDuplicate(s) \/ RejectAtCap(s)
             \/ NftInsertRefused(s) \/ NftInsertLost(s) \/ RollbackDelete(s)
             \/ InsertHangUp(s)
      PROVE  clock' = clock /\ Same
  BY Zenon, <1>1, <1>4 DEF RecheckOk, InsertRefused, RenewDuplicate, RejectAtCap,
     NftInsertRefused, NftInsertLost, RollbackDelete, InsertHangUp
<1>5. ASSUME NEW s \in Tasks, ResetOk(s) \/ ResetFails(s)
      PROVE  clock' = clock /\ (Same \/ Ends)
  BY Zenon, <1>1, <1>2, <1>5 DEF ResetOk, ResetFails, TaskReturn
<1>6. ASSUME NEW s \in Cleaners, NEW j \in Jobs, StartClean(s, j), j.kind # "prune",
             s # ExpiryTask
      PROVE  clock' = clock /\ Same
  BY Zenon, <1>0, <1>6, JobKinds DEF StartClean
<1>7. ASSUME NEW s \in Cleaners,
             \/ BeginClean(s)
             \/ \E r \in todo[s] : \/ DeleteOne(s, r) \/ DeleteMissing(s, r)
                                   \/ DeleteFails(s, r)
      PROVE  clock' = clock /\ Same
  BY Zenon, <1>7 DEF BeginClean, DeleteOne, DeleteMissing, DeleteFails, cleanVars
<1>8. ASSUME NEW s \in Cleaners,
             \/ NothingToClean(s) \/ FlushHangUp(s)
             \/ \E r \in todo[s] : DeleteLast(s, r)
      PROVE  clock' = clock /\ (Same \/ Ends)
  BY Zenon, <1>2, <1>8 DEF NothingToClean, FlushHangUp, DeleteLast
<1>9. ASSUME Tick \/ BridgeUp \/ UNCHANGED vars
      PROVE  (clock' = clock \/ clock' = clock + 1) /\ Same
  BY Zenon, <1>9 DEF Tick, BridgeUp, vars, cleanVars
<1>10. /\ \A c \in Containers : RemoveJob(c) \in Jobs
       /\ FlushJob \in Jobs
       /\ \A c : RemoveJob(c).kind # "prune"
       /\ FlushJob.kind # "prune"
  BY DEF Jobs, RemoveJob, FlushJob
<1>11. EventTask # ExpiryTask /\ EventTask \in Cleaners
       /\ \A t \in Flushers : t # ExpiryTask /\ t \in Cleaners
  BY Zenon, TaskAssumption DEF Cleaners
<1>12. ASSUME StartClean(ExpiryTask, PruneJob) PROVE clock' = clock
  BY Zenon, <1>12 DEF StartClean
<1>13. Inserters \subseteq Tasks /\ Cleaners \subseteq Tasks
  BY Zenon DEF Tasks
<1> HIDE DEF Same, Ends
<1>14. \/ (clock' = clock \/ clock' = clock + 1) /\ (Same \/ Ends)
       \/ StartClean(ExpiryTask, PruneJob)
  BY ZenonT(60), <1>3, <1>4, <1>5, <1>6, <1>7, <1>8, <1>9, <1>10, <1>11, <1>13
  DEF Next, InsertStep, CleanStep
<1> QED BY Zenon, <1>12, <1>14 DEF Same, Ends

\* The sweep goes on deleting what had expired when it started.
LEMMA SweepStep ==
  ASSUME TypeReady, SweepInv, [Next]_vars
  PROVE  SweepInv'
<1>0. /\ asOf \in Nat /\ clock \in Nat /\ ExpiryTask \in Cleaners
      /\ todo \in [Cleaners -> SUBSET Record]
  BY Zenon DEF TypeReady, TypeOK, Cleaners
<1>1. asOf' <= clock' /\ job'[ExpiryTask] \in {PruneJob, NoJob}
  <2>1. CASE asOf' = asOf /\ job'[ExpiryTask] = job[ExpiryTask]
    BY <1>0, <2>1, SweepMoves DEF SweepInv
  <2>2. CASE StartClean(ExpiryTask, PruneJob)
    <3>1. asOf' = clock /\ clock' = clock
      BY Zenon, <2>2 DEF StartClean
    <3>2. job'[ExpiryTask] = PruneJob
      BY Zenon, <1>0, <2>2 DEF StartClean, TypeReady, TypeOK
    <3> QED BY <1>0, <3>1, <3>2
  <2>3. CASE asOf' = 0 /\ job'[ExpiryTask] = NoJob
    BY <1>0, <2>3, SweepMoves
  <2> QED BY Zenon, <2>1, <2>2, <2>3, SweepMoves
<1>2. ASSUME pc'[ExpiryTask] = "delete", NEW r \in todo'[ExpiryTask]
      PROVE  Expired(r, asOf')
  <2>1. asOf' = asOf
    <3>1. CASE StartClean(ExpiryTask, PruneJob)
      BY Zenon, <1>0, <1>2, <3>1 DEF StartClean, Goto, TypeReady, TypeOK, Tasks
    <3> QED BY Zenon, <1>2, <3>1, SweepMoves
  <2>2. CASE BeginClean(ExpiryTask)
    <3>1. r \in Doomed(job[ExpiryTask]) /\ pc[ExpiryTask] # "idle"
      BY Zenon, <1>0, <1>2, <2>2 DEF BeginClean
    <3>2. job[ExpiryTask] \in Jobs
      BY Zenon, <1>0, <3>1 DEF TypeReady, TasksReady
    <3>3. job[ExpiryTask].kind = "prune"
      BY Zenon, <3>2, JobKinds, DataAssumption DEF SweepInv
    <3>4. Expired(r, asOf)
      BY Zenon, <3>1, <3>3 DEF Doomed
    <3> QED BY Zenon, <2>1, <3>4
  <2>3. CASE pc[ExpiryTask] = "delete" /\ r \in todo[ExpiryTask]
    BY Zenon, <2>1, <2>3 DEF SweepInv
  <2>4. ASSUME NEW q \in todo[ExpiryTask], DeleteOne(ExpiryTask, q)
        PROVE  todo'[ExpiryTask] \subseteq todo[ExpiryTask]
    BY Zenon, <1>0, <2>4 DEF DeleteOne
  <2> QED BY Zenon, <1>0, <1>2, <2>2, <2>3, <2>4, DeleteEntered
<1> QED BY Zenon, <1>1, <1>2 DEF SweepInv, Expired

\* While nothing has failed, the sweep removes no rule before its deadline, not even
\* one that was renewed while the sweep waited for the lock.
THEOREM SweepSpares == Spec => SweepSparesLiveRules
<1>1. Init => SweepInv
  BY DEF Init, SweepInv, Cleaners
<1>2. IInv /\ SweepInv /\ [Next]_vars => SweepInv'
  BY Zenon, SweepStep DEF IInv, TypeReady
<1>3. ASSUME IInv, CalmInv, SweepInv, [Next]_vars, pc[ExpiryTask] = "delete", Calm,
             NEW r \in rules \ rules'
      PROVE  Expired(r, clock)
  <2>0. /\ TypeReady /\ LockHeld /\ InForce /\ Aimed
        /\ ExpiryTask \in Cleaners /\ ExpiryTask \in Tasks
        /\ ExpiryTask \notin Inserters /\ rules \subseteq Record
        /\ asOf \in Nat /\ clock \in Nat
    BY Zenon, <1>3, TaskAssumption DEF IInv, TypeReady, TypeOK, CalmInv, Cleaners, Tasks
  <2>1. lock = ExpiryTask
    BY Zenon, <1>3, <2>0 DEF LockHeld, Holding
  <2>2. PICK q \in todo[ExpiryTask] : DeleteOne(ExpiryTask, q) \/ DeleteLast(ExpiryTask, q)
    <3>1. ~ResetOk(ExpiryTask) /\ rules' # rules
      BY Zenon, <1>3 DEF ResetOk
    <3> QED BY Zenon, <1>3, <2>0, <2>1, <3>1, RecordsGuarded
  <2>3. job[ExpiryTask].kind = "prune"
    <3>1. job[ExpiryTask] \in Jobs
      BY Zenon, <1>3, <2>0 DEF TypeReady, TasksReady
    <3> QED BY Zenon, <1>3, <3>1, JobKinds, DataAssumption DEF SweepInv
  <2>4. r.nft_handle = q.nft_handle
    <3>1. rules' = Untrack(rules, q.container, q.nft_handle)
      BY Zenon, <2>2, <2>3 DEF DeleteOne, DeleteLast, TrackedAfter
    <3> QED BY Zenon, <1>3, <3>1 DEF Untrack
  <2>5. r = q
    BY Zenon, <1>3, <2>0, <2>4 DEF Aimed, InForce
  <2>6. Expired(r, asOf) /\ asOf <= clock
    BY Zenon, <1>3, <2>5 DEF SweepInv
  <2>7. r.expires_at # NoDeadline => r.expires_at \in Nat
    BY <1>3, <2>0 DEF Record, Ttls
  <2> QED BY <2>0, <2>6, <2>7 DEF Expired
<1>4. IInv /\ CalmInv /\ SweepInv /\ [Next]_vars =>
        [(pc[ExpiryTask] = "delete" /\ faults = 0 /\ rebuilds = 0)
           => \A r \in rules \ rules' : Expired(r, clock)]_vars
  BY <1>3 DEF Calm
<1> QED BY <1>1, <1>2, <1>4, Inductive, CalmRecords, PTL DEF Spec, SweepSparesLiveRules

=============================================================================
