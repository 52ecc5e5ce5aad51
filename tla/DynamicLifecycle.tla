-------------------------- MODULE DynamicLifecycle --------------------------
(***************************************************************************)
(* Dynamic rules across the life of their containers: the identity cache   *)
(* and event watcher of ContainerIdentity composed with the rule manager   *)
(* of DynamicRules.                                                        *)
(*                                                                         *)
(* The manager's insertions ask the identity cache who owns an address,    *)
(* and its event task (dynamic/events.rs) receives what the watcher        *)
(* broadcasts.  Every request is a managed one, as the DNS handler makes   *)
(* them.  The expiry sweep is left out: it only removes rules.             *)
(***************************************************************************)
EXTENDS ContainerIdentity, DynamicRules

VARIABLES
  unseen         \* history: containers whose exit the manager was not told of

lifeVars == <<idVars, vars, unseen>>

ASSUME CompositionAssumption ==
  /\ Lookups = Inserters
  /\ SrcIps = Ips
  /\ Containers = {NameOf[id] : id \in Ids}
  /\ Consumers = {EventTask}
  /\ \A r \in Requests : r.policy = "managed"

-----------------------------------------------------------------------------
(* The manager asks the cache for the owner of a request's address.        *)

NameOrNone(id) == IF id = NoId THEN NoContainer ELSE NameOf[id]

Asking(t) == pc[t] \in {"lookup", "recheck"}

\* What the insertion does with the answer.
Answered(t, a) ==
  \/ OwnerLookup(t, a)
  \/ pc[t] = "lookup" /\ ~OwnerAccepted(a, req[t]) /\ InsertRefused(t)
  \/ RecheckOk(t, a)
  \/ RecheckFails(t, a)

AskHit(t) ==
  /\ Asking(t) /\ lpc[t] = "idle"
  /\ LookupHit(req[t].src_ip)
  /\ Answered(t, NameOrNone(entries[req[t].src_ip]))
  /\ UNCHANGED <<idVars, unseen>>

AskMiss(t) ==
  /\ Asking(t)
  /\ LookupMiss(t, req[t].src_ip)
  /\ UNCHANGED <<vars, unseen>>

AskList(t) ==
  /\ LookupList(t)
  /\ UNCHANGED <<vars, unseen>>

AskDone(t) ==
  /\ LookupDone(t)
  /\ Answered(t, NameOrNone(lsnap[t][lip[t]]))
  /\ UNCHANGED unseen

AskFails(t) ==
  /\ LookupFails(t)
  /\ Answered(t, LookupError)
  /\ UNCHANGED unseen

\* The steps of an insertion that ask nothing.
Insert(t) ==
  /\ \/ \E r \in Requests : StartInsert(t, r)
     \/ pc[t] # "lookup" /\ InsertStep(t)
  /\ UNCHANGED <<idVars, unseen>>

-----------------------------------------------------------------------------
(* The event task: dynamic/events.rs, run.                                 *)

\* The end of a container starts its cleanup; a reset, or lost messages,
\* start a flush; a pause is only logged.
EventReceived ==
  /\ pc[EventTask] = "idle"
  /\ Receive(EventTask)
  /\ IF lagged[EventTask] \/ Head(queue[EventTask]) = Reset
     THEN StartClean(EventTask, FlushJob)
     ELSE IF Head(queue[EventTask]).kind \in CleanupKinds
     THEN StartClean(EventTask,
                         RemoveJob(NameOf[Head(queue[EventTask]).id]))
     ELSE UNCHANGED vars
  /\ UNCHANGED unseen

EventCleans ==
  /\ CleanStep(EventTask)
  /\ UNCHANGED <<idVars, unseen>>

-----------------------------------------------------------------------------
\* An event that ends this container's name is still to be handled.
EndPending(id) ==
  \E i \in 1 .. Len(stream) :
    stream[i].kind \in CleanupKinds /\ NameOf[stream[i].id] = NameOf[id]

\* History: the containers that exit while no stream is open, and those the API
\* registers, in this step, with an address that they have lost.
ExitsUnseen == {id \in Ids : ~live /\ addr[id] # NoIp /\ addr'[id] = NoIp}

RegisteredLate ==
  {id \in Ids : \E t \in Apis : /\ apc[t] = "record" /\ apc'[t] = "idle"
                               /\ aid[t] = id /\ addr[id] # aip[t]
                               /\ ~EndPending(id)}

\* Docker, its users and the watcher act.
Lifecycle ==
  /\ Docker \/ StreamBreak \/ Watch \/ \E t \in Apis : Api(t)
  /\ unseen' = unseen \cup ExitsUnseen \cup RegisteredLate
  /\ UNCHANGED vars

LifeInit ==
  /\ IdInit
  /\ Init
  /\ unseen = {}

LifeNext ==
  \/ Lifecycle
  \/ \E t \in Inserters : \/ AskHit(t) \/ AskMiss(t) \/ AskList(t)
                          \/ AskDone(t) \/ AskFails(t) \/ Insert(t)
  \/ EventReceived
  \/ EventCleans

LifeSpec == LifeInit /\ [][LifeNext]_lifeVars

-----------------------------------------------------------------------------
(* Properties.                                                             *)

\* The watcher, the event task and the insertions have nothing left to do.
Settled ==
  /\ CaughtUp
  /\ queue[EventTask] = <<>> /\ ~lagged[EventTask]
  /\ \A t \in Inserters \cup {EventTask} : pc[t] = "idle"

\* The containers whose address a tracked rule names, as Docker has them.
HasOwner(r) == \E id \in Ids : NameOf[id] = r.container /\ addr[id] = r.src_ip

\* Once everything settled, and as long as every nft command worked, a rule is
\* left of a container that no longer has its address only if the container
\* exited while no event stream was open, or if the API registered it after its
\* exit had been handled.  In every other order of exits, restarts, events, lost
\* messages and insertions in progress, the two ownership checks and the event
\* task together remove the rule.
DeadRuleExplained ==
  faults = 0 /\ Settled => \A r \in rules :
    \/ HasOwner(r)
    \/ \E id \in unseen : NameOf[id] = r.container
=============================================================================
