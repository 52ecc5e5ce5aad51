----------------------------- MODULE AgentShim -----------------------------
(***************************************************************************)
(* outcall-agent, the shim that an agent's commands go through: it checks  *)
(* in, asks for permission and runs the command, while a heartbeat task    *)
(* probes the agent socket and a signal task waits for SIGTERM.  All of    *)
(* the daemon it can see is DaemonService.                                 *)
(***************************************************************************)
EXTENDS DaemonService, Naturals

CONSTANTS Shims,       \* invocations of the shim
          MaxFalls,    \* bound: times the service goes away or is replaced
          MaxSigKills  \* bound: shims killed with SIGKILL

VARIABLES at,       \* where each shim is
          hasCmd,   \* its invocation carries a command to run
          sess,     \* its session, as the daemon behind the socket knows it
          heart,    \* the heartbeat task
          termed,   \* SIGTERM was delivered
          child,    \* the command
          code,     \* how the shim ended; refused: a failure of its own, or of the request
          falls, kills

shim == <<at, hasCmd, sess, heart, termed, child, code>>
svars == <<life, shim, falls, kills>>

Verbs == {"bash", "exec", "fetch", "file", "tool"}

(* parse_invocation: network and file requests only ask; an empty `bash`   *)
(* or `exec` has nothing to run; any other word is itself the command      *)
Commands(verb, rest) ==
    \/ verb = "tool"
    \/ verb \in {"bash", "exec"} /\ rest > 0

ShimInit ==
    /\ ServiceInit
    /\ at = [s \in Shims |-> "idle"]
    /\ hasCmd = [s \in Shims |-> FALSE]
    /\ sess = [s \in Shims |-> "none"]
    /\ heart = [s \in Shims |-> "off"]
    /\ termed = [s \in Shims |-> FALSE]
    /\ child = [s \in Shims |-> "none"]
    /\ code = [s \in Shims |-> "none"]
    /\ falls = 0
    /\ kills = 0

(* The service moves on; sessions live in the memory of one process        *)
ServiceStep ==
    /\ ServiceNext
    /\ falls' = IF Serve \/ ApplyPolicy \/ life = "down" THEN falls ELSE falls + 1
    /\ falls' <= MaxFalls
    /\ sess' = [s \in Shims |-> IF sess[s] = "live" /\ life' # "serving" THEN "lost"
                                ELSE sess[s]]
    /\ UNCHANGED <<at, hasCmd, heart, termed, child, code, kills>>

-----------------------------------------------------------------------------
Reachable == life # "down"

Ends(s, c) ==
    /\ at' = [at EXCEPT ![s] = "end"]
    /\ code' = [code EXCEPT ![s] = c]
    /\ heart' = [heart EXCEPT ![s] = "off"]

Launch(s) ==
    /\ at[s] = "idle"
    /\ \E verb \in Verbs, rest \in 0..1 :
         hasCmd' = [hasCmd EXCEPT ![s] = Commands(verb, rest)]
    /\ at' = [at EXCEPT ![s] = "reach"]
    /\ UNCHANGED <<life, sess, heart, termed, child, code, falls, kills>>

(* verify_socket_reachable: the socket accepts, which a listener does      *)
(* before anything serves behind it                                        *)
VerifySocket(s) ==
    /\ at[s] = "reach"
    /\ \/ Reachable /\ at' = [at EXCEPT ![s] = "checkin"] /\ UNCHANGED <<heart, code>>
       \/ life # "serving" /\ Ends(s, "unreachable")
    /\ UNCHANGED <<life, hasCmd, sess, termed, child, falls, kills>>

(* post_json "/v1/checkin"; then the heartbeat starts and the SIGTERM      *)
(* handler is installed.  The daemon may refuse, or the call time out.     *)
CheckIn(s) ==
    /\ at[s] = "checkin"
    /\ \/ /\ life = "serving"
          /\ sess' = [sess EXCEPT ![s] = "live"]
          /\ heart' = [heart EXCEPT ![s] = "on"]
          /\ at' = [at EXCEPT ![s] = "ask"]
          /\ UNCHANGED code
       \/ Ends(s, "unreachable") /\ UNCHANGED sess
    /\ UNCHANGED <<life, hasCmd, termed, child, falls, kills>>

(* The permission check answers: only the process that made the session    *)
(* knows its token                                                         *)
Verdict(s) ==
    /\ at[s] = "ask"
    /\ life = "serving" /\ sess[s] = "live"
    /\ \/ at' = [at EXCEPT ![s] = IF hasCmd[s] THEN "exec" ELSE "close"] /\ UNCHANGED code
       \/ /\ at' = [at EXCEPT ![s] = "close"]
          /\ code' = [code EXCEPT ![s] = "refused"]
    /\ UNCHANGED <<life, hasCmd, sess, heart, termed, child, falls, kills>>

(* It fails or times out, or the heartbeat ends first                      *)
NoVerdict(s) ==
    /\ at[s] = "ask"
    /\ \/ Ends(s, "unreachable")
       \/ heart[s] = "stopped" /\ Ends(s, "success")
    /\ UNCHANGED <<life, hasCmd, sess, termed, child, falls, kills>>

(* execute_command                                                         *)
Spawn(s) ==
    /\ at[s] = "exec"
    /\ \/ /\ child' = [child EXCEPT ![s] = "alive"]
          /\ at' = [at EXCEPT ![s] = "run"]
          /\ UNCHANGED code
       \/ /\ at' = [at EXCEPT ![s] = "close"]
          /\ code' = [code EXCEPT ![s] = "refused"]
          /\ UNCHANGED child
    /\ UNCHANGED <<life, hasCmd, sess, heart, termed, falls, kills>>

(* Mutant: the shim leaves without stopping the command                    *)
SuperviseLeaves(s) ==
    /\ at[s] = "run"
    /\ \/ child[s] = "gone" /\ Ends(s, "status")
       \/ heart[s] = "lost" /\ Ends(s, "unreachable")
    /\ UNCHANGED <<life, hasCmd, sess, termed, child, falls, kills>>

(* select: the command ends, or the heartbeat does.  A stopped heartbeat   *)
(* leaves the command to finish; a lost daemon stops it.  Once SIGKILL is  *)
(* sent the command runs no more, also when the five seconds pass before   *)
(* its death is seen.                                                      *)
Supervise(s) ==
    /\ at[s] = "run"
    /\ \/ /\ child[s] = "gone"
          /\ at' = [at EXCEPT ![s] = "close"]
          /\ code' = [code EXCEPT ![s] = "status"]
          /\ UNCHANGED <<child, heart>>
       \/ /\ heart[s] = "stopped"
          /\ at' = [at EXCEPT ![s] = "drain"]
          /\ UNCHANGED <<child, heart, code>>
       \/ /\ heart[s] = "lost"
          /\ child' = [child EXCEPT ![s] = "gone"]
          /\ Ends(s, "unreachable")
    /\ UNCHANGED <<life, hasCmd, sess, termed, falls, kills>>

Drain(s) ==
    /\ at[s] = "drain"
    /\ child[s] = "gone"
    /\ Ends(s, "status")
    /\ UNCHANGED <<life, hasCmd, sess, termed, child, falls, kills>>

(* wait() fails: the handle is dropped, and kill_on_drop kills the command *)
WaitFails(s) ==
    /\ child' = [child EXCEPT ![s] = "gone"]
    /\ \/ at[s] = "drain" /\ Ends(s, "refused")
       \/ /\ at[s] = "run"
          /\ at' = [at EXCEPT ![s] = "close"]
          /\ code' = [code EXCEPT ![s] = "refused"]
          /\ UNCHANGED heart
    /\ UNCHANGED <<life, hasCmd, sess, termed, falls, kills>>

(* heartbeat.stop: a daemon found unreachable meanwhile is still reported  *)
Close(s) ==
    /\ at[s] = "close"
    /\ Ends(s, IF heart[s] = "lost" THEN "unreachable"
               ELSE IF code[s] = "none" THEN "success" ELSE code[s])
    /\ UNCHANGED <<life, hasCmd, sess, termed, child, falls, kills>>

(* Mutant: a failed probe is only logged                                   *)
BeatTolerant(s) ==
    /\ heart[s] = "on"
    /\ life # "serving"
    /\ UNCHANGED svars

(* run_loop: every interval the socket is tried                            *)
Beat(s) ==
    /\ heart[s] = "on"
    /\ life # "serving"
    /\ heart' = [heart EXCEPT ![s] = "lost"]
    /\ UNCHANGED <<life, at, hasCmd, sess, termed, child, code, falls, kills>>

(* SIGTERM: fatal until the handler is installed, then it stops the        *)
(* heartbeat task                                                          *)
SigTerm(s) ==
    /\ at[s] \notin {"idle", "end"}
    /\ ~termed[s]
    /\ termed' = [termed EXCEPT ![s] = TRUE]
    /\ IF at[s] \in {"reach", "checkin"} THEN Ends(s, "killed")
       ELSE /\ heart' = [heart EXCEPT ![s] = IF @ = "on" THEN "stopped" ELSE @]
            /\ UNCHANGED <<at, code>>
    /\ UNCHANGED <<life, hasCmd, sess, child, falls, kills>>

(* SIGKILL: no destructor runs, so nothing stops the command               *)
Kill(s) ==
    /\ at[s] \notin {"idle", "end"}
    /\ kills < MaxSigKills
    /\ kills' = kills + 1
    /\ Ends(s, "killed")
    /\ UNCHANGED <<life, hasCmd, sess, termed, child, falls>>

CommandEnds(s) ==
    /\ child[s] = "alive"
    /\ child' = [child EXCEPT ![s] = "gone"]
    /\ UNCHANGED <<life, at, hasCmd, sess, heart, termed, code, falls, kills>>

-----------------------------------------------------------------------------
ShimStep(s) ==
    \/ VerifySocket(s) \/ CheckIn(s) \/ Verdict(s) \/ NoVerdict(s) \/ Spawn(s)
    \/ Supervise(s) \/ Drain(s) \/ Close(s)

ShimNext ==
    \/ ServiceStep
    \/ \E s \in Shims : \/ Launch(s) \/ ShimStep(s) \/ Beat(s)
                        \/ SigTerm(s) \/ Kill(s) \/ CommandEnds(s) \/ WaitFails(s)

(* The shim's main task and its heartbeat are scheduled by one runtime,    *)
(* and every call they make is bounded by a timeout.  Nothing is assumed   *)
(* of the daemon or of the command, and no failure is ever due.            *)
ShimSpec ==
    /\ ShimInit /\ [][ShimNext]_svars
    /\ \A s \in Shims : WF_svars(ShimStep(s)) /\ WF_svars(Beat(s) /\ ~Reachable)

-----------------------------------------------------------------------------
(* The shim's state is well formed, and its heartbeat runs exactly from    *)
(* the check-in to the end.                                                *)
ShimTypeOK ==
    /\ life \in Lives
    /\ at \in [Shims -> {"idle", "reach", "checkin", "ask", "exec", "run",
                         "drain", "close", "end"}]
    /\ sess \in [Shims -> {"none", "live", "lost"}]
    /\ child \in [Shims -> {"none", "alive", "gone"}]
    /\ code \in [Shims -> {"none", "refused", "success", "status",
                           "unreachable", "killed"}]
    /\ \A s \in Shims : heart[s] = "off" <=> at[s] \in {"idle", "reach", "checkin", "end"}

(* A command never runs unwatched: while it is alive its shim supervises   *)
(* it with the heartbeat on, or about to act on a lost daemon, unless the  *)
(* shim was asked to stop or was killed (execute_command, Heartbeat).      *)
ChildWatched ==
    \A s \in Shims :
        child[s] = "alive" /\ ~termed[s] /\ code[s] # "killed" =>
            at[s] = "run" /\ heart[s] \in {"on", "lost"}

(* A shim that reports success without having run its command was told to  *)
(* stop; losing the daemon is never reported as success (run, the select   *)
(* on the verdict and the heartbeat).                                      *)
SuccessExplained ==
    \A s \in Shims :
        code[s] = "success" /\ hasCmd[s] => termed[s] /\ child[s] = "none"

(* Fail closed: when the agent socket stays unreachable, a supervised      *)
(* command is stopped (run_loop and execute_command).                      *)
UnreachableStops ==
    \A s \in Shims :
        child[s] = "alive" /\ ~Reachable ~>
            child[s] = "gone" \/ Reachable \/ termed[s] \/ code[s] = "killed"

=============================================================================
