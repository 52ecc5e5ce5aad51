------------------------------ MODULE RecipeRun ------------------------------
(***************************************************************************)
(* `outcall run`, `outcall setup` and `outcall recipe run`: the host       *)
(* command that takes a project from nothing to a managed agent container. *)
(*                                                                         *)
(* A command checks for a credential, writes the recipe's files into the   *)
(* project, smoke-tests the recipe in a container and then runs the agent: *)
(* it stages the credential, brings the image up to date, starts the       *)
(* daemon if need be, prepares the host broker and launches a container,   *)
(* which it removes when the agent is done.  Commands of one project share *)
(* its files, its images and its container names, and nothing locks them;  *)
(* the user edits the files, signs in and out and removes containers at    *)
(* any time.  The images are the host's: the commands of other projects    *)
(* build under the same two names, and a docker build that has lost its    *)
(* command goes on.  The preparation of the broker is HostBroker's.        *)
(***************************************************************************)
EXTENDS HostBroker, Sequences

CONSTANTS
  Options,        \* command lines, records of the flags below, explored without and
  HostedOptions,  \* with host resources
  NoRun,          \* nobody
  MaxVersion,     \* bound: versions of the recipe's directory; 0 is the built-in
  MaxNames        \* bound: names project-1, project-2, ... that are tried

VARIABLES
  cli,            \* cli[r]: the command's progress
  files,          \* files[f]: "absent", "generated" or "edited"
  ctx,            \* the version of the recipe's directory
  image,          \* image[tag]: the version the image was built from, NoImage or Foreign
  loose,          \* docker commands that outlived theirs: the name, the version
  stamp,          \* .outcall-image-fingerprint: the version it names, or NoImage
  host, home,     \* the credential path in the user's home and in the project's
  pref,           \* the saved auth mode
  agent,          \* agent[name]: [state, by], the container of that name
  mixed           \* history: a build overlapped an edit or a build, or was not stamped

recipeVars == <<cli, files, ctx, image, loose, stamp, host, home, pref, agent, mixed>>

NoImage == -1
Foreign == -2     \* built by a command of another project, from that project's directory

\* The files ensure_recipe writes, in order.  README.md and context.md are handled
\* as recipe.yaml is, and the rules file as the Dockerfile is.
Generated == <<"recipe.yaml", "Dockerfile", "agent.yaml", "host-resources.yaml">>
FileNames == {Generated[i] : i \in 1..Len(Generated)}

Tags == {"builtin", "local"}
Modes == {"copy", "mount", "env-only"}
\* The agent's arguments: none, ones that need a credential, and ones that do not (its
\* version, its help, its login).
Arguments == {"none", "prompt", "exempt"}
Flags == [cmd : {"run", "setup", "recipe"}, force : BOOLEAN, no_build : BOOLEAN,
          detach : BOOLEAN, keep : BOOLEAN, args : Arguments, named : BOOLEAN,
          mode : Modes \cup {"auto"}, env : BOOLEAN, recopy : BOOLEAN]

ASSUME RecipeAssumption ==
  /\ Options \cup HostedOptions \subseteq Flags /\ Options # {}
  /\ NoRun \notin Runs
  /\ {MaxVersion, MaxNames} \subseteq Nat \ {0}

\* Names of agents are numbered; a smoke test's name holds its process id.
Names == 1..MaxNames \cup Runs

NoAgent == [state |-> "none", by |-> NoRun]

AnOption == CHOOSE o \in Options : TRUE

NoCli == [at |-> "idle", phase |-> "run", opt |-> AnOption, file |-> 1, tag |-> "builtin",
          print |-> NoImage, name |-> 1, batch |-> FALSE, detach |-> FALSE,
          touched |-> FALSE, broken |-> FALSE, lost |-> FALSE]

Ended == {"idle", "done", "failed", "refused", "barred", "killed"}

-----------------------------------------------------------------------------
(* Decisions.                                                              *)

\* recipe_command_requires_credential; configured: agent.yaml holds a command.
RequiresCredential(configured, detach, args) ==
  configured \/ IF args = "none" THEN detach ELSE args = "prompt"

\* resolve_recipe_auth_mode; one of the recipe's user paths always exists.
EffectiveMode(o) ==
  IF o.mode # "auto" THEN o.mode
  ELSE IF pref # "none" THEN pref
  ELSE IF o.env THEN "env-only" ELSE "copy"

\* credential_ready_for_mode: what the preflight expects staging to find.
ExpectReady(o) ==
  \/ o.env
  \/ CASE EffectiveMode(o) = "copy" -> home = "file" \/ host
       [] EffectiveMode(o) = "mount" -> host
       [] EffectiveMode(o) = "env-only" -> home = "file"

\* copy_path: an existing destination is kept unless the copy is forced.
Copied(o) ==
  IF EffectiveMode(o) = "copy" /\ host /\ (home = "none" \/ o.recopy) THEN "file" ELSE home

\* stage_recipe_auth: ready after staging.
StagedReady(o) ==
  \/ o.env
  \/ IF EffectiveMode(o) = "mount" THEN host ELSE Copied(o) = "file"

\* recipe_setup_is_complete.
SetupComplete ==
  \A f \in {"Dockerfile", "agent.yaml", "host-resources.yaml"} : files[f] # "absent"

\* selected_recipe_image: a Dockerfile of the user's is built under a name of its own,
\* which holds the recipe's id and not the project.
SelectedTag == IF files["Dockerfile"] = "edited" THEN "local" ELSE "builtin"

-----------------------------------------------------------------------------
\* What Apart leaves out.  In a project that declares resources a command's own
\* steps come before any step of the broker's world, which they neither read nor
\* change; their failures, the end of an agent and the user's acts on the project
\* are explored in a project without resources.
Plain == Apart => declared = {} /\ Unused = Brokers

\* A command that has ended leaves nothing but what it did.
Step(r, at) ==
  cli' = [cli EXCEPT ![r] = IF at \in Ended THEN [NoCli EXCEPT !.at = at] ELSE [@ EXCEPT !.at = at]]

World == <<files, ctx, image, loose, stamp, host, home, pref, agent, mixed>>

\* Commands are alike until they start.
NewRun == CHOOSE r \in Runs : cli[r].at = "idle"

\* cmd_setup begins with the files, cmd_recipe_run with staging, and cmd_run with
\* the preflight.
Start(r, o) ==
  /\ cli[r].at = "idle" /\ r = NewRun
  /\ cli' = [cli EXCEPT ![r] = [NoCli EXCEPT
       !.at = CASE o.cmd = "setup" -> "scaffold" [] o.cmd = "recipe" -> "begin"
                [] o.cmd = "run" -> "preflight",
       !.phase = IF o.cmd = "setup" THEN "test" ELSE "run",
       !.opt = o]]
  /\ UNCHANGED <<World, upsets>>

\* cmd_run: agent.yaml is not looked at yet.
Preflight(r) ==
  LET o == cli[r].opt IN
  /\ cli[r].at = "preflight"
  /\ IF RequiresCredential(FALSE, o.detach, o.args) /\ ~ExpectReady(o) THEN Step(r, "refused")
     ELSE IF o.force \/ ~SetupComplete
     THEN cli' = [cli EXCEPT ![r].at = "scaffold", ![r].phase = "test", ![r].touched = FALSE]
     ELSE cli' = [cli EXCEPT ![r].at = "begin", ![r].touched = FALSE]
  /\ UNCHANGED <<World, upsets>>

\* The image is chosen and not yet built.
Choosing == {"docker", "image", "pull", "print", "build"}

\* The recipe's directory becomes version v, which a command that has chosen its image
\* did not expect.
Turns(v) ==
  /\ ctx' = v
  /\ mixed' = (mixed \/ (v # ctx /\ \E q \in Runs : cli[q].at \in Choosing))

\* write_runtime_file of a generated file.
Write(f) ==
  /\ files' = [files EXCEPT ![f] = "generated"]
  /\ Turns(IF f = "Dockerfile" THEN 0 ELSE ctx)

Current(r) == Generated[cli[r].file]

\* With --force init_recipe writes every file but the host resources again.
Overwrites(r) == cli[r].opt.force /\ Current(r) # "host-resources.yaml"

NextFile(r) ==
  cli' = [cli EXCEPT ![r].at = "scaffold", ![r].file = @ + 1]

Scaffolding(r) == cli[r].at = "scaffold" /\ cli[r].file <= Len(Generated)

Overwrite(r) ==
  /\ Scaffolding(r) /\ Overwrites(r)
  /\ Write(Current(r)) /\ NextFile(r)
  /\ UNCHANGED <<image, loose, stamp, host, home, pref, agent, upsets>>

\* write_missing, write_shared_template: a file that exists is kept.
LookFor(r) ==
  /\ Scaffolding(r) /\ ~Overwrites(r)
  /\ IF files[Current(r)] = "absent" THEN Step(r, "create") ELSE NextFile(r)
  /\ UNCHANGED <<World, upsets>>

Create(r) ==
  /\ cli[r].at = "create"
  /\ Write(Current(r)) /\ NextFile(r)
  /\ UNCHANGED <<image, loose, stamp, host, home, pref, agent, upsets>>

\* Setup goes on with the smoke test.
Scaffolded(r) ==
  /\ cli[r].at = "scaffold" /\ cli[r].file > Len(Generated)
  /\ Step(r, "begin")
  /\ UNCHANGED <<World, upsets>>

\* ensure_recipe_initialized: without a Dockerfile everything is written, unless
\* another of the recipe's files exists, which init_recipe refuses to overwrite.
CanInitialize == files["Dockerfile"] # "absent" \/ files["recipe.yaml"] = "absent"

Initialized ==
  IF files["Dockerfile"] # "absent" THEN files
  ELSE [f \in FileNames |-> IF files[f] = "absent" THEN "generated" ELSE files[f]]

Initialize(r) ==
  /\ cli[r].at = "begin"
  /\ IF CanInitialize THEN Step(r, "stage") /\ files' = Initialized
     ELSE Step(r, "failed") /\ UNCHANGED files
  /\ Turns(IF files["Dockerfile"] = "absent" /\ CanInitialize THEN 0 ELSE ctx)
  /\ UNCHANGED <<image, loose, stamp, host, home, pref, agent, upsets>>

\* recipe_agent_config: only an agent.yaml the user edited sets a command or detach.
Configured(command, detach) == command \/ detach => files["agent.yaml"] = "edited"

\* recipe_smoke_test has a name of its own.
FirstName(r) == IF cli[r].phase = "test" THEN r ELSE 1

\* cmd_recipe_run, cmd_recipe_test up to the check of the staged credential.
Stage(r, command, detach) ==
  LET o == cli[r].opt
      test == cli[r].phase = "test"
      batch == test \/ o.args # "none" \/ command
      away == ~test /\ (o.detach \/ detach)
  IN
  /\ cli[r].at = "stage"
  /\ Configured(command, detach)
  /\ home' = Copied(o)
  /\ cli' = [cli EXCEPT ![r].tag = SelectedTag, ![r].batch = batch, ![r].detach = away,
               ![r].name = FirstName(r),
               ![r].at = IF ~test /\ RequiresCredential(command, away, o.args) /\ ~StagedReady(o)
                         THEN "barred" ELSE "docker"]
  /\ UNCHANGED <<files, ctx, image, loose, stamp, host, pref, agent, mixed, upsets>>

\* ensure_docker_access.
DockerReady(r) ==
  /\ cli[r].at = "docker"
  /\ Step(r, "image")
  /\ UNCHANGED <<World, upsets>>

\* After its own setup a run builds no more.
NoBuild(r) == cli[r].opt.no_build \/ (cli[r].phase = "run" /\ cli[r].file > 1)

\* recipe_image_action.  A user's agent.yaml may turn pulling off.
ImageAction(r, auto_pull) ==
  LET local == cli[r].tag = "local" IN
  /\ cli[r].at = "image"
  /\ ~auto_pull => files["agent.yaml"] = "edited"
  /\ Step(r, IF local /\ ~NoBuild(r) THEN "print"
             ELSE IF image[cli[r].tag] # NoImage THEN "runtime"
             ELSE IF ~local /\ auto_pull THEN "pull"
             ELSE IF ~local /\ ~NoBuild(r) THEN "print"
             ELSE "failed")
  /\ UNCHANGED <<World, upsets>>

\* The command ends, or gives up, before docker is done.  A docker command has a process
\* group of its own, and dockerd may still tag the image; one that is built already is
\* never stamped.
LeavesBuild(r) ==
  /\ loose' = IF cli[r].at \notin {"pull", "build"} THEN loose
              ELSE loose \cup {[tag |-> cli[r].tag, of |-> IF cli[r].at = "pull" THEN 0 ELSE ctx]}
  /\ mixed' = (mixed \/ cli[r].at = "stamp")

\* docker pull, or the fallback to a local build.
Pull(r) ==
  /\ cli[r].at = "pull"
  /\ image' = [image EXCEPT !["builtin"] = 0]
  /\ Step(r, "runtime")
  /\ UNCHANGED <<files, ctx, loose, stamp, host, home, pref, agent, mixed, upsets>>

PullFails(r) ==
  /\ cli[r].at = "pull" /\ Upset
  /\ Step(r, IF NoBuild(r) THEN "failed" ELSE "print")
  /\ LeavesBuild(r)
  /\ UNCHANGED <<files, ctx, image, stamp, host, home, pref, agent>>

\* Mutant of Cached: any image of the name will do.
CachedByName(r) == image[cli[r].tag] # NoImage

\* is_recipe_image_cached.
Cached(r) == image[cli[r].tag] # NoImage /\ stamp = ctx

\* recipe_directory_fingerprint, before the build.
Fingerprint(r) ==
  /\ cli[r].at = "print"
  /\ cli' = [cli EXCEPT ![r].print = ctx,
               ![r].at = IF files["Dockerfile"] = "absent" THEN "failed"
                         ELSE IF Cached(r) THEN "runtime" ELSE "build"]
  /\ mixed' = (mixed \/ \E q \in Runs : cli[q].at \in {"build", "stamp"})
  /\ UNCHANGED <<files, ctx, image, loose, stamp, host, home, pref, agent, upsets>>

\* docker build reads the directory as it is then.
Build(r) ==
  /\ cli[r].at = "build"
  /\ IF files["Dockerfile"] = "absent" THEN Step(r, "failed") /\ UNCHANGED image
     ELSE image' = [image EXCEPT ![cli[r].tag] = ctx] /\ Step(r, "stamp")
  /\ UNCHANGED <<files, ctx, loose, stamp, host, home, pref, agent, mixed, upsets>>

\* The fingerprint file is written last.
Stamp(r) ==
  /\ cli[r].at = "stamp"
  /\ stamp' = cli[r].print
  /\ Step(r, "runtime")
  /\ UNCHANGED <<files, ctx, image, loose, host, home, pref, agent, mixed, upsets>>

\* ensure_recipe_runtime_ready and the bridge netfilter check; only a run, not a
\* test, goes on to the broker.
RuntimeReady(r) ==
  /\ cli[r].at = "runtime"
  /\ Step(r, IF cli[r].phase = "test" THEN "launch" ELSE "broker")
  /\ UNCHANGED <<World, upsets>>

\* maybe_prepare_host_broker begins, and ends one way or the other.
AskForBroker(r) ==
  /\ cli[r].at = "broker"
  /\ Begin(r)
  /\ UNCHANGED recipeVars

BrokerSettled(r) ==
  /\ cli[r].at = "broker" /\ prep[r].at \in {"ready", "none", "failed"}
  /\ Step(r, IF prep[r].at = "failed" THEN "failed" ELSE "launch")
  /\ UNCHANGED <<World, upsets>>

\* Docker, the build, the daemon or the creation of the container fails; a build that
\* is given up at its timeout may have been done.
RecipeFails(r) ==
  /\ cli[r].at \in {"docker", "image", "build", "stamp", "runtime", "launch"}
  /\ Upset
  /\ Step(r, "failed")
  /\ LeavesBuild(r)
  /\ UNCHANGED <<files, ctx, image, stamp, host, home, pref, agent>>
-----------------------------------------------------------------------------
(* The container.                                                          *)

Container(r) == agent[cli[r].name]

\* create_with_name_retry: an automatic name that is taken is counted up; a smoke
\* test's name and one given with --name are not.
Automatic(r) == cli[r].phase = "run" /\ ~cli[r].opt.named

NextName(r) ==
  /\ cli[r].at = "launch" /\ Container(r) # NoAgent
  /\ Automatic(r) /\ cli[r].name < MaxNames
  /\ cli' = [cli EXCEPT ![r].name = @ + 1]
  /\ UNCHANGED <<World, upsets>>

NameTaken(r) ==
  /\ cli[r].at = "launch" /\ Container(r) # NoAgent
  /\ ~Automatic(r) \/ cli[r].name = MaxNames
  /\ Step(r, "failed")
  /\ UNCHANGED <<World, upsets>>

\* launch_managed_recipe_container after the creation.
AfterLaunch(r) ==
  IF cli[r].detach THEN "done" ELSE IF cli[r].batch THEN "follow" ELSE "attach"

Launch(r) ==
  /\ cli[r].at = "launch" /\ Container(r) = NoAgent
  /\ agent' = [agent EXCEPT ![cli[r].name] = [state |-> "running", by |-> r]]
  /\ Step(r, AfterLaunch(r))
  /\ UNCHANGED <<files, ctx, image, loose, stamp, host, home, pref, mixed, upsets>>

\* The daemon creates the container, and its answer is lost.
LaunchLost(r) ==
  /\ cli[r].at = "launch" /\ Container(r) = NoAgent /\ Upset
  /\ agent' = [agent EXCEPT ![cli[r].name] = [state |-> "running", by |-> r]]
  /\ Step(r, "failed")
  /\ UNCHANGED <<files, ctx, image, loose, stamp, host, home, pref, mixed>>

\* The container r launched still runs.
Running(r) == Container(r) = [state |-> "running", by |-> r]

\* wait_for_recipe_container: docker logs ends with the container; then its exit
\* code is asked for.  Either may fail.
FollowEnds(r, good) ==
  /\ cli[r].at = "follow" /\ ~Running(r)
  /\ good => Container(r) # NoAgent
  /\ cli' = [cli EXCEPT ![r].at = "finish", ![r].broken = ~good]
  /\ UNCHANGED <<World, upsets>>

FollowBreaks(r) ==
  /\ cli[r].at = "follow" /\ Running(r) /\ Upset
  /\ cli' = [cli EXCEPT ![r].at = "finish", ![r].broken = TRUE]
  /\ UNCHANGED World

\* attach_container returns when the agent ends or the user detaches, and the
\* container is inspected: only one that does not run is completed, well or not.
AttachEnds(r, good) ==
  /\ cli[r].at = "attach"
  /\ IF Container(r).state = "exited"
     THEN cli' = [cli EXCEPT ![r].at = "finish", ![r].broken = ~good]
     ELSE Step(r, IF Container(r).state = "running" THEN "done" ELSE "failed")
  /\ UNCHANGED <<World, upsets>>

AttachBreaks(r) ==
  /\ cli[r].at = "attach" /\ Upset
  /\ Step(r, "failed")
  /\ UNCHANGED World

\* After the smoke test: a run goes on to its own container, a setup is done.
AfterFinish(r) ==
  IF cli[r].broken THEN "failed"
  ELSE IF cli[r].phase = "test" /\ cli[r].opt.cmd = "run" THEN "begin" ELSE "done"

\* History: the container of name n is removed, and q, which launched it, was not done
\* with it.
Loses(q, n) ==
  cli[q].lost \/ (/\ cli[q].at \in {"follow", "attach", "finish"}
                  /\ cli[q].name = n /\ agent[n].by = q)

\* finalize_recipe_outcome, and the end of recipe_smoke_test: the container of that
\* name is removed by force; a removal that fails is only reported.
Finish(r) ==
  LET keeps == cli[r].phase = "run" /\ cli[r].opt.keep
      after == IF AfterFinish(r) = "begin"
               THEN [cli[r] EXCEPT !.at = "begin", !.phase = "run", !.lost = FALSE]
               ELSE [NoCli EXCEPT !.at = AfterFinish(r)]
  IN
  /\ cli[r].at = "finish"
  /\ \/ /\ cli' = [cli EXCEPT ![r] = after]
        /\ IF keeps THEN UNCHANGED upsets ELSE Upset
        /\ UNCHANGED agent
     \/ /\ ~keeps
        /\ cli' = [q \in Runs |->
                    IF q = r THEN after ELSE [cli[q] EXCEPT !.lost = Loses(q, cli[r].name)]]
        /\ agent' = [agent EXCEPT ![cli[r].name] = NoAgent]
        /\ UNCHANGED upsets
  /\ UNCHANGED <<files, ctx, image, loose, stamp, host, home, pref, mixed>>
-----------------------------------------------------------------------------
(* The agents and the user.                                                *)

AgentExits(n) ==
  /\ agent[n].state = "running"
  /\ agent' = [agent EXCEPT ![n].state = "exited"]
  /\ UNCHANGED <<cli, files, ctx, image, loose, stamp, host, home, pref, mixed, upsets>>

\* History: a credential changed under the commands that have passed the preflight.
Touched ==
  cli' = [r \in Runs |-> [cli[r] EXCEPT !.touched = @ \/ cli[r].at \notin Ended]]

\* A login inside a container writes the project's home; what it leaves there need
\* not be a regular file.
AgentLogsIn(n, what) ==
  /\ agent[n].state = "running" /\ n \notin Runs /\ home # what /\ Upset
  /\ home' = what /\ Touched
  /\ UNCHANGED <<files, ctx, image, loose, stamp, host, pref, agent, mixed>>

SignInOrOut ==
  /\ Upset
  /\ host' = ~host /\ Touched
  /\ UNCHANGED <<files, ctx, image, loose, stamp, home, pref, agent, mixed>>

\* cmd_auth: the credential is staged and, when that leaves one, the mode saved.
CmdAuth(o) ==
  /\ CanInitialize /\ Upset
  /\ files' = Initialized
  /\ Turns(IF files["Dockerfile"] = "absent" THEN 0 ELSE ctx)
  /\ home' = Copied(o)
  /\ pref' = IF StagedReady(o) THEN EffectiveMode(o) ELSE pref
  /\ Touched
  /\ UNCHANGED <<image, loose, stamp, host, agent>>

\* The user edits the recipe's directory, or goes back to the built-in version.
EditRecipe(v) ==
  /\ files["Dockerfile"] # "absent" /\ v # ctx /\ Upset
  /\ Turns(v)
  /\ files' = [files EXCEPT !["Dockerfile"] = IF v = 0 THEN "generated" ELSE "edited"]
  /\ UNCHANGED <<cli, image, loose, stamp, host, home, pref, agent>>

EditFile(f) ==
  /\ files[f] # "edited" /\ Upset
  /\ files' = [files EXCEPT ![f] = "edited"]
  /\ UNCHANGED <<cli, ctx, image, loose, stamp, host, home, pref, agent, mixed>>

DeleteFile(f) ==
  /\ files[f] # "absent" /\ Upset
  /\ files' = [files EXCEPT ![f] = "absent"]
  /\ UNCHANGED <<cli, ctx, image, loose, stamp, host, home, pref, agent, mixed>>

\* A docker command without its outcall ends well.  Its image has no fingerprint, which
\* the built-in one does not need.
LooseEnds(x) ==
  /\ image' = [image EXCEPT ![x.tag] = x.of]
  /\ loose' = loose \ {x}
  /\ mixed' = (mixed \/ x # [tag |-> "builtin", of |-> 0])
  /\ UNCHANGED <<cli, files, ctx, stamp, host, home, pref, agent, upsets>>

\* A command of another project builds the recipe's image: the name is the same, and its
\* fingerprint is kept in the other project.
OtherBuilds(tag) ==
  /\ image[tag] # Foreign /\ Upset
  /\ image' = [image EXCEPT ![tag] = Foreign]
  /\ UNCHANGED <<cli, files, ctx, loose, stamp, host, home, pref, agent, mixed>>

DeleteImage(tag) ==
  /\ image[tag] # NoImage /\ Upset
  /\ image' = [image EXCEPT ![tag] = NoImage]
  /\ UNCHANGED <<cli, files, ctx, loose, stamp, host, home, pref, agent, mixed>>

\* `outcall remove`.
CmdRemove(n) ==
  /\ agent[n] # NoAgent /\ Upset
  /\ cli' = [q \in Runs |-> [cli[q] EXCEPT !.lost = Loses(q, n)]]
  /\ agent' = [agent EXCEPT ![n] = NoAgent]
  /\ UNCHANGED <<files, ctx, image, loose, stamp, host, home, pref, mixed>>

\* Interrupted anywhere, in the broker's preparation too: destructors do not run,
\* and a broker, which has a process group of its own, stays.
KillCommand(r) ==
  /\ cli[r].at \notin Ended /\ Upset
  /\ Plain \/ prep[r].at \notin Over
  /\ Step(r, "killed")
  /\ IF prep[r].at \in Over THEN UNCHANGED prep ELSE Goto(r, "killed")
  /\ LeavesBuild(r)
  /\ UNCHANGED <<files, ctx, image, stamp, host, home, pref, agent>>
-----------------------------------------------------------------------------
\* A project with nothing in it, one whose Dockerfile is the user's and was built,
\* or one that is set up and declares resources.
Init ==
  /\ HostInit
  /\ cli = [r \in Runs |-> NoCli]
  /\ \/ /\ declared = {} /\ os = "unix"
        /\ files = [f \in FileNames |-> "absent"]
        /\ ctx = 0 /\ stamp = NoImage
        /\ image = [t \in Tags |-> NoImage]
        /\ home = "none"
     \/ /\ declared = {} /\ os = "unix"
        /\ files = [f \in FileNames |-> IF f = "Dockerfile" THEN "edited" ELSE "generated"]
        /\ ctx = 1 /\ stamp = 1
        /\ image = [t \in Tags |-> IF t = "local" THEN 1 ELSE NoImage]
        /\ home = "file"
     \/ /\ declared = Resources
        /\ files = [f \in FileNames |-> "generated"]
        /\ ctx = 0 /\ stamp = NoImage
        /\ image = [t \in Tags |-> IF t = "builtin" THEN 0 ELSE NoImage]
        /\ home = "file"
  /\ host = TRUE
  /\ pref = "none"
  /\ agent = [n \in Names |-> NoAgent]
  /\ loose = {} /\ mixed = FALSE

\* Steps of the command outside the broker's preparation.
CommandStep(r) ==
  \/ \E o \in IF Plain THEN Options ELSE HostedOptions : Start(r, o)
  \/ Preflight(r)
  \/ Overwrite(r) \/ LookFor(r) \/ Create(r) \/ Scaffolded(r)
  \/ Initialize(r)
  \/ \E command, detach \in BOOLEAN : Stage(r, command, detach)
  \/ DockerReady(r)
  \/ \E auto_pull \in BOOLEAN : ImageAction(r, auto_pull)
  \/ Pull(r) \/ Fingerprint(r) \/ Build(r) \/ Stamp(r)
  \/ RuntimeReady(r) \/ BrokerSettled(r)
  \/ NextName(r) \/ NameTaken(r) \/ Launch(r)
  \/ \E good \in BOOLEAN : FollowEnds(r, good) \/ AttachEnds(r, good)
  \/ Finish(r)

CommandTrouble(r) ==
  \/ PullFails(r) \/ RecipeFails(r) \/ LaunchLost(r) \/ FollowBreaks(r) \/ AttachBreaks(r)

UserActs ==
  \/ SignInOrOut
  \/ \E o \in Options : CmdAuth(o)
  \/ \E v \in 0..MaxVersion : EditRecipe(v)
  \/ \E f \in {"agent.yaml", "host-resources.yaml"} : EditFile(f)
  \/ \E f \in {"Dockerfile", "host-resources.yaml"} : DeleteFile(f)
  \/ \E tag \in Tags : DeleteImage(tag) \/ OtherBuilds(tag)
  \/ \E n \in Names : CmdRemove(n) \/ \E what \in {"file", "other"} : AgentLogsIn(n, what)

\* The broker's world moves when every command is waiting for it.
Resting == Plain \/ \A r \in Runs : cli[r].at \in Ended \/ prep[r].at \notin Over

\* The rest of the host's state, which the command's steps leave alone.
Rest == <<serverVars, os, token_file, port_file, pid_file, socket, rule_disk, rule_live, raced>>

Commands ==
  /\ \/ \E r \in Runs : CommandStep(r)
     \/ Plain /\ \E n \in Names : AgentExits(n)
     \/ \E x \in loose : LooseEnds(x)
     \/ Plain /\ (UserActs \/ \E r \in Runs : CommandTrouble(r))
  /\ UNCHANGED <<Rest, prep>>

Host ==
  /\ Resting
  /\ \/ \E r \in Runs : PrepareStep(r)
     \/ \E b \in Brokers : Bind(b) \/ BrokerDies(b)
     \/ Serve
     \/ EditResources
  /\ UNCHANGED recipeVars

Next ==
  \/ Commands
  \/ Host
  \/ \E r \in Runs : AskForBroker(r)
  \/ \E r \in Runs : KillCommand(r) /\ UNCHANGED Rest

vars == <<hostVars, recipeVars>>

\* A worker's thread, and the timeout it watches, are scheduled.
Fairness == \A c \in Conns : WF_vars(ToolStep(c) /\ UNCHANGED <<prepVars, recipeVars>>)

Spec == Init /\ [][Next]_vars /\ Fairness

-----------------------------------------------------------------------------
\* Every variable has its type; a command works on one of the recipe's files at a
\* time, in their order, and a smoke test never uses an agent's name.
RecipeTypeOK ==
  /\ files \in [FileNames -> {"absent", "generated", "edited"}]
  /\ ctx \in 0..MaxVersion
  /\ image \in [Tags -> 0..MaxVersion \cup {NoImage, Foreign}]
  /\ loose \subseteq [tag : Tags, of : 0..MaxVersion]
  /\ stamp \in 0..MaxVersion \cup {NoImage}
  /\ host \in BOOLEAN /\ home \in {"none", "file", "other"}
  /\ pref \in Modes \cup {"none"}
  /\ agent \in [Names -> [state : {"none", "running", "exited"}, by : Runs \cup {NoRun}]]
  /\ \A r \in Runs :
       /\ cli[r].opt \in Options \cup HostedOptions /\ cli[r].name \in Names
       /\ cli[r].file \in 1..(Len(Generated) + IF cli[r].at = "create" THEN 0 ELSE 1)
       /\ cli[r].at \in {"follow", "launch"} /\ cli[r].phase = "test" => cli[r].name = r

\* A command that got past the preflight's check of the credential is turned away
\* when it stages it only for a reason the preflight could not see: the credentials
\* changed in between, or the project's home holds something that is no credential
\* file, which copy_path neither uses nor replaces.  Commands the preflight does not
\* check are those whose arguments need no credential.
RefusedExplained ==
  [][\A r \in Runs :
       LET o == cli[r].opt IN
       /\ cli[r].at = "stage" /\ cli'[r].at = "barred"
       /\ o.cmd = "run" /\ RequiresCredential(FALSE, o.detach, o.args)
       => cli[r].touched \/ home = "other"]_vars

\* A build is skipped only when the image is of the directory's present version:
\* is_recipe_image_cached compares fingerprints, and the one on file is the image's.
\* Excepted are an image that another project's command has built since under the same
\* name, which the project's fingerprint cannot tell; builds that overlapped an edit of
\* the directory or another command's build; and builds without a fingerprint, cut off
\* before build_recipe_image wrote it or finished by docker after their command's end.
CacheHitCurrent ==
  [][\A r \in Runs :
       cli[r].at = "print" /\ cli'[r].at = "runtime" =>
         image[cli[r].tag] \in {ctx, Foreign} \/ mixed']_vars

\* Without --force no command overwrites what the user wrote: an edited file turns
\* into a generated one only by a command with --force, and then it is not the host
\* resources; or by one that had looked for the file before it existed; or by the
\* user, who restores the Dockerfile.
EditsKept ==
  [][\A f \in FileNames :
       files[f] = "edited" /\ files'[f] = "generated" =>
         \/ f = "Dockerfile" /\ upsets' = upsets + 1
         \/ \E r \in Runs :
              /\ cli[r].at \in {"scaffold", "create"} /\ cli'[r].file = cli[r].file + 1
              /\ f = Current(r)
              /\ cli[r].at = "create" \/ (cli[r].opt.force /\ f # "host-resources.yaml")]_vars

\* r, in this step, removes the container of its name.
Removes(r) == cli[r].at = "finish" /\ cli'[r].at # "finish" /\ agent' # agent

\* A command removes no container but its own: the name it removes by force is still
\* that of the container it launched, unless that one was removed first, by the operator
\* or by a command that had lost its own.
RemovesOwn ==
  [][\A r \in Runs : Removes(r) => Container(r).by = r \/ cli[r].lost]_vars

\* A command removes its container while the agent runs only when following its logs
\* broke off: a detached agent, or one the user detached from, is never removed.
RunningSpared ==
  [][\A r \in Runs : Removes(r) /\ Running(r) => cli[r].broken]_vars
=============================================================================
