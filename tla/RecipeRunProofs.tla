-------------------------- MODULE RecipeRunProofs --------------------------
(***************************************************************************)
(* Proofs about the commands of a project, for any number of commands,     *)
(* names and versions, any flags and any bounds, and without the           *)
(* restriction Apart: which image a skipped build leaves, which files,     *)
(* containers and credentials a command may touch.                         *)
(***************************************************************************)
EXTENDS RecipeRun, TLAPS

Flag == BOOLEAN

-----------------------------------------------------------------------------
(* The commands of a project: its files, its image, its credential and its *)
(* containers.                                                             *)

CliPlaces ==
  {"idle", "preflight", "scaffold", "create", "begin", "stage", "docker", "image", "pull",
   "print", "build", "stamp", "runtime", "broker", "launch", "follow", "attach", "finish",
   "done", "failed", "refused", "barred", "killed"}

Versions == 0 .. MaxVersion \cup {NoImage}
Images == Versions \cup {Foreign}

CliRecords ==
  [at : CliPlaces, phase : {"run", "test"}, opt : Options \cup HostedOptions, file : Int,
   tag : Tags, print : Versions, name : Names, batch : Flag, detach : Flag, touched : Flag,
   broken : Flag, lost : Flag]

States == {"absent", "generated", "edited"}

WorldTypes ==
  /\ files \in [FileNames -> States]
  /\ ctx \in 0 .. MaxVersion
  /\ image \in [Tags -> Images]
  /\ loose \subseteq [tag : Tags, of : 0 .. MaxVersion]
  /\ stamp \in Versions
  /\ host \in Flag /\ mixed \in Flag
  /\ home \in {"none", "file", "other"} /\ pref \in Modes \cup {"none"}
  /\ agent \in [Names -> [state : {"none", "running", "exited"}, by : Runs \cup {NoRun}]]

RecipeTypes == cli \in [Runs -> CliRecords] /\ WorldTypes

\* Only r's record changes, to one at this place.
Went(r, a) ==
  /\ cli' \in [Runs -> CliRecords]
  /\ \A q \in Runs : q # r => cli'[q] = cli[q]
  /\ cli'[r].at = a

\* What r's record keeps: the flags and the credential's history; the file and the
\* phase; the image; the container.
KeepsAsk(r) == cli'[r].opt = cli[r].opt /\ cli'[r].touched = cli[r].touched
KeepsFile(r) == cli'[r].file = cli[r].file /\ cli'[r].phase = cli[r].phase
KeepsImage(r) == cli'[r].tag = cli[r].tag /\ cli'[r].print = cli[r].print
KeepsAgent(r) ==
  /\ cli'[r].name = cli[r].name /\ cli'[r].broken = cli[r].broken
  /\ cli'[r].lost = cli[r].lost /\ cli'[r].batch = cli[r].batch
  /\ cli'[r].detach = cli[r].detach
Keeps(r) == KeepsAsk(r) /\ KeepsFile(r) /\ KeepsImage(r) /\ KeepsAgent(r)

\* There are four files.
LEMMA TheFiles ==
  /\ Len(Generated) = 4
  /\ FileNames = {"recipe.yaml", "Dockerfile", "agent.yaml", "host-resources.yaml"}
<1>1. /\ Len(Generated) = 4 /\ Generated[1] = "recipe.yaml" /\ Generated[2] = "Dockerfile"
      /\ Generated[3] = "agent.yaml" /\ Generated[4] = "host-resources.yaml"
  BY DEF Generated
<1>2. \A i \in 1 .. 4 : i = 1 \/ i = 2 \/ i = 3 \/ i = 4
  OBVIOUS
<1>3. 1 \in 1 .. 4 /\ 2 \in 1 .. 4 /\ 3 \in 1 .. 4 /\ 4 \in 1 .. 4
  OBVIOUS
<1>4. FileNames = {Generated[i] : i \in 1 .. 4}
  BY Zenon, <1>1 DEF FileNames
<1> QED BY Zenon, <1>1, <1>2, <1>3, <1>4

\* A command that has not started, or has ended.
LEMMA NewCli ==
  /\ NoCli \in CliRecords /\ ~NoCli.lost /\ ~NoCli.touched /\ NoCli.file = 1
  /\ NoCli.at = "idle"
<1>1. AnOption \in Options
  BY Zenon, RecipeAssumption DEF AnOption
<1>2. 1 \in Names /\ NoImage \in Versions /\ 1 \in Int
  BY RecipeAssumption DEF Names, Versions
<1>3. FALSE \in Flag
  BY Zenon DEF Flag
<1>4. "builtin" \in Tags /\ "idle" \in CliPlaces
  BY Zenon DEF Tags, CliPlaces
<1>5. NoCli \in CliRecords
  BY Zenon, <1>1, <1>2, <1>3, <1>4 DEF NoCli, CliRecords
<1> QED BY Zenon, <1>5 DEF NoCli

\* Step as a move: a command that has ended forgets everything.
LEMMA StepGoes ==
  ASSUME NEW r \in Runs, cli \in [Runs -> CliRecords], NEW a \in CliPlaces, Step(r, a)
  PROVE  /\ Went(r, a)
         /\ a \in Ended => ~cli'[r].lost /\ ~cli'[r].touched /\ cli'[r].file = 1
         /\ a \notin Ended => Keeps(r)
<1>1. CASE a \in Ended
  <2> DEFINE y == [NoCli EXCEPT !.at = a]
  <2>1. cli' = [cli EXCEPT ![r] = y]
    BY Zenon, <1>1 DEF Step
  <2>2. y \in CliRecords /\ y.at = a
    BY Zenon, NewCli DEF CliRecords
  <2>3. y.lost = NoCli.lost /\ y.touched = NoCli.touched /\ y.file = NoCli.file
    BY Zenon, NewCli DEF CliRecords
  <2> HIDE DEF y
  <2>4. cli'[r] = y
    BY Zenon, <2>1
  <2> QED BY Zenon, <1>1, <2>1, <2>2, <2>3, <2>4, NewCli DEF Went
<1>2. CASE a \notin Ended
  <2> DEFINE x == cli[r]
             y == [x EXCEPT !.at = a]
  <2>1. cli' = [cli EXCEPT ![r] = y]
    BY Zenon, <1>2 DEF Step
  <2>2. x \in CliRecords
    BY Zenon
  <2> HIDE DEF x
  <2>3. y \in CliRecords /\ y.at = a
    BY Zenon, <2>2 DEF CliRecords
  <2>4. /\ y.opt = x.opt /\ y.touched = x.touched /\ y.file = x.file /\ y.phase = x.phase
        /\ y.tag = x.tag /\ y.print = x.print
    BY Zenon, <2>2 DEF CliRecords
  <2>5. /\ y.name = x.name /\ y.broken = x.broken /\ y.lost = x.lost
        /\ y.batch = x.batch /\ y.detach = x.detach
    BY Zenon, <2>2 DEF CliRecords
  <2> HIDE DEF y
  <2>6. cli'[r] = y
    BY Zenon, <2>1
  <2>7. Went(r, a)
    BY Zenon, <2>1, <2>3, <2>6 DEF Went
  <2>8. Keeps(r)
    BY Zenon, <2>4, <2>5, <2>6 DEF Keeps, KeepsAsk, KeepsFile, KeepsImage, KeepsAgent, x
  <2> QED BY Zenon, <1>2, <2>7, <2>8
<1> QED BY Zenon, <1>1, <1>2

-----------------------------------------------------------------------------
(* The other moves of a command, one lemma for each way a record changes.  *)

\* cmd_run, cmd_setup, cmd_recipe_run.
LEMMA StartGoes ==
  ASSUME NEW r \in Runs, cli \in [Runs -> CliRecords], NEW o \in Options \cup HostedOptions,
         Start(r, o)
  PROVE  \E a \in {"scaffold", "begin", "preflight"} :
           /\ Went(r, a) /\ cli'[r].opt = o /\ (o.cmd = "run" => a = "preflight")
           /\ ~cli'[r].lost /\ ~cli'[r].touched /\ cli'[r].file = 1
<1> DEFINE a == CASE o.cmd = "setup" -> "scaffold" [] o.cmd = "recipe" -> "begin"
                  [] o.cmd = "run" -> "preflight"
           p == IF o.cmd = "setup" THEN "test" ELSE "run"
           y == [NoCli EXCEPT !.at = a, !.phase = p, !.opt = o]
<1>1. o.cmd \in {"run", "setup", "recipe"}
  BY Zenon, RecipeAssumption DEF Flags
<1>2. a \in {"scaffold", "begin", "preflight"} /\ (o.cmd = "run" => a = "preflight")
  BY <1>1
<1>3. p \in {"run", "test"}
  BY Zenon
<1>4. cli' = [cli EXCEPT ![r] = y]
  BY Zenon DEF Start
<1> HIDE DEF a, p
<1>5. a \in CliPlaces
  BY Zenon, <1>2 DEF CliPlaces
<1>6. y \in CliRecords /\ y.at = a /\ y.opt = o
  BY Zenon, <1>3, <1>5, NewCli DEF CliRecords
<1>7. y.lost = NoCli.lost /\ y.touched = NoCli.touched /\ y.file = NoCli.file
  BY Zenon, NewCli DEF CliRecords
<1> HIDE DEF y
<1>8. cli'[r] = y
  BY Zenon, <1>4
<1>9. Went(r, a)
  BY Zenon, <1>4, <1>6, <1>8 DEF Went
<1> QED BY Zenon, <1>2, <1>6, <1>7, <1>8, <1>9, NewCli

\* The preflight forgets what it was told of earlier credentials.
LEMMA PreflightGoes ==
  ASSUME NEW r \in Runs, cli \in [Runs -> CliRecords], Preflight(r)
  PROVE  \/ /\ Went(r, "refused")
            /\ ~cli'[r].lost /\ ~cli'[r].touched /\ cli'[r].file = 1
         \/ \E a \in {"scaffold", "begin"} :
              /\ Went(r, a) /\ ~cli'[r].touched
              /\ KeepsImage(r) /\ KeepsAgent(r)
              /\ cli'[r].opt = cli[r].opt /\ cli'[r].file = cli[r].file
              /\ \/ ~RequiresCredential(FALSE, cli[r].opt.detach, cli[r].opt.args)
                 \/ ExpectReady(cli[r].opt)
<1> DEFINE x == cli[r]
<1>1. x \in CliRecords
  BY Zenon
<1>2. CASE Step(r, "refused")
  BY Zenon, <1>2, StepGoes DEF CliPlaces, Ended
<1>3. ASSUME NEW a \in {"scaffold", "begin"}, NEW p \in {"run", "test"},
             cli' = [cli EXCEPT ![r] = [x EXCEPT !.at = a, !.phase = p, !.touched = FALSE]]
      PROVE  /\ Went(r, a) /\ ~cli'[r].touched
             /\ KeepsImage(r) /\ KeepsAgent(r)
             /\ cli'[r].opt = cli[r].opt /\ cli'[r].file = cli[r].file
  <2> DEFINE y == [x EXCEPT !.at = a, !.phase = p, !.touched = FALSE]
  <2>1. a \in CliPlaces /\ FALSE \in Flag
    BY Zenon DEF CliPlaces, Flag
  <2> HIDE DEF x
  <2>2. y \in CliRecords /\ y.at = a /\ y.touched = FALSE
    BY Zenon, <1>1, <2>1 DEF CliRecords
  <2>3. y.tag = x.tag /\ y.print = x.print /\ y.opt = x.opt /\ y.file = x.file
    BY Zenon, <1>1 DEF CliRecords
  <2>4. /\ y.name = x.name /\ y.broken = x.broken /\ y.lost = x.lost
        /\ y.batch = x.batch /\ y.detach = x.detach
    BY Zenon, <1>1 DEF CliRecords
  <2>5. cli' = [cli EXCEPT ![r] = y]
    BY Zenon, <1>3 DEF x
  <2> HIDE DEF y
  <2>6. cli'[r] = y
    BY Zenon, <2>5
  <2> QED BY Zenon, <2>2, <2>3, <2>4, <2>5, <2>6 DEF Went, KeepsImage, KeepsAgent, x
<1>4. CASE ~Step(r, "refused")
  <2>1. \/ ~RequiresCredential(FALSE, cli[r].opt.detach, cli[r].opt.args)
        \/ ExpectReady(cli[r].opt)
    BY Zenon, <1>4 DEF Preflight
  <2>2. \/ cli' = [cli EXCEPT ![r].at = "scaffold", ![r].phase = "test", ![r].touched = FALSE]
        \/ cli' = [cli EXCEPT ![r].at = "begin", ![r].touched = FALSE]
    BY Zenon, <1>4 DEF Preflight
  <2>3. CASE cli' = [cli EXCEPT ![r].at = "scaffold", ![r].phase = "test",
                                ![r].touched = FALSE]
    <3>1. cli' = [cli EXCEPT ![r] =
                    [x EXCEPT !.at = "scaffold", !.phase = "test", !.touched = FALSE]]
      BY Zenon, <2>3
    <3> QED BY Zenon, <1>3, <2>1, <3>1
  <2>4. CASE cli' = [cli EXCEPT ![r].at = "begin", ![r].touched = FALSE]
    <3>1. PICK p \in {"run", "test"} : p = x.phase
      BY Zenon, <1>1 DEF CliRecords
    <3> DEFINE y == [x EXCEPT !.at = "begin", !.touched = FALSE]
               z == [x EXCEPT !.at = "begin", !.phase = p, !.touched = FALSE]
    <3>2. cli' = [cli EXCEPT ![r] = y]
      BY Zenon, <2>4
    <3>3. y = z
      BY Zenon, <1>1, <3>1 DEF CliRecords
    <3>4. cli' = [cli EXCEPT ![r] = z]
      BY Zenon, <3>2, <3>3
    <3> QED BY Zenon, <1>3, <2>1, <3>4
  <2> QED BY Zenon, <2>2, <2>3, <2>4
<1> QED BY Zenon, <1>2, <1>4

\* The next file of the recipe.
LEMMA NextFileGoes ==
  ASSUME NEW r \in Runs, cli \in [Runs -> CliRecords], NextFile(r)
  PROVE  /\ Went(r, "scaffold") /\ KeepsAsk(r) /\ KeepsImage(r) /\ KeepsAgent(r)
         /\ cli'[r].phase = cli[r].phase /\ cli'[r].file = cli[r].file + 1
<1> DEFINE x == cli[r]
           f == x.file + 1
           y == [x EXCEPT !.at = "scaffold", !.file = f]
<1>1. x \in CliRecords
  BY Zenon
<1>2. f \in Int
  BY <1>1 DEF CliRecords
<1>3. "scaffold" \in CliPlaces
  BY Zenon DEF CliPlaces
<1>4. cli' = [cli EXCEPT ![r] = y]
  BY Zenon DEF NextFile
<1> HIDE DEF x, f
<1>5. y \in CliRecords /\ y.at = "scaffold" /\ y.file = f
  BY Zenon, <1>1, <1>2, <1>3 DEF CliRecords
<1>6. /\ y.tag = x.tag /\ y.print = x.print /\ y.opt = x.opt /\ y.phase = x.phase
      /\ y.touched = x.touched
  BY Zenon, <1>1 DEF CliRecords
<1>7. /\ y.name = x.name /\ y.broken = x.broken /\ y.lost = x.lost
      /\ y.batch = x.batch /\ y.detach = x.detach
  BY Zenon, <1>1 DEF CliRecords
<1> HIDE DEF y
<1>8. cli'[r] = y
  BY Zenon, <1>4
<1>9. Went(r, "scaffold")
  BY Zenon, <1>4, <1>5, <1>8 DEF Went
<1> QED
  BY Zenon, <1>5, <1>6, <1>7, <1>8, <1>9 DEF KeepsAsk, KeepsImage, KeepsAgent, x, f

\* Only r's record changes.
LEMMA Replaced ==
  ASSUME NEW r \in Runs, cli \in [Runs -> CliRecords], NEW y \in CliRecords,
         cli' = [cli EXCEPT ![r] = y]
  PROVE  Went(r, y.at) /\ cli'[r] = y
<1>1. cli'[r] = y
  BY Zenon
<1> QED BY Zenon, <1>1 DEF Went

\* The credential is staged and the image chosen.
LEMMA StageGoes ==
  ASSUME NEW r \in Runs, cli \in [Runs -> CliRecords], NEW command \in BOOLEAN,
         NEW detach \in BOOLEAN, Stage(r, command, detach)
  PROVE  \E a \in {"barred", "docker"} :
           /\ Went(r, a) /\ KeepsAsk(r) /\ KeepsFile(r)
           /\ cli'[r].tag = SelectedTag /\ cli'[r].print = cli[r].print
           /\ cli'[r].name = FirstName(r) /\ cli'[r].lost = cli[r].lost
           /\ a = "barred" => ~StagedReady(cli[r].opt)
<1> DEFINE x == cli[r]
           o == x.opt
           test == x.phase = "test"
           batch == test \/ o.args # "none" \/ command
           away == ~test /\ (o.detach \/ detach)
           stop == ~test /\ RequiresCredential(command, away, o.args) /\ ~StagedReady(o)
           a == IF stop THEN "barred" ELSE "docker"
           t == SelectedTag
           n == FirstName(r)
<1>1. x \in CliRecords
  BY Zenon
<1>2. a \in {"barred", "docker"} /\ (a = "barred" => ~StagedReady(x.opt))
  <2>1. CASE stop
    BY Zenon, <2>1
  <2>2. CASE ~stop
    <3>1. a = "docker"
      BY Zenon, <2>2
    <3> HIDE DEF a, stop
    <3> QED BY <3>1
  <2> HIDE DEF a, stop
  <2> QED BY Zenon, <2>1, <2>2
<1>3. t \in Tags
  BY Zenon DEF SelectedTag, Tags
<1>4. n \in Names
  <2>1. 1 \in Names
    BY RecipeAssumption DEF Names
  <2> QED BY Zenon, <2>1 DEF FirstName, Names
<1>5. PICK u \in Flag : u = batch
  BY Zenon DEF Flag
<1>6. PICK w \in Flag : w = away
  BY Zenon DEF Flag
<1>7. cli' = [cli EXCEPT ![r].tag = t, ![r].batch = batch, ![r].detach = away,
                         ![r].name = n, ![r].at = a]
  BY Zenon DEF Stage
<1> DEFINE y == [x EXCEPT !.tag = t, !.batch = u, !.detach = w, !.name = n, !.at = a]
<1>8. cli' = [cli EXCEPT ![r] = y]
  <2> HIDE DEF batch, away, t, n, a
  <2> QED BY Zenon, <1>5, <1>6, <1>7
<1> HIDE DEF x, o, test, batch, away, stop, a, t, n
<1>9. a \in CliPlaces
  BY Zenon, <1>2 DEF CliPlaces
<1>10. y \in CliRecords
  BY Zenon, <1>1, <1>3, <1>4, <1>9 DEF CliRecords
<1>11. y.at = a /\ y.tag = t /\ y.name = n
  BY Zenon, <1>1, <1>3, <1>4, <1>9 DEF CliRecords
<1>12. y.opt = x.opt /\ y.touched = x.touched /\ y.file = x.file /\ y.phase = x.phase
  BY Zenon, <1>1 DEF CliRecords
<1>13. y.print = x.print /\ y.lost = x.lost
  BY Zenon, <1>1 DEF CliRecords
<1> HIDE DEF y
<1>14. Went(r, a) /\ cli'[r] = y
  BY Zenon, <1>8, <1>10, <1>11, Replaced
<1>15. KeepsAsk(r) /\ KeepsFile(r)
  BY Zenon, <1>12, <1>14 DEF KeepsAsk, KeepsFile, x
<1> QED BY Zenon, <1>2, <1>11, <1>13, <1>14, <1>15 DEF x, t, n

\* The directory's version is noted.
LEMMA FingerprintGoes ==
  ASSUME NEW r \in Runs, cli \in [Runs -> CliRecords], ctx \in Versions, Fingerprint(r)
  PROVE  \E a \in {"failed", "runtime", "build"} :
           /\ Went(r, a) /\ KeepsAsk(r) /\ KeepsFile(r) /\ KeepsAgent(r)
           /\ cli'[r].tag = cli[r].tag /\ cli'[r].print = ctx
           /\ a # "failed" => files["Dockerfile"] # "absent"
           /\ a = "runtime" => Cached(r)
<1> DEFINE x == cli[r]
           a == IF files["Dockerfile"] = "absent" THEN "failed"
                ELSE IF Cached(r) THEN "runtime" ELSE "build"
           y == [x EXCEPT !.print = ctx, !.at = a]
<1>1. x \in CliRecords
  BY Zenon
<1>2. /\ a \in {"failed", "runtime", "build"}
      /\ a # "failed" => files["Dockerfile"] # "absent"
  BY Zenon
<1>3. a = "runtime" => Cached(r)
  <2>1. CASE files["Dockerfile"] = "absent"
    <3>1. a = "failed"
      BY Zenon, <2>1
    <3> HIDE DEF a
    <3> QED BY <3>1
  <2>2. CASE files["Dockerfile"] # "absent" /\ ~Cached(r)
    <3>1. a = "build"
      BY Zenon, <2>2
    <3> HIDE DEF a
    <3> QED BY <3>1
  <2> QED BY Zenon, <2>1, <2>2
<1>4. cli' = [cli EXCEPT ![r] = y]
  BY Zenon DEF Fingerprint
<1> HIDE DEF x, a
<1>5. a \in CliPlaces
  BY Zenon, <1>2 DEF CliPlaces
<1>6. y \in CliRecords /\ y.at = a /\ y.print = ctx
  BY Zenon, <1>1, <1>5 DEF CliRecords
<1>7. /\ y.opt = x.opt /\ y.touched = x.touched /\ y.file = x.file /\ y.phase = x.phase
      /\ y.tag = x.tag
  BY Zenon, <1>1 DEF CliRecords
<1>8. /\ y.name = x.name /\ y.broken = x.broken /\ y.lost = x.lost
      /\ y.batch = x.batch /\ y.detach = x.detach
  BY Zenon, <1>1 DEF CliRecords
<1> HIDE DEF y
<1>9. Went(r, a) /\ cli'[r] = y
  BY Zenon, <1>4, <1>6, Replaced
<1>10. KeepsAsk(r) /\ KeepsFile(r) /\ KeepsAgent(r)
  BY Zenon, <1>7, <1>8, <1>9 DEF KeepsAsk, KeepsFile, KeepsAgent, x
<1> QED BY Zenon, <1>2, <1>3, <1>6, <1>7, <1>9, <1>10 DEF x

\* A name that is taken is counted up.
LEMMA NextNameGoes ==
  ASSUME NEW r \in Runs, cli \in [Runs -> CliRecords], cli[r].name \in 1 .. MaxNames,
         NextName(r)
  PROVE  /\ Went(r, "launch") /\ KeepsAsk(r) /\ KeepsFile(r) /\ KeepsImage(r)
         /\ cli'[r].name \in 1 .. MaxNames /\ cli'[r].lost = cli[r].lost
<1> DEFINE x == cli[r]
           n == x.name + 1
           y == [x EXCEPT !.name = n]
<1>1. x \in CliRecords /\ x.at = "launch"
  BY Zenon DEF NextName
<1>2. cli' = [cli EXCEPT ![r] = y] /\ x.name < MaxNames
  BY Zenon DEF NextName
<1>3. n \in 1 .. MaxNames
  BY <1>2, RecipeAssumption
<1> HIDE DEF x, n
<1>4. n \in Names
  BY Zenon, <1>3 DEF Names
<1>5. y \in CliRecords /\ y.name = n /\ y.at = x.at
  BY Zenon, <1>1, <1>4 DEF CliRecords
<1>6. /\ y.opt = x.opt /\ y.touched = x.touched /\ y.file = x.file /\ y.phase = x.phase
      /\ y.tag = x.tag /\ y.print = x.print /\ y.lost = x.lost
  BY Zenon, <1>1 DEF CliRecords
<1> HIDE DEF y
<1>7. y.at = "launch"
  BY Zenon, <1>1, <1>5
<1>8. Went(r, "launch") /\ cli'[r] = y
  BY Zenon, <1>2, <1>5, <1>7, Replaced
<1> QED
  BY Zenon, <1>3, <1>5, <1>6, <1>8 DEF KeepsAsk, KeepsFile, KeepsImage, x

\* Following the logs is over, well or not.
LEMMA FollowGoes ==
  ASSUME NEW r \in Runs, cli \in [Runs -> CliRecords], NEW g \in Flag,
         cli' = [cli EXCEPT ![r].at = "finish", ![r].broken = g]
  PROVE  /\ Went(r, "finish") /\ KeepsAsk(r) /\ KeepsFile(r) /\ KeepsImage(r)
         /\ cli'[r].name = cli[r].name /\ cli'[r].lost = cli[r].lost /\ cli'[r].broken = g
<1> DEFINE x == cli[r]
           y == [x EXCEPT !.at = "finish", !.broken = g]
<1>1. x \in CliRecords /\ "finish" \in CliPlaces
  BY Zenon DEF CliPlaces
<1>2. cli' = [cli EXCEPT ![r] = y]
  BY Zenon
<1> HIDE DEF x
<1>3. y \in CliRecords /\ y.at = "finish" /\ y.broken = g
  BY Zenon, <1>1 DEF CliRecords
<1>4. /\ y.opt = x.opt /\ y.touched = x.touched /\ y.file = x.file /\ y.phase = x.phase
      /\ y.tag = x.tag /\ y.print = x.print /\ y.lost = x.lost /\ y.name = x.name
  BY Zenon, <1>1 DEF CliRecords
<1> HIDE DEF y
<1>5. Went(r, y.at) /\ cli'[r] = y
  BY Zenon, <1>2, <1>3, Replaced
<1>6. Went(r, "finish")
  BY Zenon, <1>3, <1>5
<1> QED BY Zenon, <1>3, <1>4, <1>5, <1>6 DEF KeepsAsk, KeepsFile, KeepsImage, x

\* The places of a command whose container may be removed under it.
Watching == {"follow", "attach", "finish"}

\* Another command's record, when a container is removed.
Bereft(q, n) ==
  /\ cli'[q].at = cli[q].at
  /\ Keeps(q) \/ (/\ KeepsAsk(q) /\ KeepsFile(q) /\ KeepsImage(q) /\ cli'[q].lost
                  /\ cli'[q].name = cli[q].name /\ cli'[q].broken = cli[q].broken
                  /\ cli[q].at \in Watching)
  /\ cli[q].at \in Watching /\ ~cli'[q].lost => cli[q].name # n \/ agent[n].by # q

LEMMA LosesGoes ==
  ASSUME NEW q \in Runs, NEW n \in Names, cli \in [Runs -> CliRecords],
         cli'[q] = [cli[q] EXCEPT !.lost = Loses(q, n)]
  PROVE  cli'[q] \in CliRecords /\ Bereft(q, n)
<1> DEFINE x == cli[q]
<1>1. PICK g \in Flag : g = Loses(q, n)
  BY Zenon DEF Flag, Loses
<1> DEFINE y == [x EXCEPT !.lost = g]
<1>2. x \in CliRecords /\ cli'[q] = y
  BY Zenon, <1>1
<1> HIDE DEF x
<1>3. y \in CliRecords /\ y.lost = g /\ y.at = x.at
  BY Zenon, <1>2 DEF CliRecords
<1>4. /\ y.opt = x.opt /\ y.touched = x.touched /\ y.file = x.file /\ y.phase = x.phase
      /\ y.tag = x.tag /\ y.print = x.print
  BY Zenon, <1>2 DEF CliRecords
<1>5. y.name = x.name /\ y.broken = x.broken /\ y.batch = x.batch /\ y.detach = x.detach
  BY Zenon, <1>2 DEF CliRecords
<1> HIDE DEF y
<1>6. KeepsAsk(q) /\ KeepsFile(q) /\ KeepsImage(q)
  BY Zenon, <1>2, <1>4 DEF KeepsAsk, KeepsFile, KeepsImage, x
<1>7. x.lost = cli[q].lost /\ x.lost \in Flag
  BY Zenon, <1>2 DEF CliRecords, x
<1>8. x.lost = g => KeepsAgent(q)
  BY Zenon, <1>2, <1>3, <1>5 DEF KeepsAgent, x
<1>9. CASE x.lost
  <2>1. g = x.lost
    BY Zenon, <1>1, <1>7, <1>9 DEF Loses, Flag
  <2> QED
    BY Zenon, <1>2, <1>3, <1>6, <1>7, <1>8, <1>9, <2>1 DEF Bereft, Keeps, x
<1>10. CASE ~x.lost /\ g
  <2>1. cli[q].at \in Watching
    BY Zenon, <1>1, <1>7, <1>10 DEF Loses, Watching
  <2> QED
    BY Zenon, <1>2, <1>3, <1>5, <1>6, <1>10, <2>1 DEF Bereft, x
<1>11. CASE ~x.lost /\ ~g
  <2>1. x.lost = g
    BY Zenon, <1>7, <1>11 DEF Flag
  <2>2. ~(cli[q].at \in Watching /\ cli[q].name = n /\ agent[n].by = q)
    BY Zenon, <1>1, <1>11 DEF Loses, Watching
  <2>3. Keeps(q)
    BY Zenon, <1>6, <1>8, <2>1 DEF Keeps
  <2> QED BY Zenon, <1>2, <1>3, <2>2, <2>3 DEF Bereft, x
<1> QED BY Zenon, <1>9, <1>10, <1>11

\* The end of a command that had a container.
LEMMA FinishGoes ==
  ASSUME NEW r \in Runs, cli \in [Runs -> CliRecords], Finish(r)
  PROVE  \E a \in {"begin", "done", "failed"} :
           /\ cli' \in [Runs -> CliRecords] /\ cli'[r].at = a /\ ~cli'[r].lost
           /\ IF a = "begin" THEN KeepsAsk(r) /\ cli'[r].file = cli[r].file
              ELSE ~cli'[r].touched /\ cli'[r].file = 1
           /\ \/ /\ agent' = agent /\ \A q \in Runs : q # r => cli'[q] = cli[q]
              \/ /\ agent' = [agent EXCEPT ![cli[r].name] = NoAgent]
                 /\ \A q \in Runs : q # r => Bereft(q, cli[r].name)
<1> DEFINE x == cli[r]
           a == AfterFinish(r)
           after == IF a = "begin"
                    THEN [x EXCEPT !.at = "begin", !.phase = "run", !.lost = FALSE]
                    ELSE [NoCli EXCEPT !.at = a]
<1>1. x \in CliRecords /\ FALSE \in Flag
  BY Zenon DEF Flag
<1>2. a \in {"begin", "done", "failed"}
  BY Zenon DEF AfterFinish
<1>3. "begin" \in CliPlaces /\ "done" \in CliPlaces /\ "failed" \in CliPlaces
  BY Zenon DEF CliPlaces
<1>4. \/ /\ agent' = agent /\ cli' = [cli EXCEPT ![r] = after]
      \/ /\ cli' = [q \in Runs |->
                     IF q = r THEN after ELSE [cli[q] EXCEPT !.lost = Loses(q, cli[r].name)]]
         /\ agent' = [agent EXCEPT ![cli[r].name] = NoAgent]
  BY Zenon DEF Finish
<1>5. /\ after \in CliRecords /\ after.at = a /\ ~after.lost
      /\ IF a = "begin" THEN /\ after.opt = x.opt /\ after.touched = x.touched
                             /\ after.file = x.file
         ELSE ~after.touched /\ after.file = 1
  <2> HIDE DEF x
  <2>1. CASE a = "begin"
    <3> DEFINE y == [x EXCEPT !.at = "begin", !.phase = "run", !.lost = FALSE]
    <3>1. y \in CliRecords /\ y.at = "begin" /\ y.lost = FALSE
      BY Zenon, <1>1, <1>3 DEF CliRecords
    <3>2. y.opt = x.opt /\ y.touched = x.touched /\ y.file = x.file
      BY Zenon, <1>1 DEF CliRecords
    <3>3. after = y
      BY Zenon, <2>1
    <3> HIDE DEF y, a, after
    <3> QED BY Zenon, <2>1, <3>1, <3>2, <3>3
  <2>2. CASE a # "begin"
    <3> HIDE DEF a
    <3> DEFINE y == [NoCli EXCEPT !.at = a]
    <3>1. y \in CliRecords /\ y.at = a
      BY Zenon, <1>2, <1>3, NewCli DEF CliRecords
    <3>2. y.lost = NoCli.lost /\ y.touched = NoCli.touched /\ y.file = NoCli.file
      BY Zenon, NewCli DEF CliRecords
    <3>3. after = y
      BY Zenon, <2>2
    <3> HIDE DEF y, after
    <3> QED BY Zenon, <2>2, <3>1, <3>2, <3>3, NewCli
  <2> QED BY Zenon, <2>1, <2>2
<1> HIDE DEF a, after
<1>6. cli'[r] = after
  BY Zenon, <1>4
<1>7. IF a = "begin" THEN KeepsAsk(r) /\ cli'[r].file = cli[r].file
      ELSE ~cli'[r].touched /\ cli'[r].file = 1
  BY Zenon, <1>5, <1>6 DEF KeepsAsk, x
<1>8. CASE agent' = agent /\ cli' = [cli EXCEPT ![r] = after]
  <2>1. cli' \in [Runs -> CliRecords] /\ \A q \in Runs : q # r => cli'[q] = cli[q]
    BY Zenon, <1>5, <1>8
  <2> QED BY Zenon, <1>2, <1>5, <1>6, <1>7, <1>8, <2>1
<1>9. CASE /\ cli' = [q \in Runs |->
                     IF q = r THEN after ELSE [cli[q] EXCEPT !.lost = Loses(q, cli[r].name)]]
           /\ agent' = [agent EXCEPT ![cli[r].name] = NoAgent]
  <2>1. cli[r].name \in Names
    BY Zenon, <1>1 DEF CliRecords
  <2>2. ASSUME NEW q \in Runs, q # r
        PROVE  cli'[q] \in CliRecords /\ Bereft(q, cli[r].name)
    <3>1. cli'[q] = [cli[q] EXCEPT !.lost = Loses(q, cli[r].name)]
      BY Zenon, <1>9, <2>2
    <3> QED BY Zenon, <2>1, <3>1, LosesGoes
  <2>3. \A q \in Runs : cli'[q] \in CliRecords
    BY Zenon, <1>5, <1>6, <2>2
  <2>4. cli' \in [Runs -> CliRecords]
    BY Zenon, <1>9, <2>3
  <2> QED BY Zenon, <1>2, <1>5, <1>6, <1>7, <1>9, <2>2, <2>4
<1> QED BY Zenon, <1>4, <1>8, <1>9

\* `outcall remove`.
LEMMA RemoveGoes ==
  ASSUME NEW n \in Names, cli \in [Runs -> CliRecords], CmdRemove(n)
  PROVE  /\ cli' \in [Runs -> CliRecords] /\ agent' = [agent EXCEPT ![n] = NoAgent]
         /\ \A q \in Runs : Bereft(q, n)
<1>1. cli' = [q \in Runs |-> [cli[q] EXCEPT !.lost = Loses(q, n)]]
  BY Zenon DEF CmdRemove
<1>2. ASSUME NEW q \in Runs
      PROVE  cli'[q] \in CliRecords /\ Bereft(q, n)
  <2>1. cli'[q] = [cli[q] EXCEPT !.lost = Loses(q, n)]
    BY Zenon, <1>1
  <2> QED BY Zenon, <2>1, LosesGoes
<1> QED BY Zenon, <1>1, <1>2 DEF CmdRemove

\* The commands are told of a change of the credentials.
LEMMA TouchedGoes ==
  ASSUME cli \in [Runs -> CliRecords], Touched
  PROVE  /\ cli' \in [Runs -> CliRecords]
         /\ \A q \in Runs :
              /\ cli'[q].at = cli[q].at /\ cli'[q].opt = cli[q].opt
              /\ KeepsFile(q) /\ KeepsImage(q) /\ KeepsAgent(q)
              /\ cli[q].at \notin Ended => cli'[q].touched
<1>1. ASSUME NEW q \in Runs
      PROVE  /\ cli'[q] \in CliRecords
             /\ cli'[q].at = cli[q].at /\ cli'[q].opt = cli[q].opt
             /\ KeepsFile(q) /\ KeepsImage(q) /\ KeepsAgent(q)
             /\ cli[q].at \notin Ended => cli'[q].touched
  <2> DEFINE x == cli[q]
  <2>1. PICK g \in Flag : g = (x.touched \/ x.at \notin Ended)
    BY Zenon DEF Flag
  <2> DEFINE y == [x EXCEPT !.touched = g]
  <2>2. x \in CliRecords /\ cli'[q] = y
    BY Zenon, <2>1 DEF Touched
  <2> HIDE DEF x
  <2>3. y \in CliRecords /\ y.touched = g
    BY Zenon, <2>2 DEF CliRecords
  <2>4. /\ y.opt = x.opt /\ y.at = x.at /\ y.file = x.file /\ y.phase = x.phase
        /\ y.tag = x.tag /\ y.print = x.print
    BY Zenon, <2>2 DEF CliRecords
  <2>5. /\ y.name = x.name /\ y.broken = x.broken /\ y.lost = x.lost
        /\ y.batch = x.batch /\ y.detach = x.detach
    BY Zenon, <2>2 DEF CliRecords
  <2>6. x.at \notin Ended => g
    BY Zenon, <2>1
  <2> HIDE DEF y
  <2>7. KeepsFile(q) /\ KeepsImage(q) /\ KeepsAgent(q)
    BY Zenon, <2>2, <2>4, <2>5 DEF KeepsFile, KeepsImage, KeepsAgent, x
  <2> QED BY Zenon, <2>2, <2>3, <2>4, <2>6, <2>7 DEF x
<1>2. cli' \in [Runs -> CliRecords]
  BY Zenon, <1>1 DEF Touched
<1> QED BY Zenon, <1>1, <1>2

-----------------------------------------------------------------------------
(* Types of the project's state.                                           *)

\* What staging leaves in the project's home, and the mode it saves.
LEMMA AuthTypes ==
  ASSUME WorldTypes, NEW o \in Options \cup HostedOptions
  PROVE  Copied(o) \in {"none", "file", "other"} /\ EffectiveMode(o) \in Modes
<1>1. o.mode \in Modes \cup {"auto"}
  BY Zenon, RecipeAssumption DEF Flags
<1>2. EffectiveMode(o) \in Modes
  BY Zenon, <1>1 DEF EffectiveMode, Modes, WorldTypes
<1> QED BY Zenon, <1>2 DEF Copied, WorldTypes

\* The directory's version after Turns.
LEMMA TurnsTypes ==
  ASSUME NEW v \in 0 .. MaxVersion, Turns(v)
  PROVE  ctx' \in 0 .. MaxVersion /\ mixed' \in Flag
BY Zenon DEF Turns, Flag

LEMMA WriteTypes ==
  ASSUME WorldTypes, NEW f, Write(f)
  PROVE  files' \in [FileNames -> States] /\ ctx' \in 0 .. MaxVersion /\ mixed' \in Flag
<1>1. 0 \in 0 .. MaxVersion
  BY RecipeAssumption
<1>2. (IF f = "Dockerfile" THEN 0 ELSE ctx) \in 0 .. MaxVersion
  BY Zenon, <1>1 DEF WorldTypes
<1>3. ctx' \in 0 .. MaxVersion /\ mixed' \in Flag
  BY Zenon, <1>2, TurnsTypes DEF Write
<1>4. files' \in [FileNames -> States]
  BY Zenon DEF Write, WorldTypes, States
<1> QED BY Zenon, <1>3, <1>4

LEMMA InitializedTypes ==
  ASSUME WorldTypes
  PROVE  Initialized \in [FileNames -> States]
BY Zenon DEF Initialized, WorldTypes, States

\* A step of the commands keeps the types of what they share.
LEMMA CommandWorld ==
  ASSUME RecipeTypes, NEW r \in Runs, CommandStep(r)
  PROVE  WorldTypes'
<1> DEFINE x == cli[r]
<1>1. x \in CliRecords
  BY Zenon DEF RecipeTypes
<1>2. /\ x.tag \in Tags /\ x.name \in Names /\ x.opt \in Options \cup HostedOptions
      /\ x.print \in Versions
  BY Zenon, <1>1 DEF CliRecords
<1>3. 0 \in 0 .. MaxVersion
  BY RecipeAssumption
<1>4. WorldTypes
  BY Zenon DEF RecipeTypes
<1>5. ASSUME UNCHANGED World
      PROVE  WorldTypes'
  BY Zenon, <1>4, <1>5 DEF WorldTypes, World
<1>6. CASE Overwrite(r) \/ Create(r)
  <2>1. Write(Current(r)) /\ UNCHANGED <<image, loose, stamp, host, home, pref, agent>>
    BY Zenon, <1>6 DEF Overwrite, Create
  <2>2. /\ files' \in [FileNames -> States] /\ ctx' \in 0 .. MaxVersion
        /\ mixed' \in Flag
    BY Zenon, <1>4, <2>1, WriteTypes
  <2> QED BY Zenon, <1>4, <2>1, <2>2 DEF WorldTypes
<1>7. CASE Initialize(r)
  <2>1. /\ files' = Initialized \/ files' = files
        /\ Turns(IF files["Dockerfile"] = "absent" /\ CanInitialize THEN 0 ELSE ctx)
        /\ UNCHANGED <<image, loose, stamp, host, home, pref, agent>>
    BY Zenon, <1>7 DEF Initialize
  <2>2. (IF files["Dockerfile"] = "absent" /\ CanInitialize THEN 0 ELSE ctx)
          \in 0 .. MaxVersion
    BY Zenon, <1>3, <1>4 DEF WorldTypes
  <2>3. ctx' \in 0 .. MaxVersion /\ mixed' \in Flag
    BY Zenon, <2>1, <2>2, TurnsTypes
  <2>4. files' \in [FileNames -> States]
    BY Zenon, <1>4, <2>1, InitializedTypes DEF WorldTypes
  <2> QED BY Zenon, <1>4, <2>1, <2>3, <2>4 DEF WorldTypes
<1>8. CASE \E command, detach \in BOOLEAN : Stage(r, command, detach)
  <2>1. /\ home' = Copied(cli[r].opt)
        /\ UNCHANGED <<files, ctx, image, loose, stamp, host, pref, agent, mixed>>
    BY Zenon, <1>8 DEF Stage
  <2>2. home' \in {"none", "file", "other"}
    BY Zenon, <1>2, <1>4, <2>1, AuthTypes
  <2> QED BY Zenon, <1>4, <2>1, <2>2 DEF WorldTypes
<1>9. CASE Pull(r)
  <2>1. image' \in [Tags -> Images]
    BY Zenon, <1>3, <1>4, <1>9 DEF Pull, WorldTypes, Versions, Images
  <2> QED BY Zenon, <1>4, <1>9, <2>1 DEF Pull, WorldTypes
<1>10. CASE Fingerprint(r)
  <2>1. mixed' \in Flag
    BY Zenon, <1>10 DEF Fingerprint, Flag
  <2> QED BY Zenon, <1>4, <1>10, <2>1 DEF Fingerprint, WorldTypes
<1>11. CASE Build(r)
  <2>1. image' \in [Tags -> Images]
    BY Zenon, <1>4, <1>11 DEF Build, WorldTypes, Versions, Images
  <2> QED BY Zenon, <1>4, <1>11, <2>1 DEF Build, WorldTypes
<1>12. CASE Launch(r)
  <2>1. agent' \in [Names -> [state : {"none", "running", "exited"}, by : Runs \cup {NoRun}]]
    BY Zenon, <1>4, <1>12 DEF Launch, WorldTypes
  <2> QED BY Zenon, <1>4, <1>12, <2>1 DEF Launch, WorldTypes
<1>13. CASE Finish(r)
  <2>1. agent' \in [Names -> [state : {"none", "running", "exited"}, by : Runs \cup {NoRun}]]
    <3>1. NoAgent \in [state : {"none", "running", "exited"}, by : Runs \cup {NoRun}]
      BY Zenon DEF NoAgent
    <3>2. agent' = agent \/ agent' = [agent EXCEPT ![cli[r].name] = NoAgent]
      BY Zenon, <1>13 DEF Finish
    <3> QED BY Zenon, <1>4, <3>1, <3>2 DEF WorldTypes
  <2> QED BY Zenon, <1>4, <1>13, <2>1 DEF Finish, WorldTypes
<1>14. CASE Stamp(r)
  BY Zenon, <1>2, <1>4, <1>14 DEF Stamp, WorldTypes
<1>15. CASE \E o \in IF Plain THEN Options ELSE HostedOptions : Start(r, o)
  BY Zenon, <1>5, <1>15 DEF Start
<1>16. CASE \E good \in BOOLEAN : FollowEnds(r, good) \/ AttachEnds(r, good)
  BY Zenon, <1>5, <1>16 DEF FollowEnds, AttachEnds
<1>17. CASE \E auto_pull \in BOOLEAN : ImageAction(r, auto_pull)
  BY Zenon, <1>5, <1>17 DEF ImageAction
<1>18. CASE Preflight(r) \/ LookFor(r) \/ Scaffolded(r) \/ DockerReady(r)
  BY Zenon, <1>5, <1>18 DEF Preflight, LookFor, Scaffolded, DockerReady
<1>19. CASE RuntimeReady(r) \/ BrokerSettled(r) \/ NextName(r) \/ NameTaken(r)
  BY Zenon, <1>5, <1>19 DEF RuntimeReady, BrokerSettled, NextName, NameTaken
<1> QED
  BY Zenon, <1>6, <1>7, <1>8, <1>9, <1>10, <1>11, <1>12, <1>13, <1>14, <1>15, <1>16, <1>17,
     <1>18, <1>19 DEF CommandStep

\* The failures and the user's acts keep them too.
LEMMA UpsetWorld ==
  ASSUME RecipeTypes,
         \/ \E r \in Runs : CommandTrouble(r)
         \/ \E n \in Names : AgentExits(n)
         \/ \E x \in loose : LooseEnds(x)
         \/ UserActs
         \/ \E r \in Runs : KillCommand(r)
  PROVE  WorldTypes'
<1>1. WorldTypes /\ \A r \in Runs : cli[r].name \in Names
  BY Zenon DEF RecipeTypes, CliRecords
<1>2. ASSUME UNCHANGED World
      PROVE  WorldTypes'
  BY Zenon, <1>1, <1>2 DEF WorldTypes, World
<1>3. ASSUME NEW r \in Runs, FollowBreaks(r) \/ AttachBreaks(r)
      PROVE  WorldTypes'
  BY Zenon, <1>2, <1>3 DEF FollowBreaks, AttachBreaks
<1>4. ASSUME NEW r \in Runs, PullFails(r) \/ RecipeFails(r) \/ KillCommand(r)
      PROVE  WorldTypes'
  <2>1. /\ LeavesBuild(r)
        /\ UNCHANGED <<files, ctx, image, stamp, host, home, pref, agent>>
    BY Zenon, <1>4 DEF PullFails, RecipeFails, KillCommand
  <2>2. mixed' \in Flag
    BY Zenon, <2>1 DEF LeavesBuild, Flag
  <2>3. cli[r].tag \in Tags /\ 0 \in 0 .. MaxVersion /\ ctx \in 0 .. MaxVersion
    <3>1. 0 \in 0 .. MaxVersion
      BY RecipeAssumption
    <3> QED BY Zenon, <3>1 DEF RecipeTypes, CliRecords, WorldTypes
  <2> DEFINE x == [tag |-> cli[r].tag, of |-> IF cli[r].at = "pull" THEN 0 ELSE ctx]
  <2>4. x \in [tag : Tags, of : 0 .. MaxVersion]
    BY Zenon, <2>3
  <2>5. loose' = loose \/ loose' = loose \cup {x}
    BY Zenon, <2>1 DEF LeavesBuild
  <2> HIDE DEF x
  <2>6. loose' \subseteq [tag : Tags, of : 0 .. MaxVersion]
    BY Zenon, <1>1, <2>4, <2>5 DEF WorldTypes
  <2> QED BY Zenon, <1>1, <2>1, <2>2, <2>6 DEF WorldTypes
<1>5. ASSUME NEW r \in Runs, LaunchLost(r)
      PROVE  WorldTypes'
  <2>1. agent' \in [Names -> [state : {"none", "running", "exited"}, by : Runs \cup {NoRun}]]
    BY Zenon, <1>1, <1>5 DEF LaunchLost, WorldTypes
  <2> QED BY Zenon, <1>1, <1>5, <2>1 DEF LaunchLost, WorldTypes
<1>6. ASSUME NEW n \in Names, AgentExits(n)
      PROVE  WorldTypes'
  <2>1. agent' \in [Names -> [state : {"none", "running", "exited"}, by : Runs \cup {NoRun}]]
    <3> DEFINE x == agent[n]
               y == [x EXCEPT !.state = "exited"]
    <3>1. x \in [state : {"none", "running", "exited"}, by : Runs \cup {NoRun}]
      BY Zenon, <1>1 DEF WorldTypes
    <3>2. agent' = [agent EXCEPT ![n] = y]
      BY Zenon, <1>6 DEF AgentExits
    <3> HIDE DEF x
    <3>3. y \in [state : {"none", "running", "exited"}, by : Runs \cup {NoRun}]
      BY Zenon, <3>1
    <3> HIDE DEF y
    <3> QED BY Zenon, <1>1, <3>2, <3>3 DEF WorldTypes
  <2> QED BY Zenon, <1>1, <1>6, <2>1 DEF AgentExits, WorldTypes
<1>7. ASSUME NEW n \in Names, CmdRemove(n)
      PROVE  WorldTypes'
  <2>1. agent' \in [Names -> [state : {"none", "running", "exited"}, by : Runs \cup {NoRun}]]
    BY Zenon, <1>1, <1>7 DEF CmdRemove, WorldTypes, NoAgent
  <2> QED BY Zenon, <1>1, <1>7, <2>1 DEF CmdRemove, WorldTypes
<1>8. CASE SignInOrOut
  <2>1. host' \in Flag
    BY Zenon, <1>8 DEF SignInOrOut, Flag
  <2> QED BY Zenon, <1>1, <1>8, <2>1 DEF SignInOrOut, WorldTypes
<1>9. ASSUME NEW n \in Names, NEW what \in {"file", "other"}, AgentLogsIn(n, what)
      PROVE  WorldTypes'
  BY Zenon, <1>1, <1>9 DEF AgentLogsIn, WorldTypes
<1>10. ASSUME NEW o \in Options, CmdAuth(o)
       PROVE  WorldTypes'
  <2>1. Copied(o) \in {"none", "file", "other"} /\ EffectiveMode(o) \in Modes
    BY Zenon, <1>1, AuthTypes
  <2>2. 0 \in 0 .. MaxVersion
    BY RecipeAssumption
  <2>3. (IF files["Dockerfile"] = "absent" THEN 0 ELSE ctx) \in 0 .. MaxVersion
    BY Zenon, <1>1, <2>2 DEF WorldTypes
  <2>4. ctx' \in 0 .. MaxVersion /\ mixed' \in Flag
    BY Zenon, <1>10, <2>3, TurnsTypes DEF CmdAuth
  <2>5. pref' \in Modes \cup {"none"} /\ home' \in {"none", "file", "other"}
    BY Zenon, <1>1, <1>10, <2>1 DEF CmdAuth, WorldTypes
  <2>6. files' \in [FileNames -> States]
    BY Zenon, <1>1, <1>10, InitializedTypes DEF CmdAuth
  <2> QED BY Zenon, <1>1, <1>10, <2>4, <2>5, <2>6 DEF CmdAuth, WorldTypes
<1>11. ASSUME NEW v \in 0 .. MaxVersion, EditRecipe(v)
       PROVE  WorldTypes'
  <2>1. ctx' \in 0 .. MaxVersion /\ mixed' \in Flag
    BY Zenon, <1>11, TurnsTypes DEF EditRecipe
  <2>2. files' \in [FileNames -> States]
    BY Zenon, <1>1, <1>11 DEF EditRecipe, WorldTypes, States
  <2> QED BY Zenon, <1>1, <1>11, <2>1, <2>2 DEF EditRecipe, WorldTypes
<1>12. ASSUME NEW f, EditFile(f) \/ DeleteFile(f)
       PROVE  WorldTypes'
  <2>1. files' \in [FileNames -> States]
    BY Zenon, <1>1, <1>12 DEF EditFile, DeleteFile, WorldTypes, States
  <2> QED BY Zenon, <1>1, <1>12, <2>1 DEF EditFile, DeleteFile, WorldTypes
<1>13. ASSUME NEW tag \in Tags, DeleteImage(tag) \/ OtherBuilds(tag)
       PROVE  WorldTypes'
  <2>1. image' \in [Tags -> Images]
    BY Zenon, <1>1, <1>13 DEF DeleteImage, OtherBuilds, WorldTypes, Versions, Images
  <2> QED BY Zenon, <1>1, <1>13, <2>1 DEF DeleteImage, OtherBuilds, WorldTypes
<1>15. ASSUME NEW x \in loose, LooseEnds(x)
       PROVE  WorldTypes'
  <2>1. x \in [tag : Tags, of : 0 .. MaxVersion]
    BY Zenon, <1>1 DEF WorldTypes
  <2>2. x.of \in Images
    BY Zenon, <2>1 DEF Images, Versions
  <2>3. image' \in [Tags -> Images]
    BY Zenon, <1>1, <1>15, <2>2 DEF LooseEnds, WorldTypes
  <2>4. loose' \subseteq [tag : Tags, of : 0 .. MaxVersion] /\ mixed' \in Flag
    BY Zenon, <1>1, <1>15 DEF LooseEnds, WorldTypes, Flag
  <2> QED BY Zenon, <1>1, <1>15, <2>3, <2>4 DEF LooseEnds, WorldTypes
<1>14. CASE UserActs
  BY Zenon, <1>7, <1>8, <1>9, <1>10, <1>11, <1>12, <1>13, <1>14 DEF UserActs
<1> QED BY Zenon, <1>3, <1>4, <1>5, <1>6, <1>14, <1>15 DEF CommandTrouble

-----------------------------------------------------------------------------
(* What is true of each command by itself.                                 *)

\* The image and the name of the container are chosen.
Named ==
  {"docker", "image", "pull", "print", "build", "stamp", "runtime", "broker", "launch"}
    \cup Watching

\* A command works on one of the recipe's files at a time.
FileOk(r) ==
  /\ cli[r].file \in 1 .. 5
  /\ cli[r].at = "create" => cli[r].file \in 1 .. 4

\* A smoke test has a name of its own.
NameOk(r) ==
  cli[r].at \in Named =>
    IF cli[r].phase = "test" THEN cli[r].name = r ELSE cli[r].name \in 1 .. MaxNames

\* A run the preflight checked still finds the credential, unless one was touched.
CredOk(r) ==
  LET o == cli[r].opt IN
  o.cmd = "run" /\ cli[r].at \notin Ended \cup {"preflight"}
  /\ RequiresCredential(FALSE, o.detach, o.args) /\ ~cli[r].touched => ExpectReady(o)

\* The name of a command's container is its own container's until that is removed; a
\* command is done with a container that runs only if following it broke off.
LaunchOk(r) ==
  IF cli[r].at \in Watching
  THEN /\ cli[r].lost \/ agent[cli[r].name].by = r
       /\ cli[r].at = "finish" /\ ~cli[r].broken => ~Running(r)
  ELSE ~cli[r].lost

Sound(r) == FileOk(r) /\ NameOk(r) /\ CredOk(r) /\ LaunchOk(r)

\* The check of the credential reads the credentials and the flags.
LEMMA ReadySame ==
  ASSUME UNCHANGED <<host, home, pref>>, NEW q, cli'[q].opt = cli[q].opt
  PROVE  ExpectReady(cli[q].opt)' <=> ExpectReady(cli[q].opt)
BY Zenon DEF ExpectReady, EffectiveMode

\* A command that does not move stays sound.
LEMMA StillSound ==
  ASSUME NEW q \in Runs, Sound(q), cli'[q] = cli[q], UNCHANGED <<host, home, pref, agent>>
  PROVE  Sound(q)'
<1>1. FileOk(q)' /\ NameOk(q)'
  BY Zenon DEF Sound, FileOk, NameOk
<1>2. CredOk(q)'
  BY Zenon, ReadySame DEF Sound, CredOk
<1>3. LaunchOk(q)'
  BY Zenon DEF Sound, LaunchOk, Running, Container
<1> QED BY Zenon, <1>1, <1>2, <1>3 DEF Sound

\* A command that ends.
LEMMA EndSound ==
  ASSUME NEW r \in Runs, NEW a \in Ended, Went(r, a), ~cli'[r].lost, cli'[r].file = 1
  PROVE  Sound(r)'
<1>1. a \notin Named /\ a \notin Watching /\ a # "create"
  BY Zenon DEF Ended, Named, Watching
<1>2. 1 \in 1 .. 5
  OBVIOUS
<1>3. FileOk(r)'
  BY Zenon, <1>1, <1>2 DEF FileOk, Went
<1>4. NameOk(r)' /\ LaunchOk(r)'
  BY Zenon, <1>1 DEF NameOk, LaunchOk, Went
<1>5. CredOk(r)'
  BY Zenon DEF CredOk, Went
<1> QED BY Zenon, <1>3, <1>4, <1>5 DEF Sound

\* A command that goes on and keeps its record, its flags and the credential's history.
LEMMA MoveSound ==
  ASSUME NEW r \in Runs, NEW a, Went(r, a), Sound(r), KeepsAsk(r), KeepsFile(r),
         cli'[r].name = cli[r].name, cli'[r].lost = cli[r].lost,
         UNCHANGED <<host, home, pref, agent>>,
         cli[r].at \notin Ended \cup Watching \cup {"preflight"}, a \notin Watching,
         a \in Named => cli[r].at \in Named, a = "create" => cli[r].file \in 1 .. 4
  PROVE  Sound(r)'
<1>1. FileOk(r)'
  BY Zenon DEF FileOk, Went, Sound, KeepsFile
<1>2. NameOk(r)'
  BY Zenon DEF NameOk, Went, Sound, KeepsFile
<1>3. ExpectReady(cli[r].opt)' <=> ExpectReady(cli[r].opt)
  BY Zenon, ReadySame DEF KeepsAsk
<1>4. CredOk(r)'
  BY Zenon, <1>3 DEF CredOk, Sound, KeepsAsk
<1>5. LaunchOk(r)'
  BY Zenon DEF LaunchOk, Went, Sound
<1> QED BY Zenon, <1>1, <1>2, <1>4, <1>5 DEF Sound

\* A command that only steps on, or ends.
LEMMA StepSound ==
  ASSUME cli \in [Runs -> CliRecords], \A q \in Runs : Sound(q),
         UNCHANGED <<host, home, pref, agent>>,
         NEW r \in Runs, NEW a \in CliPlaces, Step(r, a),
         a \in Ended \/ /\ cli[r].at \notin Ended \cup Watching \cup {"preflight"}
                        /\ a \notin Watching
                        /\ a \in Named => cli[r].at \in Named
                        /\ a = "create" => cli[r].file \in 1 .. 4
  PROVE  cli' \in [Runs -> CliRecords] /\ \A q \in Runs : Sound(q)'
<1>1. /\ Went(r, a)
      /\ a \in Ended => ~cli'[r].lost /\ cli'[r].file = 1
      /\ a \notin Ended => Keeps(r)
  BY Zenon, StepGoes
<1>2. Sound(r)'
  <2>1. CASE a \in Ended
    BY Zenon, <1>1, <2>1, EndSound
  <2>2. CASE a \notin Ended
    BY Zenon, <1>1, <2>2, MoveSound DEF Keeps, KeepsAgent
  <2> QED BY Zenon, <2>1, <2>2
<1>3. \A q \in Runs : Sound(q)'
  BY Zenon, <1>1, <1>2, StillSound DEF Went
<1> QED BY Zenon, <1>1, <1>3 DEF Went

\* The fate of the others when r's record changes.
LEMMA WentSound ==
  ASSUME \A q \in Runs : Sound(q), UNCHANGED <<host, home, pref, agent>>,
         NEW r \in Runs, NEW a, Went(r, a), Sound(r)'
  PROVE  cli' \in [Runs -> CliRecords] /\ \A q \in Runs : Sound(q)'
<1>1. \A q \in Runs : Sound(q)'
  BY Zenon, StillSound DEF Went
<1> QED BY Zenon, <1>1 DEF Went

Sane == cli \in [Runs -> CliRecords] /\ \A r \in Runs : Sound(r)

\* The steps that do no more than go on, or stop.
LEMMA PlainSane ==
  ASSUME Sane, NEW r \in Runs,
         \/ Scaffolded(r) \/ Initialize(r) \/ DockerReady(r)
         \/ \E auto_pull \in BOOLEAN : ImageAction(r, auto_pull)
         \/ Pull(r) \/ Build(r) \/ Stamp(r) \/ RuntimeReady(r) \/ BrokerSettled(r)
         \/ NameTaken(r) \/ PullFails(r) \/ RecipeFails(r) \/ AttachBreaks(r)
         \/ KillCommand(r)
  PROVE  Sane'
<1>1. ASSUME NEW a \in CliPlaces, Step(r, a), UNCHANGED <<host, home, pref, agent>>,
             a \in Ended \/ /\ cli[r].at \notin Ended \cup Watching \cup {"preflight"}
                            /\ a \notin Watching
                            /\ a \in Named => cli[r].at \in Named
                            /\ a # "create"
      PROVE  Sane'
  BY Zenon, <1>1, StepSound DEF Sane
<1>2. ASSUME NEW a \in {"failed", "killed"}, Step(r, a), UNCHANGED <<host, home, pref, agent>>
      PROVE  Sane'
  BY Zenon, <1>1, <1>2 DEF CliPlaces, Ended
<1>3. ASSUME NEW a \in Named \ Watching, Step(r, a), cli[r].at \in Named \ Watching,
             UNCHANGED <<host, home, pref, agent>>
      PROVE  Sane'
  <2>1. /\ a \in CliPlaces /\ a # "create" /\ a \notin Watching
        /\ cli[r].at \notin Ended \cup Watching \cup {"preflight"}
    BY Zenon, <1>3 DEF CliPlaces, Ended, Named, Watching
  <2> QED BY Zenon, <1>1, <1>3, <2>1
<1>4. ASSUME NEW a \in {"begin", "stage"}, Step(r, a), cli[r].at \in {"scaffold", "begin"},
             UNCHANGED <<host, home, pref, agent>>
      PROVE  Sane'
  <2>1. /\ a \in CliPlaces /\ a # "create" /\ a \notin Watching /\ a \notin Named
        /\ cli[r].at \notin Ended \cup Watching \cup {"preflight"}
    BY Zenon, <1>4 DEF CliPlaces, Ended, Named, Watching
  <2> QED BY Zenon, <1>1, <1>4, <2>1
<1>5. {"docker", "image", "pull", "print", "build", "stamp", "runtime", "broker", "launch"}
        \subseteq Named \ Watching
  BY Zenon DEF Named, Watching
<1>6. CASE Scaffolded(r)
  BY Zenon, <1>4, <1>6 DEF Scaffolded, World
<1>7. CASE Initialize(r)
  BY Zenon, <1>2, <1>4, <1>7 DEF Initialize
<1>8. CASE DockerReady(r) \/ RuntimeReady(r)
  BY Zenon, <1>3, <1>5, <1>8 DEF DockerReady, RuntimeReady, World
<1>9. CASE \E auto_pull \in BOOLEAN : ImageAction(r, auto_pull)
  <2>1. PICK auto_pull \in BOOLEAN : ImageAction(r, auto_pull)
    BY Zenon, <1>9
  <2>2. PICK a \in {"print", "runtime", "pull", "failed"} : Step(r, a)
    BY Zenon, <2>1 DEF ImageAction
  <2>3. cli[r].at = "image" /\ UNCHANGED <<host, home, pref, agent>>
    BY Zenon, <2>1 DEF ImageAction, World
  <2> QED BY Zenon, <1>2, <1>3, <1>5, <2>2, <2>3
<1>10. CASE Pull(r) \/ Stamp(r)
  BY Zenon, <1>3, <1>5, <1>10 DEF Pull, Stamp
<1>11. CASE Build(r)
  BY Zenon, <1>2, <1>3, <1>5, <1>11 DEF Build
<1>12. CASE BrokerSettled(r)
  BY Zenon, <1>2, <1>3, <1>5, <1>12 DEF BrokerSettled, World
<1>13. CASE PullFails(r)
  BY Zenon, <1>2, <1>3, <1>5, <1>13 DEF PullFails, World
<1>14. CASE NameTaken(r) \/ RecipeFails(r) \/ AttachBreaks(r) \/ KillCommand(r)
  BY Zenon, <1>2, <1>14 DEF NameTaken, RecipeFails, AttachBreaks, KillCommand, World
<1> QED
  BY Zenon, <1>6, <1>7, <1>8, <1>9, <1>10, <1>11, <1>12, <1>13, <1>14

\* A command starts, or passes the preflight.
LEMMA StartSane ==
  ASSUME Sane, NEW r \in Runs,
         (\E o \in Options \cup HostedOptions : Start(r, o)) \/ Preflight(r)
  PROVE  Sane'
<1>1. UNCHANGED <<host, home, pref, agent>>
  BY Zenon DEF Start, Preflight, World
<1>2. cli \in [Runs -> CliRecords] /\ \A q \in Runs : Sound(q)
  BY Zenon DEF Sane
<1>3. 1 \in 1 .. 5
  OBVIOUS
<1>4. CASE \E o \in Options \cup HostedOptions : Start(r, o)
  <2>1. PICK o \in Options \cup HostedOptions : Start(r, o)
    BY Zenon, <1>4
  <2>2. PICK a \in {"scaffold", "begin", "preflight"} :
           /\ Went(r, a) /\ cli'[r].opt = o /\ (o.cmd = "run" => a = "preflight")
           /\ ~cli'[r].lost /\ cli'[r].file = 1
    BY Zenon, <1>2, <2>1, StartGoes
  <2>3. a \notin Watching /\ a \notin Named /\ a # "create" /\ cli'[r].at = a
    BY Zenon, <2>2 DEF Watching, Named, Went
  <2>4. FileOk(r)' /\ NameOk(r)' /\ LaunchOk(r)'
    BY Zenon, <1>3, <2>2, <2>3 DEF FileOk, NameOk, LaunchOk
  <2>5. CredOk(r)'
    BY Zenon, <2>2, <2>3 DEF CredOk
  <2>6. Sound(r)'
    BY Zenon, <2>4, <2>5 DEF Sound
  <2> QED BY Zenon, <1>1, <1>2, <2>2, <2>6, WentSound DEF Sane
<1>5. CASE Preflight(r)
  <2>1. CASE Went(r, "refused") /\ ~cli'[r].lost /\ ~cli'[r].touched /\ cli'[r].file = 1
    <3>1. Sound(r)'
      BY Zenon, <2>1, EndSound DEF Ended
    <3> QED BY Zenon, <1>1, <1>2, <2>1, <3>1, WentSound DEF Sane
  <2>2. ASSUME NEW a \in {"scaffold", "begin"},
               /\ Went(r, a) /\ ~cli'[r].touched
               /\ KeepsImage(r) /\ KeepsAgent(r)
               /\ cli'[r].opt = cli[r].opt /\ cli'[r].file = cli[r].file
               /\ \/ ~RequiresCredential(FALSE, cli[r].opt.detach, cli[r].opt.args)
                  \/ ExpectReady(cli[r].opt)
        PROVE  Sane'
    <3>1. /\ a \notin Watching /\ a \notin Named /\ a # "create" /\ cli'[r].at = a
          /\ cli[r].at \notin Watching
      BY Zenon, <1>5, <2>2 DEF Watching, Named, Went, Preflight
    <3>2. FileOk(r)' /\ NameOk(r)' /\ LaunchOk(r)'
      BY Zenon, <1>2, <2>2, <3>1 DEF FileOk, NameOk, LaunchOk, Sound, KeepsAgent
    <3>3. ExpectReady(cli[r].opt)' <=> ExpectReady(cli[r].opt)
      BY Zenon, <1>1, <2>2, ReadySame
    <3>4. CredOk(r)'
      BY Zenon, <2>2, <3>3 DEF CredOk
    <3>5. Sound(r)'
      BY Zenon, <3>2, <3>4 DEF Sound
    <3> QED BY Zenon, <1>1, <1>2, <2>2, <3>5, WentSound DEF Sane
  <2> QED BY Zenon, <1>2, <1>5, <2>1, <2>2, PreflightGoes
<1> QED BY Zenon, <1>4, <1>5

\* The recipe's files are written one by one.
LEMMA FilesSane ==
  ASSUME Sane, NEW r \in Runs, Overwrite(r) \/ LookFor(r) \/ Create(r)
  PROVE  Sane'
<1>1. UNCHANGED <<host, home, pref, agent>>
  BY Zenon DEF Overwrite, LookFor, Create, World
<1>2. cli \in [Runs -> CliRecords] /\ \A q \in Runs : Sound(q)
  BY Zenon DEF Sane
<1>3. cli[r].at \in {"scaffold", "create"} /\ (Step(r, "create") \/ NextFile(r))
  BY Zenon DEF Overwrite, LookFor, Create, Scaffolding
<1>4. cli[r].file \in 1 .. 4
  <2>1. cli[r].at = "create" => cli[r].file \in 1 .. 4
    BY Zenon, <1>2 DEF Sound, FileOk
  <2>2. cli[r].file \in 1 .. 5
    BY Zenon, <1>2 DEF Sound, FileOk
  <2>3. cli[r].at = "scaffold" => cli[r].file <= 4
    BY Zenon, TheFiles DEF Overwrite, LookFor, Create, Scaffolding
  <2> QED BY <1>3, <2>1, <2>2, <2>3
<1>5. cli[r].at \notin Ended \cup Watching \cup {"preflight"}
  BY Zenon, <1>3 DEF Ended, Watching
<1>6. CASE Step(r, "create")
  <2>1. "create" \in CliPlaces /\ "create" \notin Watching /\ "create" \notin Named
    BY Zenon DEF CliPlaces, Watching, Named
  <2> QED BY Zenon, <1>1, <1>2, <1>4, <1>5, <1>6, <2>1, StepSound DEF Sane
<1>7. CASE NextFile(r)
  <2>1. /\ Went(r, "scaffold") /\ KeepsAsk(r) /\ KeepsAgent(r)
        /\ cli'[r].file = cli[r].file + 1
    BY Zenon, <1>2, <1>7, NextFileGoes
  <2>2. cli'[r].file \in 1 .. 5
    BY <1>4, <2>1
  <2>3. /\ "scaffold" \notin Watching /\ "scaffold" \notin Named
        /\ cli'[r].at = "scaffold"
    BY Zenon, <2>1 DEF Watching, Named, Went
  <2>4. FileOk(r)' /\ NameOk(r)'
    BY Zenon, <2>2, <2>3 DEF FileOk, NameOk
  <2>5. LaunchOk(r)'
    BY Zenon, <1>2, <1>5, <2>1, <2>3 DEF LaunchOk, Sound, KeepsAgent
  <2>6. ExpectReady(cli[r].opt)' <=> ExpectReady(cli[r].opt)
    BY Zenon, <1>1, <2>1, ReadySame DEF KeepsAsk
  <2>7. CredOk(r)'
    BY Zenon, <1>2, <1>5, <2>1, <2>6 DEF CredOk, Sound, KeepsAsk
  <2>8. Sound(r)'
    BY Zenon, <2>4, <2>5, <2>7 DEF Sound
  <2> QED BY Zenon, <1>1, <1>2, <2>1, <2>8, WentSound DEF Sane
<1> QED BY Zenon, <1>3, <1>6, <1>7

\* A credential file in the project's home is good in every mode but mount, which does
\* not look there.
LEMMA ReadyGrows ==
  ASSUME WorldTypes, UNCHANGED <<host, pref>>, home' = home \/ home' = "file",
         NEW q, cli'[q].opt = cli[q].opt, cli[q].opt \in Options \cup HostedOptions,
         ExpectReady(cli[q].opt)
  PROVE  ExpectReady(cli[q].opt)'
<1> DEFINE o == cli[q].opt
           m == EffectiveMode(o)
<1>1. m \in Modes
  BY Zenon, AuthTypes
<1>2. EffectiveMode(cli[q].opt)' = m
  BY Zenon DEF EffectiveMode
<1>3. ExpectReady(cli[q].opt)' <=>
        \/ o.env
        \/ CASE m = "copy" -> home' = "file" \/ host
             [] m = "mount" -> host
             [] m = "env-only" -> home' = "file"
  BY Zenon, <1>2 DEF ExpectReady
<1>4. \/ o.env
      \/ CASE m = "copy" -> home = "file" \/ host
           [] m = "mount" -> host
           [] m = "env-only" -> home = "file"
  BY Zenon DEF ExpectReady
<1> HIDE DEF m, o
<1>5. CASE m = "copy"
  BY <1>3, <1>4, <1>5
<1>6. CASE m = "mount"
  BY <1>3, <1>4, <1>6
<1>7. CASE m = "env-only"
  BY <1>3, <1>4, <1>7
<1> QED BY Zenon, <1>1, <1>5, <1>6, <1>7 DEF Modes

\* What the preflight expects, staging finds: a home that holds no file has none.
LEMMA ReadyStaged ==
  ASSUME WorldTypes, home # "other", NEW o \in Options \cup HostedOptions, ExpectReady(o)
  PROVE  StagedReady(o)
<1> DEFINE m == EffectiveMode(o)
<1>1. m \in Modes
  BY Zenon, AuthTypes
<1>2. \/ o.env
      \/ CASE m = "copy" -> home = "file" \/ host
           [] m = "mount" -> host
           [] m = "env-only" -> home = "file"
  BY Zenon DEF ExpectReady
<1>3. StagedReady(o) <=>
        o.env \/ IF m = "mount" THEN host ELSE Copied(o) = "file"
  BY Zenon DEF StagedReady
<1>4. Copied(o) = IF m = "copy" /\ host /\ (home = "none" \/ o.recopy) THEN "file" ELSE home
  BY Zenon DEF Copied
<1>5. home \in {"none", "file"}
  BY Zenon DEF WorldTypes
<1> HIDE DEF m
<1>6. CASE m = "copy"
  BY <1>2, <1>3, <1>4, <1>5, <1>6
<1>7. CASE m = "mount"
  BY <1>2, <1>3, <1>7
<1>8. CASE m = "env-only"
  BY <1>2, <1>3, <1>4, <1>8
<1> QED BY Zenon, <1>1, <1>6, <1>7, <1>8 DEF Modes

\* Staging copies a credential for every command of the project.
LEMMA StageSane ==
  ASSUME Sane, WorldTypes, NEW r \in Runs,
         \E command, detach \in BOOLEAN : Stage(r, command, detach)
  PROVE  Sane'
<1>1. PICK command \in BOOLEAN, detach \in BOOLEAN : Stage(r, command, detach)
  BY Zenon
<1>2. cli \in [Runs -> CliRecords] /\ \A q \in Runs : Sound(q)
  BY Zenon DEF Sane
<1>3. PICK a \in {"barred", "docker"} :
           /\ Went(r, a) /\ KeepsAsk(r) /\ KeepsFile(r)
           /\ cli'[r].name = FirstName(r) /\ cli'[r].lost = cli[r].lost
  BY Zenon, <1>1, <1>2, StageGoes
<1>4. UNCHANGED <<host, pref, agent>> /\ (home' = home \/ home' = "file")
  BY Zenon, <1>1 DEF Stage, Copied
<1>5. \A q \in Runs : cli'[q].opt = cli[q].opt /\ cli'[q].touched = cli[q].touched
  BY Zenon, <1>3 DEF Went, KeepsAsk
<1>6. /\ cli[r].at \notin Ended \cup Watching \cup {"preflight"} /\ a \notin Watching
      /\ a # "create" /\ cli'[r].at = a
  BY Zenon, <1>1, <1>3 DEF Stage, Ended, Watching, Went
<1>7. ASSUME NEW q \in Runs
      PROVE  CredOk(q)'
  <2>1. cli[q].opt \in Options \cup HostedOptions
    BY Zenon, <1>2 DEF CliRecords
  <2>2. ExpectReady(cli[q].opt) => ExpectReady(cli[q].opt)'
    BY Zenon, <1>4, <1>5, <2>1, ReadyGrows
  <2>3. cli'[q].at \notin Ended \cup {"preflight"} => cli[q].at \notin Ended \cup {"preflight"}
    BY Zenon, <1>3, <1>6 DEF Went
  <2> QED BY Zenon, <1>2, <1>5, <2>2, <2>3 DEF CredOk, Sound
<1>8. FileOk(r)' /\ LaunchOk(r)'
  BY Zenon, <1>2, <1>3, <1>6 DEF FileOk, LaunchOk, Sound, KeepsFile
<1>9. NameOk(r)'
  <2>1. 1 \in 1 .. MaxNames
    BY RecipeAssumption
  <2> QED BY Zenon, <1>3, <2>1 DEF NameOk, FirstName, KeepsFile
<1>10. ASSUME NEW q \in Runs, q # r
       PROVE  FileOk(q)' /\ NameOk(q)' /\ LaunchOk(q)'
  BY Zenon, <1>2, <1>3, <1>4, <1>10
     DEF FileOk, NameOk, LaunchOk, Sound, Went, Running, Container
<1>11. \A q \in Runs : Sound(q)'
  BY Zenon, <1>7, <1>8, <1>9, <1>10 DEF Sound
<1> QED BY Zenon, <1>3, <1>11 DEF Sane, Went

\* The fingerprint is taken, or a name counted up.
LEMMA PrintSane ==
  ASSUME Sane, WorldTypes, NEW r \in Runs, Fingerprint(r) \/ NextName(r)
  PROVE  Sane'
<1>1. UNCHANGED <<host, home, pref, agent>>
  BY Zenon DEF Fingerprint, NextName, World
<1>2. cli \in [Runs -> CliRecords] /\ \A q \in Runs : Sound(q)
  BY Zenon DEF Sane
<1>3. CASE Fingerprint(r)
  <2>1. ctx \in Versions
    BY Zenon DEF WorldTypes, Versions
  <2>2. PICK a \in {"failed", "runtime", "build"} :
           Went(r, a) /\ KeepsAsk(r) /\ KeepsFile(r) /\ KeepsAgent(r)
    BY Zenon, <1>2, <1>3, <2>1, FingerprintGoes
  <2>3. /\ cli[r].at \notin Ended \cup Watching \cup {"preflight"} /\ cli[r].at \in Named
        /\ a \notin Watching /\ a # "create"
    BY Zenon, <1>3, <2>2 DEF Fingerprint, Ended, Watching, Named
  <2>4. Sound(r)'
    BY Zenon, <1>1, <1>2, <2>2, <2>3, MoveSound DEF KeepsAgent
  <2> QED BY Zenon, <1>1, <1>2, <2>2, <2>4, WentSound DEF Sane
<1>4. CASE NextName(r)
  <2>1. cli[r].at = "launch" /\ cli[r].phase = "run"
    BY Zenon, <1>4 DEF NextName, Automatic
  <2>2. cli[r].name \in 1 .. MaxNames
    BY Zenon, <1>2, <2>1 DEF Sound, NameOk, Named
  <2>3. /\ Went(r, "launch") /\ KeepsAsk(r) /\ KeepsFile(r)
        /\ cli'[r].name \in 1 .. MaxNames /\ cli'[r].lost = cli[r].lost
    BY Zenon, <1>2, <1>4, <2>2, NextNameGoes
  <2>4. "launch" \notin Ended \cup Watching \cup {"preflight"} /\ cli'[r].at = "launch"
    BY Zenon, <2>3 DEF Ended, Watching, Went
  <2>5. FileOk(r)' /\ LaunchOk(r)'
    BY Zenon, <1>2, <2>1, <2>3, <2>4 DEF FileOk, LaunchOk, Sound, KeepsFile
  <2>6. NameOk(r)'
    BY Zenon, <2>1, <2>3 DEF NameOk, KeepsFile
  <2>7. ExpectReady(cli[r].opt)' <=> ExpectReady(cli[r].opt)
    BY Zenon, <1>1, <2>3, ReadySame DEF KeepsAsk
  <2>8. CredOk(r)'
    BY Zenon, <1>2, <2>1, <2>3, <2>4, <2>7 DEF CredOk, Sound, KeepsAsk
  <2>9. Sound(r)'
    BY Zenon, <2>5, <2>6, <2>8 DEF Sound
  <2> QED BY Zenon, <1>1, <1>2, <2>3, <2>9, WentSound DEF Sane
<1> QED BY Zenon, <1>3, <1>4

\* A container is created under a name nobody has.
LEMMA LaunchSane ==
  ASSUME Sane, WorldTypes, NEW r \in Runs, Launch(r) \/ LaunchLost(r)
  PROVE  Sane'
<1> DEFINE n == cli[r].name
           c == [state |-> "running", by |-> r]
<1>1. cli \in [Runs -> CliRecords] /\ \A q \in Runs : Sound(q)
  BY Zenon DEF Sane
<1>2. /\ cli[r].at = "launch" /\ agent[n] = NoAgent /\ agent' = [agent EXCEPT ![n] = c]
      /\ UNCHANGED <<host, home, pref>>
  BY Zenon DEF Launch, LaunchLost, Container
<1>3. PICK a \in {"done", "failed", "follow", "attach"} : Step(r, a)
  BY Zenon DEF Launch, LaunchLost, AfterLaunch
<1>4. /\ Went(r, a)
      /\ a \in Ended => ~cli'[r].lost /\ cli'[r].file = 1
      /\ a \notin Ended => Keeps(r)
  BY Zenon, <1>1, <1>3, StepGoes DEF CliPlaces
<1>5. \A q \in Runs : cli[q].name \in Names
  BY Zenon, <1>1 DEF CliRecords
<1>6. agent[n].by \notin Runs
  BY <1>2, RecipeAssumption DEF NoAgent
<1>7. agent'[n] = c /\ \A m \in Names : m # n => agent'[m] = agent[m]
  BY Zenon, <1>2, <1>5 DEF WorldTypes
<1>8. c.by = r
  BY Zenon
<1> HIDE DEF c
<1>9. Sound(r)'
  <2>1. CASE a \in Ended
    BY Zenon, <1>4, <2>1, EndSound
  <2>2. CASE a \notin Ended
    <3>1. /\ Keeps(r) /\ a \in Watching /\ a # "create" /\ a # "finish" /\ cli'[r].at = a
          /\ cli[r].at \notin Ended \cup {"preflight"} /\ cli[r].at \in Named
      BY Zenon, <1>2, <1>3, <1>4, <2>2 DEF Ended, Watching, Named, Went
    <3>2. FileOk(r)' /\ NameOk(r)'
      BY Zenon, <1>1, <3>1 DEF FileOk, NameOk, Sound, Keeps, KeepsFile, KeepsAgent
    <3>3. ExpectReady(cli[r].opt)' <=> ExpectReady(cli[r].opt)
      BY Zenon, <1>2, <3>1, ReadySame DEF Keeps, KeepsAsk
    <3>4. CredOk(r)'
      BY Zenon, <1>1, <3>1, <3>3 DEF CredOk, Sound, Keeps, KeepsAsk
    <3>5. LaunchOk(r)'
      BY Zenon, <1>7, <1>8, <3>1 DEF LaunchOk, Keeps, KeepsAgent
    <3> QED BY Zenon, <3>2, <3>4, <3>5 DEF Sound
  <2> QED BY Zenon, <2>1, <2>2
<1>10. ASSUME NEW q \in Runs, q # r
       PROVE  Sound(q)'
  <2>1. cli'[q] = cli[q]
    BY Zenon, <1>4, <1>10 DEF Went
  <2>2. FileOk(q)' /\ NameOk(q)'
    BY Zenon, <1>1, <2>1 DEF Sound, FileOk, NameOk
  <2>3. CredOk(q)'
    BY Zenon, <1>1, <1>2, <2>1, ReadySame DEF Sound, CredOk
  <2>4. LaunchOk(q)'
    <3>1. CASE cli[q].name # n
      BY Zenon, <1>1, <1>5, <1>7, <2>1, <3>1 DEF LaunchOk, Sound, Running, Container
    <3>2. CASE cli[q].name = n
      <4>1. c # [state |-> "running", by |-> q]
        BY <1>8, <1>10
      <4>2. ~Running(q)'
        BY Zenon, <1>7, <2>1, <3>2, <4>1 DEF Running, Container
      <4> QED BY Zenon, <1>1, <1>6, <2>1, <3>2, <4>2 DEF LaunchOk, Sound
    <3> QED BY Zenon, <3>1, <3>2
  <2> QED BY Zenon, <2>2, <2>3, <2>4 DEF Sound
<1>11. \A q \in Runs : Sound(q)'
  BY Zenon, <1>9, <1>10
<1> QED BY Zenon, <1>4, <1>11 DEF Sane, Went

\* A command is done with its container, which has stopped unless following it broke.
LEMMA FollowSane ==
  ASSUME Sane, NEW r \in Runs,
         \/ \E good \in BOOLEAN : FollowEnds(r, good) \/ AttachEnds(r, good)
         \/ FollowBreaks(r)
  PROVE  Sane'
<1>1. UNCHANGED <<host, home, pref, agent>>
  BY Zenon DEF FollowEnds, AttachEnds, FollowBreaks, World
<1>2. cli \in [Runs -> CliRecords] /\ \A q \in Runs : Sound(q)
  BY Zenon DEF Sane
<1>3. cli[r].at \in {"follow", "attach"}
  BY Zenon DEF FollowEnds, AttachEnds, FollowBreaks
<1>4. ASSUME NEW g \in Flag, cli' = [cli EXCEPT ![r].at = "finish", ![r].broken = g],
             g \/ ~Running(r)
      PROVE  Sane'
  <2>1. /\ Went(r, "finish") /\ KeepsAsk(r) /\ KeepsFile(r)
        /\ cli'[r].name = cli[r].name /\ cli'[r].lost = cli[r].lost /\ cli'[r].broken = g
    BY Zenon, <1>2, <1>4, FollowGoes
  <2>2. /\ "finish" \in Watching /\ "finish" \in Named /\ cli'[r].at = "finish"
        /\ cli[r].at \in Watching /\ cli[r].at \in Named
        /\ cli[r].at \notin Ended \cup {"preflight"}
    BY Zenon, <1>3, <2>1 DEF Watching, Named, Ended, Went
  <2>3. FileOk(r)' /\ NameOk(r)'
    BY Zenon, <1>2, <2>1, <2>2 DEF FileOk, NameOk, Sound, KeepsFile
  <2>4. ExpectReady(cli[r].opt)' <=> ExpectReady(cli[r].opt)
    BY Zenon, <1>1, <2>1, ReadySame DEF KeepsAsk
  <2>5. CredOk(r)'
    BY Zenon, <1>2, <2>1, <2>2, <2>4 DEF CredOk, Sound, KeepsAsk
  <2>6. LaunchOk(r)'
    BY Zenon, <1>1, <1>2, <1>4, <2>1, <2>2 DEF LaunchOk, Sound, Running, Container
  <2>7. Sound(r)'
    BY Zenon, <2>3, <2>5, <2>6 DEF Sound
  <2> QED BY Zenon, <1>1, <1>2, <2>1, <2>7, WentSound DEF Sane
<1>5. ASSUME NEW good \in BOOLEAN, FollowEnds(r, good)
      PROVE  Sane'
  <2>1. PICK g \in Flag : g = (~good)
    BY Zenon DEF Flag
  <2>2. cli' = [cli EXCEPT ![r].at = "finish", ![r].broken = g] /\ ~Running(r)
    BY Zenon, <1>5, <2>1 DEF FollowEnds
  <2> QED BY Zenon, <1>4, <2>2
<1>6. CASE FollowBreaks(r)
  <2>1. TRUE \in Flag
    BY Zenon DEF Flag
  <2> QED BY Zenon, <1>4, <1>6, <2>1 DEF FollowBreaks
<1>7. ASSUME NEW good \in BOOLEAN, AttachEnds(r, good)
      PROVE  Sane'
  <2>1. CASE Container(r).state = "exited"
    <3>1. PICK g \in Flag : g = (~good)
      BY Zenon DEF Flag
    <3>2. cli' = [cli EXCEPT ![r].at = "finish", ![r].broken = g]
      BY Zenon, <1>7, <2>1, <3>1 DEF AttachEnds
    <3>3. ~Running(r)
      BY <2>1 DEF Running
    <3> QED BY Zenon, <1>4, <3>2, <3>3
  <2>2. CASE Container(r).state # "exited"
    <3>1. PICK a \in {"done", "failed"} : Step(r, a)
      BY Zenon, <1>7, <2>2 DEF AttachEnds
    <3> QED BY Zenon, <1>1, <1>2, <3>1, StepSound DEF Sane, CliPlaces, Ended
  <2> QED BY Zenon, <2>1, <2>2
<1> QED BY Zenon, <1>5, <1>6, <1>7

\* The container of a name is removed.
LEMMA BereftSound ==
  ASSUME WorldTypes, cli \in [Runs -> CliRecords], NEW q \in Runs, NEW n \in Names,
         Sound(q), Bereft(q, n), agent' = [agent EXCEPT ![n] = NoAgent],
         UNCHANGED <<host, home, pref>>
  PROVE  Sound(q)'
<1>1. /\ KeepsAsk(q) /\ KeepsFile(q) /\ cli'[q].at = cli[q].at
      /\ cli'[q].name = cli[q].name /\ cli'[q].broken = cli[q].broken
  BY Zenon DEF Bereft, Keeps, KeepsAgent
<1>2. FileOk(q)' /\ NameOk(q)'
  BY Zenon, <1>1 DEF Sound, FileOk, NameOk, KeepsFile
<1>3. ExpectReady(cli[q].opt)' <=> ExpectReady(cli[q].opt)
  BY Zenon, <1>1, ReadySame DEF KeepsAsk
<1>4. CredOk(q)'
  BY Zenon, <1>1, <1>3 DEF CredOk, Sound, KeepsAsk
<1>5. agent'[n] = NoAgent /\ \A m \in Names : m # n => agent'[m] = agent[m]
  BY Zenon DEF WorldTypes
<1>6. cli[q].name \in Names
  BY Zenon DEF CliRecords
<1>7. ~Running(q) => ~Running(q)'
  <2>1. NoAgent.by # q
    BY Zenon, RecipeAssumption DEF NoAgent
  <2>2. NoAgent # [state |-> "running", by |-> q]
    BY <2>1
  <2> QED BY Zenon, <1>1, <1>5, <1>6, <2>2 DEF Running, Container
<1>8. CASE cli[q].at \notin Watching
  <2>1. cli'[q].lost = cli[q].lost
    BY Zenon, <1>8 DEF Bereft, Keeps, KeepsAgent
  <2>2. LaunchOk(q)'
    BY Zenon, <1>1, <1>8, <2>1 DEF LaunchOk, Sound
  <2> QED BY Zenon, <1>2, <1>4, <2>2 DEF Sound
<1>9. CASE cli[q].at \in Watching
  <2>1. cli[q].lost \/ agent[cli[q].name].by = q
    BY Zenon, <1>9 DEF Sound, LaunchOk
  <2>2. ASSUME ~cli'[q].lost
        PROVE  agent'[cli'[q].name].by = q
    <3>1. cli'[q].lost = cli[q].lost
      BY Zenon, <2>2 DEF Bereft, Keeps, KeepsAgent
    <3>2. cli[q].name # n
      BY Zenon, <1>9, <2>1, <2>2, <3>1 DEF Bereft
    <3> QED BY Zenon, <1>1, <1>5, <1>6, <2>1, <2>2, <3>1, <3>2
  <2>3. cli[q].at = "finish" /\ ~cli[q].broken => ~Running(q)'
    BY Zenon, <1>7, <1>9 DEF Sound, LaunchOk
  <2>4. LaunchOk(q)'
    BY Zenon, <1>1, <1>9, <2>2, <2>3 DEF LaunchOk
  <2> QED BY Zenon, <1>2, <1>4, <2>4 DEF Sound
<1> QED BY Zenon, <1>8, <1>9

\* The end of a command, and `outcall remove`.
LEMMA RemoveSane ==
  ASSUME Sane, WorldTypes, (\E r \in Runs : Finish(r)) \/ \E n \in Names : CmdRemove(n)
  PROVE  Sane'
<1>1. cli \in [Runs -> CliRecords] /\ \A q \in Runs : Sound(q)
  BY Zenon DEF Sane
<1>2. UNCHANGED <<host, home, pref>>
  BY Zenon DEF Finish, CmdRemove
<1>3. ASSUME NEW n \in Names, CmdRemove(n)
      PROVE  Sane'
  BY Zenon, <1>1, <1>2, <1>3, RemoveGoes, BereftSound DEF Sane
<1>4. ASSUME NEW r \in Runs, Finish(r)
      PROVE  Sane'
  <2>1. PICK a \in {"begin", "done", "failed"} :
           /\ cli' \in [Runs -> CliRecords] /\ cli'[r].at = a /\ ~cli'[r].lost
           /\ IF a = "begin" THEN KeepsAsk(r) /\ cli'[r].file = cli[r].file
              ELSE ~cli'[r].touched /\ cli'[r].file = 1
           /\ \/ /\ agent' = agent /\ \A q \in Runs : q # r => cli'[q] = cli[q]
              \/ /\ agent' = [agent EXCEPT ![cli[r].name] = NoAgent]
                 /\ \A q \in Runs : q # r => Bereft(q, cli[r].name)
    BY Zenon, <1>1, <1>4, FinishGoes
  <2>2. /\ a \notin Watching /\ a \notin Named /\ a # "create"
        /\ a # "begin" => a \in Ended
        /\ cli[r].at \notin Ended \cup {"preflight"}
    BY Zenon, <1>4, <2>1 DEF Watching, Named, Ended, Finish
  <2>3. NameOk(r)' /\ LaunchOk(r)'
    BY Zenon, <2>1, <2>2 DEF NameOk, LaunchOk
  <2>4. FileOk(r)'
    <3>1. 1 \in 1 .. 5 /\ cli[r].file \in 1 .. 5
      BY <1>1 DEF Sound, FileOk
    <3> QED BY Zenon, <2>1, <2>2, <3>1 DEF FileOk
  <2>5. CredOk(r)'
    <3>1. CASE a = "begin"
      <4>1. ExpectReady(cli[r].opt)' <=> ExpectReady(cli[r].opt)
        BY Zenon, <1>2, <2>1, <3>1, ReadySame DEF KeepsAsk
      <4> QED BY Zenon, <1>1, <2>1, <2>2, <3>1, <4>1 DEF CredOk, Sound, KeepsAsk
    <3>2. CASE a # "begin"
      BY Zenon, <2>1, <2>2, <3>2 DEF CredOk
    <3> QED BY Zenon, <3>1, <3>2
  <2>6. Sound(r)'
    BY Zenon, <2>3, <2>4, <2>5 DEF Sound
  <2>7. cli[r].name \in Names
    BY Zenon, <1>1 DEF CliRecords
  <2>8. ASSUME NEW q \in Runs, q # r
        PROVE  Sound(q)'
    BY Zenon, <1>1, <1>2, <2>1, <2>7, <2>8, StillSound, BereftSound
  <2>9. \A q \in Runs : Sound(q)'
    BY Zenon, <2>6, <2>8
  <2> QED BY Zenon, <2>1, <2>9 DEF Sane
<1> QED BY Zenon, <1>3, <1>4

\* The agents and the user.
LEMMA UserSane ==
  ASSUME Sane, WorldTypes,
         (\E n \in Names : AgentExits(n)) \/ UserActs \/ \E x \in loose : LooseEnds(x)
  PROVE  Sane'
<1>1. cli \in [Runs -> CliRecords] /\ \A q \in Runs : Sound(q)
  BY Zenon DEF Sane
<1>2. ASSUME NEW n \in Names, AgentExits(n)
      PROVE  Sane'
  <2>1. UNCHANGED <<cli, host, home, pref>>
    BY Zenon, <1>2 DEF AgentExits
  <2> DEFINE x == agent[n]
             y == [x EXCEPT !.state = "exited"]
  <2>2. agent' = [agent EXCEPT ![n] = y]
    BY Zenon, <1>2 DEF AgentExits
  <2>3. x \in [state : {"none", "running", "exited"}, by : Runs \cup {NoRun}]
    BY Zenon DEF WorldTypes
  <2> HIDE DEF x
  <2>4. y.state = "exited" /\ y.by = x.by
    BY <2>3
  <2> HIDE DEF y
  <2>5. agent'[n] = y /\ \A m \in Names : m # n => agent'[m] = agent[m]
    BY Zenon, <2>2 DEF WorldTypes
  <2>6. ASSUME NEW q \in Runs
        PROVE  Sound(q)'
    <3>1. cli'[q] = cli[q] /\ cli[q].name \in Names
      BY Zenon, <1>1, <2>1 DEF CliRecords
    <3>2. FileOk(q)' /\ NameOk(q)'
      BY Zenon, <1>1, <3>1 DEF Sound, FileOk, NameOk
    <3>3. CredOk(q)'
      BY Zenon, <1>1, <2>1, <3>1, ReadySame DEF Sound, CredOk
    <3>4. agent'[cli[q].name].by = agent[cli[q].name].by
      BY Zenon, <2>4, <2>5, <3>1 DEF x
    <3>5. y # [state |-> "running", by |-> q]
      BY <2>4
    <3>6. ~Running(q) => ~Running(q)'
      BY Zenon, <2>5, <3>1, <3>5 DEF Running, Container
    <3>7. LaunchOk(q)'
      BY Zenon, <1>1, <3>1, <3>4, <3>6 DEF Sound, LaunchOk
    <3> QED BY Zenon, <3>2, <3>3, <3>7 DEF Sound
  <2> QED BY Zenon, <1>1, <2>1, <2>6 DEF Sane
<1>3. ASSUME Touched, UNCHANGED agent
      PROVE  Sane'
  <2>1. /\ cli' \in [Runs -> CliRecords]
        /\ \A q \in Runs :
              /\ cli'[q].at = cli[q].at /\ cli'[q].opt = cli[q].opt
              /\ KeepsFile(q) /\ KeepsAgent(q)
              /\ cli[q].at \notin Ended => cli'[q].touched
    BY Zenon, <1>1, <1>3, TouchedGoes
  <2>2. ASSUME NEW q \in Runs
        PROVE  Sound(q)'
    <3>1. FileOk(q)' /\ NameOk(q)'
      BY Zenon, <1>1, <2>1 DEF Sound, FileOk, NameOk, KeepsFile, KeepsAgent
    <3>2. CredOk(q)'
      BY Zenon, <2>1 DEF CredOk
    <3>3. LaunchOk(q)'
      BY Zenon, <1>1, <1>3, <2>1 DEF Sound, LaunchOk, Running, Container, KeepsAgent
    <3> QED BY Zenon, <3>1, <3>2, <3>3 DEF Sound
  <2> QED BY Zenon, <2>1, <2>2 DEF Sane
<1>4. ASSUME UNCHANGED <<cli, host, home, pref, agent>>
      PROVE  Sane'
  BY Zenon, <1>1, <1>4, StillSound DEF Sane
<1>5. CASE UserActs
  <2>1. CASE SignInOrOut
    BY Zenon, <1>3, <2>1 DEF SignInOrOut
  <2>2. ASSUME NEW o \in Options, CmdAuth(o)
        PROVE  Sane'
    BY Zenon, <1>3, <2>2 DEF CmdAuth
  <2>3. ASSUME NEW n, NEW what, AgentLogsIn(n, what)
        PROVE  Sane'
    BY Zenon, <1>3, <2>3 DEF AgentLogsIn
  <2>4. ASSUME NEW v, \/ EditRecipe(v) \/ EditFile(v) \/ DeleteFile(v)
                      \/ DeleteImage(v) \/ OtherBuilds(v)
        PROVE  Sane'
    BY Zenon, <1>4, <2>4 DEF EditRecipe, EditFile, DeleteFile, DeleteImage, OtherBuilds
  <2> QED BY Zenon, <1>5, <2>1, <2>2, <2>3, <2>4, RemoveSane DEF UserActs
<1>6. CASE \E x \in loose : LooseEnds(x)
  BY Zenon, <1>4, <1>6 DEF LooseEnds
<1> QED BY Zenon, <1>2, <1>5, <1>6

RecipeInv == WorldTypes /\ Sane

\* A step of the whole system, in so far as the project's commands see it.
RecipeStep ==
  \/ \E r \in Runs : CommandStep(r) \/ CommandTrouble(r) \/ KillCommand(r)
  \/ \E n \in Names : AgentExits(n)
  \/ \E x \in loose : LooseEnds(x)
  \/ UserActs
  \/ UNCHANGED recipeVars

LEMMA NextSteps ==
  ASSUME [Next]_vars
  PROVE  RecipeStep
<1>1. CASE Commands
  BY Zenon, <1>1 DEF Commands, RecipeStep
<1>2. CASE Host
  BY Zenon, <1>2 DEF Host, RecipeStep
<1>3. CASE UNCHANGED vars
  BY Zenon, <1>3 DEF vars, RecipeStep
<1>4. CASE \E r \in Runs : AskForBroker(r)
  BY Zenon, <1>4 DEF AskForBroker, RecipeStep
<1> QED BY Zenon, <1>1, <1>2, <1>3, <1>4 DEF Next, RecipeStep

\* RecipeInv is inductive.
LEMMA RecipeInductive ==
  ASSUME RecipeInv, RecipeStep
  PROVE  RecipeInv'
<1>1. WorldTypes /\ Sane /\ RecipeTypes
  BY Zenon DEF RecipeInv, RecipeTypes, Sane
<1>2. CASE UNCHANGED recipeVars
  <2>1. WorldTypes'
    BY Zenon, <1>1, <1>2 DEF WorldTypes, recipeVars
  <2>2. Sane'
    BY Zenon, <1>1, <1>2, StillSound DEF Sane, recipeVars
  <2> QED BY Zenon, <2>1, <2>2 DEF RecipeInv
<1>3. CASE (\E n \in Names : AgentExits(n)) \/ UserActs \/ \E x \in loose : LooseEnds(x)
  BY Zenon, <1>1, <1>3, UserSane, UpsetWorld DEF RecipeInv
<1>4. ASSUME NEW r \in Runs, CommandTrouble(r) \/ KillCommand(r)
      PROVE  RecipeInv'
  <2>1. Sane'
    BY Zenon, <1>1, <1>4, PlainSane, LaunchSane, FollowSane DEF CommandTrouble
  <2> QED BY Zenon, <1>1, <1>4, <2>1, UpsetWorld DEF RecipeInv
<1>5. ASSUME NEW r \in Runs, CommandStep(r)
      PROVE  RecipeInv'
  <2>1. CASE \E o \in IF Plain THEN Options ELSE HostedOptions : Start(r, o)
    <3>1. \E o \in Options \cup HostedOptions : Start(r, o)
      BY Zenon, <2>1
    <3> QED BY Zenon, <1>1, <1>5, <3>1, StartSane, CommandWorld DEF RecipeInv
  <2>2. CASE Preflight(r) \/ Overwrite(r) \/ LookFor(r) \/ Create(r)
    BY Zenon, <1>1, <1>5, <2>2, StartSane, FilesSane, CommandWorld DEF RecipeInv
  <2>3. CASE \/ Scaffolded(r) \/ Initialize(r) \/ DockerReady(r)
             \/ \E auto_pull \in BOOLEAN : ImageAction(r, auto_pull)
             \/ Pull(r) \/ Build(r) \/ Stamp(r) \/ RuntimeReady(r) \/ BrokerSettled(r)
             \/ NameTaken(r)
    BY Zenon, <1>1, <1>5, <2>3, PlainSane, CommandWorld DEF RecipeInv
  <2>4. CASE \E command, detach \in BOOLEAN : Stage(r, command, detach)
    BY Zenon, <1>1, <1>5, <2>4, StageSane, CommandWorld DEF RecipeInv
  <2>5. CASE Fingerprint(r) \/ NextName(r) \/ Launch(r)
    BY Zenon, <1>1, <1>5, <2>5, PrintSane, LaunchSane, CommandWorld DEF RecipeInv
  <2>6. CASE \E good \in BOOLEAN : FollowEnds(r, good) \/ AttachEnds(r, good)
    BY Zenon, <1>1, <1>5, <2>6, FollowSane, CommandWorld DEF RecipeInv
  <2>7. CASE Finish(r)
    BY Zenon, <1>1, <1>5, <2>7, RemoveSane, CommandWorld DEF RecipeInv
  <2> QED
    BY Zenon, <1>5, <2>1, <2>2, <2>3, <2>4, <2>5, <2>6, <2>7 DEF CommandStep
<1> QED BY Zenon, <1>2, <1>3, <1>4, <1>5 DEF RecipeStep

LEMMA RecipeStarts ==
  ASSUME Init
  PROVE  RecipeInv
<1>1. /\ host = TRUE /\ pref = "none" /\ agent = [n \in Names |-> NoAgent]
      /\ mixed = FALSE /\ loose = {} /\ cli = [r \in Runs |-> NoCli] /\ home \in {"none", "file"}
  BY Zenon DEF Init
<1>2. ctx \in 0 .. MaxVersion /\ stamp \in Versions
  BY RecipeAssumption DEF Init, Versions
<1>3. image \in [Tags -> Images]
  <2>1. 0 \in Images /\ 1 \in Images /\ NoImage \in Images
    BY RecipeAssumption DEF Versions, Images
  <2> QED BY Zenon, <2>1 DEF Init
<1>4. files \in [FileNames -> States]
  BY Zenon DEF Init, States
<1>5. WorldTypes
  <2>1. NoAgent \in [state : {"none", "running", "exited"}, by : Runs \cup {NoRun}]
    BY Zenon DEF NoAgent
  <2>2. TRUE \in Flag /\ FALSE \in Flag
    BY Zenon DEF Flag
  <2> QED BY Zenon, <1>1, <1>2, <1>3, <1>4, <2>1, <2>2 DEF WorldTypes
<1>6. ASSUME NEW r \in Runs
      PROVE  Sound(r)
  <2>1. cli[r] = NoCli
    BY Zenon, <1>1
  <2>2. cli[r].at = "idle" /\ cli[r].file = 1 /\ ~cli[r].lost
    BY Zenon, <2>1, NewCli
  <2>3. "idle" \notin Named /\ "idle" \notin Watching /\ "idle" \in Ended
    BY Zenon DEF Named, Watching, Ended
  <2>4. 1 \in 1 .. 5
    OBVIOUS
  <2>5. FileOk(r) /\ NameOk(r) /\ LaunchOk(r)
    BY Zenon, <2>2, <2>3, <2>4 DEF FileOk, NameOk, LaunchOk
  <2>6. CredOk(r)
    BY Zenon, <2>2, <2>3 DEF CredOk
  <2> QED BY Zenon, <2>5, <2>6 DEF Sound
<1>7. cli \in [Runs -> CliRecords]
  BY Zenon, <1>1, NewCli
<1> QED BY Zenon, <1>5, <1>6, <1>7 DEF RecipeInv, Sane

LEMMA RecipeAlways == Spec => []RecipeInv
<1>1. RecipeInv /\ [Next]_vars => RecipeInv'
  BY Zenon, NextSteps, RecipeInductive
<1>2. Init => RecipeInv
  BY Zenon, RecipeStarts
<1> QED BY <1>1, <1>2, PTL DEF Spec

-----------------------------------------------------------------------------
(* What the commands may not do.                                           *)

\* The project's variables have their types; a command takes the recipe's files one by
\* one, and a smoke test uses no agent's name.
THEOREM RecipeTypesHold == Spec => []RecipeTypeOK
<1>1. ASSUME RecipeInv
      PROVE  RecipeTypeOK
  <2>1. WorldTypes /\ cli \in [Runs -> CliRecords] /\ \A r \in Runs : Sound(r)
    BY Zenon, <1>1 DEF RecipeInv, Sane
  <2>2. ASSUME NEW r \in Runs
        PROVE  /\ cli[r].opt \in Options \cup HostedOptions /\ cli[r].name \in Names
               /\ cli[r].file \in 1..(Len(Generated) + IF cli[r].at = "create" THEN 0 ELSE 1)
               /\ cli[r].at \in {"follow", "launch"} /\ cli[r].phase = "test"
                    => cli[r].name = r
    <3>1. cli[r].opt \in Options \cup HostedOptions /\ cli[r].name \in Names
      BY Zenon, <2>1 DEF CliRecords
    <3>2. FileOk(r) /\ NameOk(r)
      BY Zenon, <2>1 DEF Sound
    <3>3. cli[r].file \in 1..(Len(Generated) + IF cli[r].at = "create" THEN 0 ELSE 1)
      BY <3>2, TheFiles DEF FileOk
    <3>4. cli[r].at \in {"follow", "launch"} /\ cli[r].phase = "test" => cli[r].name = r
      BY Zenon, <3>2 DEF NameOk, Named, Watching
    <3> QED BY Zenon, <3>1, <3>3, <3>4
  <2> QED BY Zenon, <2>1, <2>2 DEF RecipeTypeOK, WorldTypes, States, Versions, Images, Flag
<1> QED BY <1>1, RecipeAlways, PTL

\* A command's own step leaves the others where they are.
LEMMA OthersStay ==
  ASSUME RecipeInv, NEW r \in Runs, NEW q \in Runs, q # r,
         CommandStep(r) \/ CommandTrouble(r) \/ KillCommand(r)
  PROVE  cli'[q].at = cli[q].at
<1>1. cli \in [Runs -> CliRecords] /\ WorldTypes
  BY Zenon DEF RecipeInv, Sane
<1>2. ASSUME NEW y, cli' = [cli EXCEPT ![r] = y]
      PROVE  cli'[q].at = cli[q].at
  BY Zenon, <1>1, <1>2
<1>3. ASSUME NEW a, Step(r, a)
      PROVE  cli'[q].at = cli[q].at
  BY Zenon, <1>2, <1>3 DEF Step
<1>4. CASE KillCommand(r) \/ CommandTrouble(r)
  <2>1. CASE FollowBreaks(r)
    BY Zenon, <1>1, <2>1 DEF FollowBreaks
  <2> QED
    BY Zenon, <1>3, <1>4, <2>1
       DEF KillCommand, CommandTrouble, PullFails, RecipeFails, LaunchLost, AttachBreaks
<1>5. CASE CommandStep(r)
  <2>1. CASE \/ Scaffolded(r) \/ Initialize(r) \/ DockerReady(r) \/ Pull(r) \/ Build(r)
             \/ Stamp(r) \/ RuntimeReady(r) \/ BrokerSettled(r)
    BY Zenon, <1>3, <2>1
       DEF Scaffolded, Initialize, DockerReady, Pull, Build, Stamp, RuntimeReady,
           BrokerSettled
  <2>2. CASE NameTaken(r) \/ Launch(r) \/ \E auto_pull \in BOOLEAN : ImageAction(r, auto_pull)
    BY Zenon, <1>3, <2>2 DEF ImageAction, NameTaken, Launch
  <2>3. CASE \E o \in IF Plain THEN Options ELSE HostedOptions : Start(r, o)
    BY Zenon, <1>2, <2>3 DEF Start
  <2>4. CASE Preflight(r)
    BY Zenon, <1>1, <2>4, PreflightGoes DEF Went
  <2>9. CASE Overwrite(r) \/ LookFor(r) \/ Create(r)
    BY Zenon, <1>1, <1>3, <2>9 DEF Overwrite, LookFor, Create, NextFile
  <2>5. CASE \E command, detach \in BOOLEAN : Stage(r, command, detach)
    BY Zenon, <1>1, <2>5 DEF Stage
  <2>6. CASE Fingerprint(r) \/ NextName(r)
    BY Zenon, <1>1, <2>6 DEF Fingerprint, NextName
  <2>7. CASE \E good \in BOOLEAN : FollowEnds(r, good) \/ AttachEnds(r, good)
    BY Zenon, <1>1, <1>3, <2>7 DEF FollowEnds, AttachEnds
  <2>8. CASE Finish(r)
    <3>1. cli'[q] = cli[q] \/ Bereft(q, cli[r].name)
      BY Zenon, <1>1, <2>8, FinishGoes
    <3> QED BY Zenon, <3>1 DEF Bereft
  <2> QED
    BY Zenon, <1>5, <2>1, <2>2, <2>3, <2>4, <2>5, <2>6, <2>7, <2>8, <2>9
       DEF CommandStep
<1> QED BY Zenon, <1>4, <1>5

\* A command that moves does so by a step of its own.
LEMMA Mover ==
  ASSUME RecipeInv, RecipeStep, NEW r \in Runs, cli'[r].at # cli[r].at
  PROVE  CommandStep(r) \/ CommandTrouble(r) \/ KillCommand(r)
<1>1. cli \in [Runs -> CliRecords]
  BY Zenon DEF RecipeInv, Sane
<1>2. CASE UNCHANGED recipeVars
  BY Zenon, <1>2 DEF recipeVars
<1>3. CASE \E n \in Names : AgentExits(n)
  BY Zenon, <1>3 DEF AgentExits
<1>4. CASE UserActs
  <2>1. ASSUME Touched
        PROVE  FALSE
    BY Zenon, <1>1, <2>1, TouchedGoes
  <2>2. ASSUME NEW n \in Names, CmdRemove(n)
        PROVE  FALSE
    BY Zenon, <1>1, <2>2, RemoveGoes DEF Bereft
  <2>3. ASSUME NEW v, \/ EditRecipe(v) \/ EditFile(v) \/ DeleteFile(v)
                      \/ DeleteImage(v) \/ OtherBuilds(v)
        PROVE  FALSE
    BY Zenon, <2>3 DEF EditRecipe, EditFile, DeleteFile, DeleteImage, OtherBuilds
  <2> QED
    BY Zenon, <1>4, <2>1, <2>2, <2>3 DEF UserActs, SignInOrOut, CmdAuth, AgentLogsIn
<1>5. CASE \E x \in loose : LooseEnds(x)
  BY Zenon, <1>5 DEF LooseEnds
<1> QED BY Zenon, <1>2, <1>3, <1>4, <1>5, OthersStay DEF RecipeStep

\* What a command does next, from the places the properties are about.
LEMMA OwnStep ==
  ASSUME RecipeInv, NEW r \in Runs, CommandStep(r) \/ CommandTrouble(r) \/ KillCommand(r)
  PROVE  /\ cli[r].at = "stage" =>
              \/ \E command, detach \in BOOLEAN : Stage(r, command, detach)
              \/ cli'[r].at = "killed"
         /\ cli[r].at = "print" => Fingerprint(r) \/ cli'[r].at = "killed"
<1>1. cli \in [Runs -> CliRecords]
  BY Zenon DEF RecipeInv, Sane
<1>2. CASE KillCommand(r)
  <2>1. Step(r, "killed")
    BY Zenon, <1>2 DEF KillCommand
  <2>2. Went(r, "killed")
    BY Zenon, <1>1, <2>1, StepGoes DEF CliPlaces
  <2> QED BY Zenon, <2>2 DEF Went
<1>3. CASE CommandTrouble(r)
  BY Zenon, <1>3
     DEF CommandTrouble, PullFails, RecipeFails, LaunchLost, FollowBreaks, AttachBreaks
<1>4. CASE CommandStep(r)
  <2>1. CASE \/ Preflight(r) \/ Overwrite(r) \/ LookFor(r) \/ Create(r) \/ Scaffolded(r)
             \/ Initialize(r) \/ DockerReady(r)
             \/ \E o \in IF Plain THEN Options ELSE HostedOptions : Start(r, o)
    BY Zenon, <2>1
       DEF Preflight, Overwrite, LookFor, Create, Scaffolded, Initialize, DockerReady, Start,
           Scaffolding
  <2>2. CASE \/ Pull(r) \/ Build(r) \/ Stamp(r) \/ RuntimeReady(r) \/ BrokerSettled(r)
             \/ NextName(r) \/ NameTaken(r) \/ Launch(r)
             \/ \E auto_pull \in BOOLEAN : ImageAction(r, auto_pull)
             \/ \E good \in BOOLEAN : FollowEnds(r, good) \/ AttachEnds(r, good)
    BY Zenon, <2>2
       DEF Pull, Build, Stamp, RuntimeReady, BrokerSettled, NextName, NameTaken, Launch,
           ImageAction, FollowEnds, AttachEnds
  <2>3. CASE Fingerprint(r) \/ Finish(r)
    BY Zenon, <2>3 DEF Fingerprint, Finish
  <2>4. CASE \E command, detach \in BOOLEAN : Stage(r, command, detach)
    BY Zenon, <2>4 DEF Stage
  <2> QED BY Zenon, <1>4, <2>1, <2>2, <2>3, <2>4 DEF CommandStep
<1> QED BY Zenon, <1>2, <1>3, <1>4

\* RefusedExplained: what recipe_command_requires_credential lets through in cmd_run is
\* turned away by cmd_recipe_run only if a credential changed or the project's home holds
\* something that is no file.
THEOREM RefusalsExplained == Spec => RefusedExplained
<1>1. ASSUME RecipeInv, [Next]_vars, NEW r \in Runs,
             cli[r].at = "stage", cli'[r].at = "barred", cli[r].opt.cmd = "run",
             RequiresCredential(FALSE, cli[r].opt.detach, cli[r].opt.args)
      PROVE  cli[r].touched \/ home = "other"
  <2>1. WorldTypes /\ cli \in [Runs -> CliRecords] /\ Sound(r)
    BY Zenon, <1>1 DEF RecipeInv, Sane
  <2>2. CommandStep(r) \/ CommandTrouble(r) \/ KillCommand(r)
    BY Zenon, <1>1, NextSteps, Mover
  <2>3. PICK command \in BOOLEAN, detach \in BOOLEAN : Stage(r, command, detach)
    BY Zenon, <1>1, <2>2, OwnStep
  <2>4. ~StagedReady(cli[r].opt)
    BY Zenon, <1>1, <2>1, <2>3, StageGoes DEF Went
  <2>5. cli[r].opt \in Options \cup HostedOptions
    BY Zenon, <2>1 DEF CliRecords
  <2>6. home # "other" => ~ExpectReady(cli[r].opt)
    BY Zenon, <2>1, <2>4, <2>5, ReadyStaged
  <2>7. "stage" \notin Ended \cup {"preflight"}
    BY Zenon DEF Ended
  <2> QED BY Zenon, <1>1, <2>1, <2>6, <2>7 DEF Sound, CredOk
<1>2. RecipeInv /\ [Next]_vars =>
        [\A r \in Runs :
           LET o == cli[r].opt IN
           /\ cli[r].at = "stage" /\ cli'[r].at = "barred"
           /\ o.cmd = "run" /\ RequiresCredential(FALSE, o.detach, o.args)
           => cli[r].touched \/ home = "other"]_vars
  BY Zenon, <1>1
<1> QED BY <1>2, RecipeAlways, PTL DEF Spec, RefusedExplained

\* RemovesOwn: finalize_recipe_outcome and recipe_smoke_test remove no container but
\* the command's own, unless that was removed first.
THEOREM RemovalsOwn == Spec => RemovesOwn
<1>1. ASSUME RecipeInv, [Next]_vars, NEW r \in Runs, Removes(r)
      PROVE  Container(r).by = r \/ cli[r].lost
  BY Zenon, <1>1 DEF RecipeInv, Sane, Sound, LaunchOk, Removes, Watching, Container
<1>2. RecipeInv /\ [Next]_vars =>
        [\A r \in Runs : Removes(r) => Container(r).by = r \/ cli[r].lost]_vars
  BY Zenon, <1>1
<1> QED BY <1>2, RecipeAlways, PTL DEF Spec, RemovesOwn

\* RunningSpared: an agent that still runs is removed only when following its logs broke.
THEOREM RunningAgentsSpared == Spec => RunningSpared
<1>1. ASSUME RecipeInv, [Next]_vars, NEW r \in Runs, Removes(r), Running(r)
      PROVE  cli[r].broken
  BY Zenon, <1>1 DEF RecipeInv, Sane, Sound, LaunchOk, Removes, Watching
<1>2. RecipeInv /\ [Next]_vars =>
        [\A r \in Runs : Removes(r) /\ Running(r) => cli[r].broken]_vars
  BY Zenon, <1>1
<1> QED BY <1>2, RecipeAlways, PTL DEF Spec, RunningSpared

\* EditsKept: write_missing, write_shared_template and ensure_recipe_initialized keep
\* what the user wrote; only --force overwrites it.
THEOREM UserEditsKept == Spec => EditsKept
<1> DEFINE Explained(f) ==
             \/ f = "Dockerfile" /\ upsets' = upsets + 1
             \/ \E r \in Runs :
                  /\ cli[r].at \in {"scaffold", "create"} /\ cli'[r].file = cli[r].file + 1
                  /\ f = Current(r)
                  /\ cli[r].at = "create" \/ (cli[r].opt.force /\ f # "host-resources.yaml")
<1>1. ASSUME RecipeInv, RecipeStep, NEW f \in FileNames, files[f] = "edited",
             files'[f] = "generated"
      PROVE  Explained(f)
  <2>1. files \in [FileNames -> States] /\ cli \in [Runs -> CliRecords]
    BY Zenon, <1>1 DEF RecipeInv, WorldTypes, Sane
  <2>2. files' # files
    BY Zenon, <1>1
  <2>3. files' # Initialized
    BY Zenon, <1>1 DEF Initialized
  <2>4. ASSUME NEW r \in Runs, CommandStep(r)
        PROVE  Explained(f)
    <3>1. Overwrite(r) \/ Create(r)
      <4>1. ~(Preflight(r) \/ LookFor(r) \/ Scaffolded(r) \/ Initialize(r) \/ DockerReady(r))
        BY Zenon, <2>2, <2>3
           DEF Preflight, LookFor, Scaffolded, Initialize, DockerReady, World
      <4>2. ~ \/ \E o \in IF Plain THEN Options ELSE HostedOptions : Start(r, o)
              \/ \E command, detach \in BOOLEAN : Stage(r, command, detach)
              \/ \E auto_pull \in BOOLEAN : ImageAction(r, auto_pull)
              \/ \E good \in BOOLEAN : FollowEnds(r, good) \/ AttachEnds(r, good)
        BY Zenon, <2>2 DEF Start, Stage, ImageAction, FollowEnds, AttachEnds, World
      <4>3. ~ \/ Pull(r) \/ Fingerprint(r) \/ Build(r) \/ Stamp(r) \/ RuntimeReady(r)
              \/ BrokerSettled(r) \/ NextName(r) \/ NameTaken(r) \/ Launch(r) \/ Finish(r)
        BY Zenon, <2>2
           DEF Pull, Fingerprint, Build, Stamp, RuntimeReady, BrokerSettled, NextName,
               NameTaken, Launch, Finish, World
      <4> QED BY Zenon, <2>4, <4>1, <4>2, <4>3 DEF CommandStep
    <3>2. files' = [files EXCEPT ![Current(r)] = "generated"] /\ NextFile(r)
      BY Zenon, <3>1 DEF Overwrite, Create, Write
    <3>3. f = Current(r)
      BY Zenon, <1>1, <2>1, <3>2
    <3>4. cli'[r].file = cli[r].file + 1
      BY Zenon, <2>1, <3>2, NextFileGoes
    <3>5. /\ cli[r].at \in {"scaffold", "create"}
          /\ \/ cli[r].at = "create"
             \/ cli[r].opt.force /\ Current(r) # "host-resources.yaml"
      BY Zenon, <3>1 DEF Overwrite, Create, Scaffolding, Overwrites
    <3> QED BY Zenon, <3>3, <3>4, <3>5
  <2>5. ~ \/ \E r \in Runs : CommandTrouble(r) \/ KillCommand(r)
          \/ \E n \in Names : AgentExits(n)
          \/ \E x \in loose : LooseEnds(x)
          \/ UNCHANGED recipeVars
    BY Zenon, <2>2
       DEF CommandTrouble, KillCommand, AgentExits, LooseEnds, recipeVars, PullFails, RecipeFails,
           LaunchLost, FollowBreaks, AttachBreaks, World
  <2>6. CASE UserActs
    <3>1. ASSUME NEW v, EditRecipe(v)
          PROVE  Explained(f)
      <4>1. f = "Dockerfile"
        BY Zenon, <1>1, <2>1, <3>1 DEF EditRecipe
      <4> QED BY Zenon, <3>1, <4>1 DEF EditRecipe, Upset
    <3>2. ASSUME NEW v, EditFile(v) \/ DeleteFile(v)
          PROVE  FALSE
      <4>1. CASE f = v
        BY Zenon, <1>1, <2>1, <3>2, <4>1 DEF EditFile, DeleteFile
      <4>2. CASE f # v
        BY Zenon, <1>1, <2>1, <3>2, <4>2 DEF EditFile, DeleteFile
      <4> QED BY Zenon, <4>1, <4>2
    <3>3. ASSUME NEW v, \/ CmdAuth(v) \/ DeleteImage(v) \/ OtherBuilds(v) \/ CmdRemove(v)
                        \/ SignInOrOut
          PROVE  FALSE
      BY Zenon, <2>2, <2>3, <3>3 DEF CmdAuth, DeleteImage, OtherBuilds, CmdRemove, SignInOrOut
    <3>4. ASSUME NEW n, NEW what, AgentLogsIn(n, what)
          PROVE  FALSE
      BY Zenon, <2>2, <3>4 DEF AgentLogsIn
    <3> QED BY Zenon, <2>6, <3>1, <3>2, <3>3, <3>4 DEF UserActs
  <2> QED BY Zenon, <1>1, <2>4, <2>5, <2>6 DEF RecipeStep
<1>2. RecipeInv /\ [Next]_vars =>
        [\A f \in FileNames :
           files[f] = "edited" /\ files'[f] = "generated" => Explained(f)]_vars
  BY Zenon, <1>1, NextSteps
<1>3. Spec => [][\A f \in FileNames :
           files[f] = "edited" /\ files'[f] = "generated" => Explained(f)]_vars
  BY <1>2, RecipeAlways, PTL DEF Spec
<1> QED BY <1>3 DEF EditsKept
-----------------------------------------------------------------------------
(* The image and its fingerprint.                                          *)

Mine == files["Dockerfile"]

\* A command that has chosen its image chose the one of the directory as it is; one
\* that builds has the directory's fingerprint; one that has built has the image's,
\* unless the image is gone or another project's.
Strange == {NoImage, Foreign}

ImageOk(r) ==
  /\ cli[r].at \in Choosing =>
       /\ cli[r].tag = "local" => ctx # 0
       /\ Mine # "absent" /\ ctx # 0 => cli[r].tag = "local"
  /\ cli[r].at = "build" => cli[r].print = ctx
  /\ cli[r].at = "stamp" =>
       /\ image[cli[r].tag] \in {cli[r].print} \cup Strange
       /\ cli[r].tag = "local" <=> cli[r].print # 0

\* The built-in image is of the built-in version, and the fingerprint on file is that of
\* the local image while nobody is about to write it.
StampOk ==
  /\ image["builtin"] \in {0} \cup Strange
  /\ \/ image["local"] \in Strange \/ stamp = 0 \/ image["local"] = stamp
     \/ \E r \in Runs : cli[r].at = "stamp"

OneBuilds ==
  \A r, q \in Runs :
    cli[r].at \in {"build", "stamp"} /\ cli[q].at \in {"build", "stamp"} => r = q

DirOk == (Mine = "edited" => ctx # 0) /\ (Mine = "generated" => ctx = 0)

CacheInv ==
  /\ DirOk
  /\ ~mixed => (\A r \in Runs : ImageOk(r)) /\ OneBuilds /\ StampOk

\* A command that stays, or moves without having built or going to.
Calm(q) ==
  \/ cli'[q].at = cli[q].at /\ KeepsImage(q)
  \/ /\ cli[q].at # "stamp"
     /\ \/ cli'[q].at \notin Choosing \cup {"stamp"}
        \/ /\ cli'[q].at \in Choosing \ {"build"} /\ cli[q].at \in Choosing
           /\ KeepsImage(q)

LEMMA WentCalm ==
  ASSUME NEW r \in Runs, NEW a, Went(r, a), cli[r].at # "stamp",
         \/ a \notin Choosing \cup {"stamp"}
         \/ a \in Choosing \ {"build"} /\ cli[r].at \in Choosing /\ KeepsImage(r)
  PROVE  \A q \in Runs : Calm(q)
BY Zenon DEF Calm, Went, KeepsImage

\* Calm commands do not start building, and do not leave an image without a stamp.
LEMMA CalmBuilds ==
  ASSUME \A q \in Runs : Calm(q)
  PROVE  /\ OneBuilds => OneBuilds'
         /\ UNCHANGED <<image, stamp>> /\ StampOk => StampOk'
<1>1. ASSUME NEW q \in Runs
      PROVE  /\ cli'[q].at \in {"build", "stamp"} => cli[q].at \in {"build", "stamp"}
             /\ cli[q].at = "stamp" => cli'[q].at = "stamp"
  BY Zenon DEF Calm, Choosing
<1>2. OneBuilds => OneBuilds'
  BY Zenon, <1>1 DEF OneBuilds
<1>3. UNCHANGED <<image, stamp>> /\ StampOk => StampOk'
  BY Zenon, <1>1 DEF StampOk
<1> QED BY Zenon, <1>2, <1>3

LEMMA CalmImage ==
  ASSUME NEW q \in Runs, Calm(q), ImageOk(q), UNCHANGED <<image, ctx>>,
         Mine' = Mine \/ Mine' = "absent" \/ ctx = 0
  PROVE  ImageOk(q)'
BY Zenon DEF Calm, ImageOk, KeepsImage, Choosing

\* The directory turns to another version.
LEMMA TurnsCache ==
  ASSUME CacheInv, \A q \in Runs : Calm(q), UNCHANGED <<image, stamp>>,
         NEW v, Turns(v),
         \/ v = ctx /\ Mine' \in {Mine, "absent"}
         \/ v = 0 /\ Mine' = "generated"
         \/ v # ctx /\ v # 0 /\ Mine' = "edited"
  PROVE  CacheInv'
<1>1. ctx' = v /\ (~mixed' => ~mixed /\ (v = ctx \/ \A q \in Runs : cli[q].at \notin Choosing))
  BY Zenon DEF Turns
<1>2. DirOk'
  BY Zenon, <1>1 DEF CacheInv, DirOk
<1>3. ASSUME ~mixed'
      PROVE  (\A r \in Runs : ImageOk(r)') /\ OneBuilds' /\ StampOk'
  <2>1. (\A r \in Runs : ImageOk(r)) /\ OneBuilds /\ StampOk
    BY Zenon, <1>1, <1>3 DEF CacheInv
  <2>2. CASE v = ctx
    <3>1. ctx' = ctx /\ (Mine' = Mine \/ Mine' = "absent" \/ ctx = 0)
      BY Zenon, <1>1, <2>2
    <3>2. \A r \in Runs : ImageOk(r)'
      BY Zenon, <2>1, <3>1, CalmImage
    <3> QED BY Zenon, <2>1, <3>2, CalmBuilds
  <2>3. CASE v # ctx
    <3>1. ASSUME NEW q \in Runs
          PROVE  ImageOk(q)'
      <4>1. cli[q].at \notin Choosing
        BY Zenon, <1>1, <1>3, <2>3
      <4>2. cli'[q].at \notin Choosing
        BY Zenon, <4>1 DEF Calm
      <4>3. "build" \in Choosing
        BY Zenon DEF Choosing
      <4>4. cli'[q].at = "stamp" => cli[q].at = "stamp" /\ KeepsImage(q)
        BY Zenon, <4>1 DEF Calm
      <4> QED BY Zenon, <2>1, <4>2, <4>3, <4>4 DEF ImageOk, KeepsImage
    <3> QED BY Zenon, <2>1, <3>1, CalmBuilds
  <2> QED BY Zenon, <2>2, <2>3
<1> QED BY Zenon, <1>2, <1>3 DEF CacheInv

LEMMA CalmCache ==
  ASSUME CacheInv, \A q \in Runs : Calm(q), UNCHANGED <<ctx, image, stamp>>,
         Mine' \in {Mine, "absent"}, mixed => mixed'
  PROVE  CacheInv'
<1>1. DirOk'
  BY Zenon DEF CacheInv, DirOk
<1>2. ASSUME ~mixed'
      PROVE  (\A r \in Runs : ImageOk(r)') /\ OneBuilds' /\ StampOk'
  <2>1. (\A r \in Runs : ImageOk(r)) /\ OneBuilds /\ StampOk
    BY Zenon, <1>2 DEF CacheInv
  <2>2. \A r \in Runs : ImageOk(r)'
    BY Zenon, <2>1, CalmImage
  <2> QED BY Zenon, <2>1, <2>2, CalmBuilds
<1> QED BY Zenon, <1>1, <1>2 DEF CacheInv

\* The steps that neither write the Dockerfile nor touch the image.
LEMMA PlainCache ==
  ASSUME RecipeInv, CacheInv, NEW r \in Runs,
         \/ \E o \in Options \cup HostedOptions : Start(r, o)
         \/ Preflight(r) \/ LookFor(r) \/ Scaffolded(r) \/ DockerReady(r)
         \/ \E auto_pull \in BOOLEAN : ImageAction(r, auto_pull)
         \/ RuntimeReady(r) \/ BrokerSettled(r) \/ NameTaken(r) \/ NextName(r)
         \/ Launch(r) \/ PullFails(r) \/ LaunchLost(r) \/ AttachBreaks(r)
         \/ \E good \in BOOLEAN : FollowEnds(r, good) \/ AttachEnds(r, good)
         \/ FollowBreaks(r) \/ Finish(r)
  PROVE  CacheInv'
<1>1. cli \in [Runs -> CliRecords] /\ \A q \in Runs : Sound(q)
  BY Zenon DEF RecipeInv, Sane
<1>2. UNCHANGED <<files, ctx, image, stamp, mixed>>
  <2>1. CASE PullFails(r)
    <3>1. mixed' = (mixed \/ cli[r].at = "stamp") /\ cli[r].at # "stamp" /\ mixed \in BOOLEAN
      BY Zenon, <2>1 DEF PullFails, LeavesBuild, RecipeInv, Sane, WorldTypes, Flag
    <3>2. mixed' = mixed
      BY <3>1
    <3> QED BY Zenon, <2>1, <3>2 DEF PullFails
  <2> QED
    BY Zenon, <2>1
       DEF Start, Preflight, LookFor, Scaffolded, DockerReady, ImageAction, RuntimeReady,
           BrokerSettled, NameTaken, NextName, Launch, LaunchLost, AttachBreaks, FollowEnds,
           AttachEnds, FollowBreaks, Finish, World
<1>3. SUFFICES \A q \in Runs : Calm(q)
  BY Zenon, <1>2, CalmCache DEF Mine
<1>4. ASSUME NEW a \in CliPlaces \ (Choosing \cup {"stamp"}), Step(r, a), cli[r].at # "stamp"
      PROVE  \A q \in Runs : Calm(q)
  BY Zenon, <1>1, <1>4, StepGoes, WentCalm
<1>5. ASSUME NEW a \in {"image", "pull", "print"}, Step(r, a), cli[r].at \in Choosing
      PROVE  \A q \in Runs : Calm(q)
  <2>1. a \in CliPlaces /\ a \notin Ended /\ a \in Choosing \ {"build"}
    BY Zenon, <1>5 DEF CliPlaces, Ended, Choosing
  <2>2. cli[r].at # "stamp"
    BY Zenon, <1>5 DEF Choosing
  <2> QED BY Zenon, <1>1, <1>5, <2>1, <2>2, StepGoes, WentCalm DEF Keeps
<1>6. {"refused", "create", "begin", "runtime", "broker", "launch", "failed", "done", "follow",
       "attach"} \subseteq CliPlaces \ (Choosing \cup {"stamp"})
  BY Zenon DEF CliPlaces, Choosing
<1>7. CASE \E o \in Options \cup HostedOptions : Start(r, o)
  <2>1. PICK a \in {"scaffold", "begin", "preflight"} : Went(r, a)
    BY Zenon, <1>1, <1>7, StartGoes
  <2>2. cli[r].at # "stamp" /\ a \notin Choosing \cup {"stamp"}
    BY Zenon, <1>7, <2>1 DEF Start, Choosing
  <2> QED BY Zenon, <2>1, <2>2, WentCalm
<1>8. CASE Preflight(r)
  <2>1. PICK a \in {"refused", "scaffold", "begin"} : Went(r, a)
    BY Zenon, <1>1, <1>8, PreflightGoes
  <2>2. cli[r].at # "stamp" /\ a \notin Choosing \cup {"stamp"}
    BY Zenon, <1>8, <2>1 DEF Preflight, Choosing
  <2> QED BY Zenon, <2>1, <2>2, WentCalm
<1>9. CASE LookFor(r)
  <2>1. cli[r].at # "stamp" /\ (Step(r, "create") \/ NextFile(r))
    BY Zenon, <1>9 DEF LookFor, Scaffolding
  <2>2. NextFile(r) => Went(r, "scaffold")
    BY Zenon, <1>1, NextFileGoes
  <2>3. "scaffold" \notin Choosing \cup {"stamp"}
    BY Zenon DEF Choosing
  <2> QED BY Zenon, <1>4, <1>6, <2>1, <2>2, <2>3, WentCalm
<1>10. CASE Scaffolded(r) \/ RuntimeReady(r) \/ BrokerSettled(r) \/ NameTaken(r)
  BY Zenon, <1>4, <1>6, <1>10 DEF Scaffolded, RuntimeReady, BrokerSettled, NameTaken
<1>11. CASE LaunchLost(r) \/ AttachBreaks(r)
  BY Zenon, <1>4, <1>6, <1>11 DEF LaunchLost, AttachBreaks
<1>12. CASE DockerReady(r)
  BY Zenon, <1>5, <1>12 DEF DockerReady, Choosing
<1>13. CASE \E auto_pull \in BOOLEAN : ImageAction(r, auto_pull)
  <2>1. PICK a \in {"print", "runtime", "pull", "failed"} : Step(r, a)
    BY Zenon, <1>13 DEF ImageAction
  <2>2. cli[r].at = "image" /\ "image" \in Choosing
    BY Zenon, <1>13 DEF ImageAction, Choosing
  <2> QED BY Zenon, <1>4, <1>5, <1>6, <2>1, <2>2
<1>14. CASE PullFails(r)
  <2>1. cli[r].at = "pull" /\ "pull" \in Choosing
    BY Zenon, <1>14 DEF PullFails, Choosing
  <2> QED BY Zenon, <1>4, <1>5, <1>6, <1>14, <2>1 DEF PullFails
<1>15. CASE Launch(r)
  <2>1. PICK a \in {"done", "follow", "attach"} : Step(r, a)
    BY Zenon, <1>15 DEF Launch, AfterLaunch
  <2> QED BY Zenon, <1>4, <1>6, <1>15, <2>1 DEF Launch
<1>16. CASE NextName(r)
  <2>1. cli[r].at = "launch" /\ cli[r].phase = "run"
    BY Zenon, <1>16 DEF NextName, Automatic
  <2>2. cli[r].name \in 1 .. MaxNames
    BY Zenon, <1>1, <2>1 DEF Sound, NameOk, Named
  <2>3. "launch" \notin Choosing \cup {"stamp"} /\ "launch" # "stamp"
    BY Zenon DEF Choosing
  <2> QED BY Zenon, <1>1, <1>16, <2>1, <2>2, <2>3, NextNameGoes, WentCalm
<1>17. ASSUME NEW g \in Flag, cli' = [cli EXCEPT ![r].at = "finish", ![r].broken = g],
              cli[r].at \in Watching
       PROVE  \A q \in Runs : Calm(q)
  <2>1. Went(r, "finish")
    BY Zenon, <1>1, <1>17, FollowGoes
  <2>2. "finish" \notin Choosing \cup {"stamp"} /\ cli[r].at # "stamp"
    BY Zenon, <1>17 DEF Choosing, Watching
  <2> QED BY Zenon, <2>1, <2>2, WentCalm
<1>18. CASE FollowBreaks(r)
  <2>1. TRUE \in Flag /\ cli[r].at \in Watching
    BY Zenon, <1>18 DEF Flag, Watching, FollowBreaks
  <2> QED BY Zenon, <1>17, <1>18, <2>1 DEF FollowBreaks
<1>19. ASSUME NEW good \in BOOLEAN, FollowEnds(r, good) \/ AttachEnds(r, good)
       PROVE  \A q \in Runs : Calm(q)
  <2>1. PICK g \in Flag : g = (~good)
    BY Zenon DEF Flag
  <2>2. cli[r].at \in Watching /\ cli[r].at # "stamp"
    BY Zenon, <1>19 DEF Watching, FollowEnds, AttachEnds
  <2>3. \/ cli' = [cli EXCEPT ![r].at = "finish", ![r].broken = g]
        \/ \E a \in {"done", "failed"} : Step(r, a)
    BY Zenon, <1>19, <2>1 DEF FollowEnds, AttachEnds
  <2> QED BY Zenon, <1>4, <1>6, <1>17, <2>2, <2>3
<1>20. CASE Finish(r)
  <2>1. PICK a \in {"begin", "done", "failed"} :
           /\ cli'[r].at = a
           /\ \A q \in Runs : q # r => cli'[q] = cli[q] \/ Bereft(q, cli[r].name)
    BY Zenon, <1>1, <1>20, FinishGoes
  <2>2. cli[r].at # "stamp" /\ a \notin Choosing \cup {"stamp"}
    BY Zenon, <1>20, <2>1 DEF Finish, Choosing
  <2> QED BY Zenon, <2>1, <2>2 DEF Calm, Bereft, Keeps, KeepsImage
<1> QED
  BY Zenon, <1>7, <1>8, <1>9, <1>10, <1>11, <1>12, <1>13, <1>14, <1>15, <1>16, <1>18, <1>19,
     <1>20

\* The recipe's files are written.
LEMMA FilesCache ==
  ASSUME RecipeInv, CacheInv, NEW r \in Runs, Overwrite(r) \/ Create(r) \/ Initialize(r)
  PROVE  CacheInv'
<1>1. /\ cli \in [Runs -> CliRecords] /\ files \in [FileNames -> States]
      /\ "Dockerfile" \in FileNames
  BY Zenon, TheFiles DEF RecipeInv, Sane, WorldTypes
<1>2. UNCHANGED <<image, stamp>> /\ cli[r].at \in {"scaffold", "create", "begin"}
  BY Zenon DEF Overwrite, Create, Initialize, Scaffolding
<1>3. \A q \in Runs : Calm(q)
  <2>1. PICK a \in {"scaffold", "stage", "failed"} : Went(r, a)
    <3>1. NextFile(r) \/ Step(r, "stage") \/ Step(r, "failed")
      BY Zenon DEF Overwrite, Create, Initialize
    <3> QED BY Zenon, <1>1, <3>1, NextFileGoes, StepGoes DEF CliPlaces
  <2>2. cli[r].at # "stamp" /\ a \notin Choosing \cup {"stamp"}
    BY Zenon, <1>2, <2>1 DEF Choosing
  <2> QED BY Zenon, <2>1, <2>2, WentCalm
<1>4. CASE Overwrite(r) \/ Create(r)
  <2>1. Write(Current(r))
    BY Zenon, <1>4 DEF Overwrite, Create
  <2>2. CASE Current(r) = "Dockerfile"
    <3>1. Turns(0) /\ Mine' = "generated"
      BY Zenon, <1>1, <2>1, <2>2 DEF Write, Mine
    <3> QED BY Zenon, <1>2, <1>3, <3>1, TurnsCache
  <2>3. CASE Current(r) # "Dockerfile"
    <3>1. Turns(ctx) /\ Mine' = Mine
      BY Zenon, <1>1, <2>1, <2>3 DEF Write, Mine
    <3> QED BY Zenon, <1>2, <1>3, <3>1, TurnsCache
  <2> QED BY Zenon, <2>2, <2>3
<1>5. CASE Initialize(r)
  <2>1. CASE Mine = "absent" /\ CanInitialize
    <3>1. Turns(0) /\ files' = Initialized
      BY Zenon, <1>5, <2>1 DEF Initialize, Mine
    <3>2. Mine' = "generated"
      BY Zenon, <1>1, <2>1, <3>1 DEF Initialized, Mine
    <3> QED BY Zenon, <1>2, <1>3, <3>1, <3>2, TurnsCache
  <2>2. CASE ~(Mine = "absent" /\ CanInitialize)
    <3>1. Turns(ctx) /\ Mine' = Mine
      BY Zenon, <1>5, <2>2 DEF Initialize, Initialized, Mine
    <3> QED BY Zenon, <1>2, <1>3, <3>1, TurnsCache
  <2> QED BY Zenon, <2>1, <2>2
<1> QED BY Zenon, <1>4, <1>5

\* The image is chosen by whose Dockerfile there is.
LEMMA StageCache ==
  ASSUME RecipeInv, CacheInv, NEW r \in Runs,
         \E command, detach \in BOOLEAN : Stage(r, command, detach)
  PROVE  CacheInv'
<1>1. cli \in [Runs -> CliRecords] /\ Mine \in States
  BY Zenon, TheFiles DEF RecipeInv, Sane, WorldTypes, Mine
<1>2. cli[r].at = "stage" /\ UNCHANGED <<files, ctx, image, stamp, mixed>>
  BY Zenon DEF Stage
<1>3. PICK a \in {"barred", "docker"} : Went(r, a) /\ cli'[r].tag = SelectedTag
  BY Zenon, <1>1, StageGoes
<1>4. cli'[r].at = a /\ \A q \in Runs : q # r => cli'[q] = cli[q]
  BY Zenon, <1>3 DEF Went
<1>5. a \notin {"build", "stamp"} /\ cli[r].at \notin {"build", "stamp"}
  BY Zenon, <1>2, <1>3
<1>6. DirOk' /\ Mine' = Mine
  BY Zenon, <1>2 DEF CacheInv, DirOk, Mine
<1>7. ASSUME ~mixed'
      PROVE  (\A q \in Runs : ImageOk(q)') /\ OneBuilds' /\ StampOk'
  <2>1. (\A q \in Runs : ImageOk(q)) /\ OneBuilds /\ StampOk
    BY Zenon, <1>2, <1>7 DEF CacheInv
  <2>2. SelectedTag = "local" => ctx # 0
    BY Zenon DEF SelectedTag, CacheInv, DirOk, Mine
  <2>3. Mine # "absent" /\ ctx # 0 => SelectedTag = "local"
    BY Zenon, <1>1 DEF SelectedTag, CacheInv, DirOk, Mine, States
  <2>4. ImageOk(r)'
    BY Zenon, <1>2, <1>3, <1>4, <1>5, <1>6, <2>2, <2>3 DEF ImageOk
  <2>5. \A q \in Runs : q # r => ImageOk(q)'
    BY Zenon, <1>2, <1>4, <1>6, <2>1 DEF ImageOk
  <2>6. OneBuilds'
    <3>1. \A q \in Runs : cli'[q].at \in {"build", "stamp"} => cli[q].at \in {"build", "stamp"}
      BY Zenon, <1>4, <1>5
    <3> QED BY Zenon, <2>1, <3>1 DEF OneBuilds
  <2>7. StampOk'
    BY Zenon, <1>2, <1>4, <1>5, <2>1 DEF StampOk
  <2> QED BY Zenon, <2>4, <2>5, <2>6, <2>7
<1> QED BY Zenon, <1>6, <1>7 DEF CacheInv

\* Two builds at a time are recorded.
LEMMA PrintCache ==
  ASSUME RecipeInv, CacheInv, NEW r \in Runs, Fingerprint(r)
  PROVE  CacheInv'
<1>1. cli \in [Runs -> CliRecords] /\ ctx \in Versions
  BY Zenon DEF RecipeInv, Sane, WorldTypes, Versions
<1>2. /\ cli[r].at = "print" /\ UNCHANGED <<files, ctx, image, stamp>>
      /\ ~mixed' => ~mixed /\ \A q \in Runs : cli[q].at \notin {"build", "stamp"}
  BY Zenon DEF Fingerprint
<1>3. PICK a \in {"failed", "runtime", "build"} :
           Went(r, a) /\ cli'[r].tag = cli[r].tag /\ cli'[r].print = ctx
  BY Zenon, <1>1, FingerprintGoes
<1>4. cli'[r].at = a /\ \A q \in Runs : q # r => cli'[q] = cli[q]
  BY Zenon, <1>3 DEF Went
<1>5. a # "stamp" /\ (a \in Choosing => a = "build") /\ "print" \in Choosing
  BY Zenon, <1>3 DEF Choosing
<1>6. DirOk' /\ Mine' = Mine
  BY Zenon, <1>2 DEF CacheInv, DirOk, Mine
<1>7. ASSUME ~mixed'
      PROVE  (\A q \in Runs : ImageOk(q)') /\ OneBuilds' /\ StampOk'
  <2>1. (\A q \in Runs : ImageOk(q)) /\ StampOk
    BY Zenon, <1>2, <1>7 DEF CacheInv
  <2>2. ImageOk(r)'
    BY Zenon, <1>2, <1>3, <1>4, <1>5, <1>6, <2>1 DEF ImageOk
  <2>3. \A q \in Runs : q # r => ImageOk(q)'
    BY Zenon, <1>2, <1>4, <1>6, <2>1 DEF ImageOk
  <2>4. \A q \in Runs : q # r => cli'[q].at \notin {"build", "stamp"}
    BY Zenon, <1>2, <1>4, <1>7
  <2>5. OneBuilds'
    BY Zenon, <2>4 DEF OneBuilds
  <2>6. StampOk'
    BY Zenon, <1>2, <1>4, <1>7, <2>1 DEF StampOk
  <2> QED BY Zenon, <2>2, <2>3, <2>5, <2>6
<1> QED BY Zenon, <1>6, <1>7 DEF CacheInv

\* The image is built of the directory as it is.
LEMMA BuildCache ==
  ASSUME RecipeInv, CacheInv, NEW r \in Runs, Build(r)
  PROVE  CacheInv'
<1>1. /\ cli \in [Runs -> CliRecords] /\ image \in [Tags -> Images]
      /\ cli[r].tag \in {"builtin", "local"}
  BY Zenon DEF RecipeInv, Sane, WorldTypes, CliRecords, Tags
<1>2. cli[r].at = "build" /\ UNCHANGED <<files, ctx, stamp, mixed>>
  BY Zenon DEF Build
<1>3. CASE Mine = "absent"
  <2>1. Step(r, "failed") /\ UNCHANGED image
    BY Zenon, <1>3 DEF Build, Mine
  <2>2. Went(r, "failed") /\ "failed" \notin Choosing \cup {"stamp"}
    BY Zenon, <1>1, <2>1, StepGoes DEF CliPlaces, Choosing
  <2>3. \A q \in Runs : Calm(q)
    BY Zenon, <1>2, <2>2, WentCalm
  <2> QED BY Zenon, <1>2, <2>1, <2>3, CalmCache DEF Mine
<1>4. CASE Mine # "absent"
  <2>1. image' = [image EXCEPT ![cli[r].tag] = ctx] /\ Step(r, "stamp")
    BY Zenon, <1>4 DEF Build, Mine
  <2>2. Went(r, "stamp") /\ Keeps(r)
    BY Zenon, <1>1, <2>1, StepGoes DEF CliPlaces, Ended
  <2>3. /\ cli'[r].at = "stamp" /\ KeepsImage(r)
        /\ \A q \in Runs : q # r => cli'[q] = cli[q]
    BY Zenon, <2>2 DEF Went, Keeps
  <2>4. DirOk' /\ Mine' = Mine
    BY Zenon, <1>2 DEF CacheInv, DirOk, Mine
  <2>5. ASSUME ~mixed'
        PROVE  (\A q \in Runs : ImageOk(q)') /\ OneBuilds' /\ StampOk'
    <3>1. (\A q \in Runs : ImageOk(q)) /\ OneBuilds /\ StampOk
      BY Zenon, <1>2, <2>5 DEF CacheInv
    <3>2. /\ cli[r].print = ctx
          /\ cli[r].tag = "local" <=> cli[r].print # 0
      BY Zenon, <1>2, <1>4, <3>1 DEF ImageOk, Choosing
    <3>3. image'[cli[r].tag] = ctx
      BY Zenon, <1>1, <2>1 DEF Tags
    <3>4. ImageOk(r)'
      BY Zenon, <2>3, <3>2, <3>3 DEF ImageOk, KeepsImage, Choosing
    <3>5. \A q \in Runs : q # r => cli[q].at \notin {"build", "stamp"}
      BY Zenon, <1>2, <3>1 DEF OneBuilds
    <3>6. \A q \in Runs : q # r => ImageOk(q)'
      BY Zenon, <1>2, <2>3, <2>4, <3>1, <3>5 DEF ImageOk
    <3>7. OneBuilds'
      BY Zenon, <2>3, <3>5 DEF OneBuilds
    <3>8. image'["builtin"] \in {0} \cup Strange
      <4>1. CASE cli[r].tag = "builtin"
        BY Zenon, <3>2, <3>3, <4>1
      <4>2. CASE cli[r].tag # "builtin"
        BY Zenon, <1>1, <2>1, <3>1, <4>2 DEF StampOk, Tags
      <4> QED BY Zenon, <4>1, <4>2
    <3>9. StampOk'
      BY Zenon, <2>3, <3>8 DEF StampOk
    <3> QED BY Zenon, <3>4, <3>6, <3>7, <3>9
  <2> QED BY Zenon, <2>4, <2>5 DEF CacheInv
<1> QED BY Zenon, <1>3, <1>4

\* The fingerprint is filed.
LEMMA StampCache ==
  ASSUME RecipeInv, CacheInv, NEW r \in Runs, Stamp(r)
  PROVE  CacheInv'
<1>1. cli \in [Runs -> CliRecords] /\ cli[r].tag \in {"builtin", "local"}
  BY Zenon DEF RecipeInv, Sane, CliRecords, Tags
<1>2. /\ cli[r].at = "stamp" /\ UNCHANGED <<files, ctx, image, mixed>>
      /\ stamp' = cli[r].print
  BY Zenon DEF Stamp
<1>3. Went(r, "runtime")
  BY Zenon, <1>1, StepGoes DEF CliPlaces, Stamp
<1>4. cli'[r].at = "runtime" /\ \A q \in Runs : q # r => cli'[q] = cli[q]
  BY Zenon, <1>3 DEF Went
<1>5. DirOk' /\ Mine' = Mine
  BY Zenon, <1>2 DEF CacheInv, DirOk, Mine
<1>6. ASSUME ~mixed'
      PROVE  (\A q \in Runs : ImageOk(q)') /\ OneBuilds' /\ StampOk'
  <2>1. (\A q \in Runs : ImageOk(q)) /\ OneBuilds /\ StampOk
    BY Zenon, <1>2, <1>6 DEF CacheInv
  <2>2. ImageOk(r)'
    <3>1. "runtime" \notin Choosing /\ "runtime" # "build" /\ "runtime" # "stamp"
      BY Zenon DEF Choosing
    <3> QED BY Zenon, <1>4, <3>1 DEF ImageOk
  <2>3. \A q \in Runs : q # r => ImageOk(q)'
    BY Zenon, <1>2, <1>4, <1>5, <2>1 DEF ImageOk
  <2>4. OneBuilds'
    <3>1. \A q \in Runs : cli'[q].at \in {"build", "stamp"} => cli[q].at \in {"build", "stamp"}
      BY Zenon, <1>4
    <3> QED BY Zenon, <2>1, <3>1 DEF OneBuilds
  <2>5. /\ image[cli[r].tag] \in {cli[r].print} \cup Strange
        /\ cli[r].tag = "local" <=> cli[r].print # 0
    BY Zenon, <1>2, <2>1 DEF ImageOk
  <2>6. image["local"] \in Strange \/ cli[r].print = 0 \/ image["local"] = cli[r].print
    BY Zenon, <1>1, <2>5
  <2>7. StampOk'
    BY Zenon, <1>2, <2>1, <2>6 DEF StampOk
  <2> QED BY Zenon, <2>2, <2>3, <2>4, <2>7
<1> QED BY Zenon, <1>5, <1>6 DEF CacheInv

\* The published image is of the built-in version.
LEMMA PullCache ==
  ASSUME RecipeInv, CacheInv, NEW r \in Runs, Pull(r)
  PROVE  CacheInv'
<1>1. /\ cli \in [Runs -> CliRecords] /\ image \in [Tags -> Images]
      /\ \A q \in Runs : cli[q].tag \in {"builtin", "local"}
  BY Zenon DEF RecipeInv, Sane, WorldTypes, CliRecords, Tags
<1>2. /\ cli[r].at = "pull" /\ UNCHANGED <<files, ctx, stamp, mixed>>
      /\ image' = [image EXCEPT !["builtin"] = 0]
  BY Zenon DEF Pull
<1>3. Went(r, "runtime")
  BY Zenon, <1>1, StepGoes DEF CliPlaces, Pull
<1>4. cli'[r].at = "runtime" /\ \A q \in Runs : q # r => cli'[q] = cli[q]
  BY Zenon, <1>3 DEF Went
<1>5. image'["builtin"] = 0 /\ image'["local"] = image["local"]
  BY Zenon, <1>1, <1>2 DEF Tags
<1>6. DirOk' /\ Mine' = Mine
  BY Zenon, <1>2 DEF CacheInv, DirOk, Mine
<1>7. ASSUME ~mixed'
      PROVE  (\A q \in Runs : ImageOk(q)') /\ OneBuilds' /\ StampOk'
  <2>1. (\A q \in Runs : ImageOk(q)) /\ OneBuilds /\ StampOk
    BY Zenon, <1>2, <1>7 DEF CacheInv
  <2>2. ImageOk(r)'
    <3>1. "runtime" \notin Choosing /\ "runtime" # "build" /\ "runtime" # "stamp"
      BY Zenon DEF Choosing
    <3> QED BY Zenon, <1>4, <3>1 DEF ImageOk
  <2>3. ASSUME NEW q \in Runs, q # r
        PROVE  ImageOk(q)'
    <3>1. ASSUME cli[q].at = "stamp"
          PROVE  image'[cli[q].tag] \in {cli[q].print} \cup Strange
      <4>1. CASE cli[q].tag = "local"
        BY Zenon, <1>5, <2>1, <3>1, <4>1 DEF ImageOk
      <4>2. CASE cli[q].tag = "builtin"
        BY Zenon, <1>5, <2>1, <3>1, <4>2 DEF ImageOk
      <4> QED BY Zenon, <1>1, <4>1, <4>2
    <3> QED BY Zenon, <1>2, <1>4, <1>6, <2>1, <2>3, <3>1 DEF ImageOk
  <2>4. OneBuilds'
    <3>1. \A q \in Runs : cli'[q].at \in {"build", "stamp"} => cli[q].at \in {"build", "stamp"}
      BY Zenon, <1>4
    <3> QED BY Zenon, <2>1, <3>1 DEF OneBuilds
  <2>5. StampOk'
    BY Zenon, <1>2, <1>4, <1>5, <2>1 DEF StampOk
  <2> QED BY Zenon, <2>2, <2>3, <2>4, <2>5
<1> QED BY Zenon, <1>6, <1>7 DEF CacheInv

\* A build that is cut off before its stamp is recorded.
LEMMA FailCache ==
  ASSUME RecipeInv, CacheInv, NEW r \in Runs, RecipeFails(r) \/ KillCommand(r)
  PROVE  CacheInv'
<1>1. cli \in [Runs -> CliRecords]
  BY Zenon DEF RecipeInv, Sane
<1>2. /\ UNCHANGED <<files, ctx, image, stamp>>
      /\ mixed' = (mixed \/ cli[r].at = "stamp")
  BY Zenon DEF RecipeFails, KillCommand, LeavesBuild
<1>3. PICK a \in {"failed", "killed"} : Step(r, a)
  BY Zenon DEF RecipeFails, KillCommand
<1>4. Went(r, a) /\ a \notin Choosing \cup {"stamp"}
  BY Zenon, <1>1, <1>3, StepGoes DEF CliPlaces, Choosing
<1>5. CASE cli[r].at = "stamp"
  BY Zenon, <1>2, <1>5 DEF CacheInv, DirOk, Mine
<1>6. CASE cli[r].at # "stamp"
  <2>1. \A q \in Runs : Calm(q)
    BY Zenon, <1>4, <1>6, WentCalm
  <2> QED BY Zenon, <1>2, <2>1, CalmCache DEF Mine
<1> QED BY Zenon, <1>5, <1>6

\* The agents and the user.
LEMMA UserCache ==
  ASSUME RecipeInv, CacheInv, (\E n \in Names : AgentExits(n)) \/ UserActs
  PROVE  CacheInv'
<1>1. /\ cli \in [Runs -> CliRecords] /\ files \in [FileNames -> States]
      /\ FileNames = {"recipe.yaml", "Dockerfile", "agent.yaml", "host-resources.yaml"}
      /\ image \in [Tags -> Images]
  BY Zenon, TheFiles DEF RecipeInv, Sane, WorldTypes
<1>2. UNCHANGED cli => \A q \in Runs : Calm(q)
  BY Zenon DEF Calm, KeepsImage
<1>3. Touched => \A q \in Runs : Calm(q)
  BY Zenon, <1>1, TouchedGoes DEF Calm
<1>4. ASSUME \A q \in Runs : Calm(q), UNCHANGED <<files, ctx, image, stamp, mixed>>
      PROVE  CacheInv'
  BY Zenon, <1>4, CalmCache DEF Mine
<1>5. CASE \E n \in Names : AgentExits(n)
  BY Zenon, <1>2, <1>4, <1>5 DEF AgentExits
<1>6. CASE SignInOrOut \/ \E n, what : AgentLogsIn(n, what)
  BY Zenon, <1>3, <1>4, <1>6 DEF SignInOrOut, AgentLogsIn
<1>7. ASSUME NEW n \in Names, CmdRemove(n)
      PROVE  CacheInv'
  <2>1. \A q \in Runs : Bereft(q, n)
    BY Zenon, <1>1, <1>7, RemoveGoes
  <2>2. \A q \in Runs : Calm(q)
    BY Zenon, <2>1 DEF Bereft, Calm, Keeps
  <2> QED BY Zenon, <1>4, <1>7, <2>2 DEF CmdRemove
<1>8. ASSUME NEW o \in Options, CmdAuth(o)
      PROVE  CacheInv'
  <2>1. UNCHANGED <<image, stamp>> /\ files' = Initialized /\ \A q \in Runs : Calm(q)
    BY Zenon, <1>3, <1>8 DEF CmdAuth
  <2>2. CASE Mine = "absent"
    <3>1. Turns(0)
      BY Zenon, <1>8, <2>2 DEF CmdAuth, Mine
    <3>2. Mine' = "generated"
      BY Zenon, <1>1, <2>1, <2>2 DEF Initialized, Mine
    <3> QED BY Zenon, <2>1, <3>1, <3>2, TurnsCache
  <2>3. CASE Mine # "absent"
    <3>1. Turns(ctx) /\ Mine' = Mine
      BY Zenon, <1>8, <2>1, <2>3 DEF CmdAuth, Initialized, Mine
    <3> QED BY Zenon, <2>1, <3>1, TurnsCache
  <2> QED BY Zenon, <2>2, <2>3
<1>9. ASSUME NEW v, EditRecipe(v)
      PROVE  CacheInv'
  <2>1. /\ UNCHANGED <<image, stamp>> /\ Turns(v) /\ v # ctx /\ \A q \in Runs : Calm(q)
    BY Zenon, <1>2, <1>9 DEF EditRecipe
  <2>2. Mine' = IF v = 0 THEN "generated" ELSE "edited"
    BY Zenon, <1>1, <1>9 DEF EditRecipe, Mine
  <2> QED BY Zenon, <2>1, <2>2, TurnsCache
<1>10. ASSUME NEW f \in FileNames, DeleteFile(f) \/ (EditFile(f) /\ f # "Dockerfile")
       PROVE  CacheInv'
  <2>1. UNCHANGED <<ctx, image, stamp, mixed>> /\ \A q \in Runs : Calm(q)
    BY Zenon, <1>2, <1>10 DEF DeleteFile, EditFile
  <2>2. Mine' \in {Mine, "absent"}
    BY Zenon, <1>1, <1>10 DEF DeleteFile, EditFile, Mine
  <2> QED BY Zenon, <2>1, <2>2, CalmCache
<1>11. ASSUME NEW tag \in Tags, DeleteImage(tag) \/ OtherBuilds(tag)
       PROVE  CacheInv'
  <2>1. /\ UNCHANGED <<cli, files, ctx, stamp, mixed>>
        /\ \A t \in Tags : image'[t] \in {image[t]} \cup Strange
    BY Zenon, <1>1, <1>11 DEF DeleteImage, OtherBuilds, Strange
  <2>2. DirOk' /\ Mine' = Mine /\ OneBuilds' = OneBuilds
    BY Zenon, <2>1 DEF CacheInv, DirOk, Mine, OneBuilds
  <2>3. \A q \in Runs : cli[q].tag \in Tags
    BY Zenon, <1>1 DEF CliRecords
  <2>4. \A q \in Runs : ImageOk(q) => ImageOk(q)'
    BY Zenon, <2>1, <2>2, <2>3 DEF ImageOk
  <2>5. StampOk => StampOk'
    BY Zenon, <2>1 DEF StampOk, Tags
  <2> QED BY Zenon, <2>1, <2>2, <2>4, <2>5 DEF CacheInv
<1>12. CASE UserActs
  <2>1. "agent.yaml" # "Dockerfile" /\ "host-resources.yaml" # "Dockerfile"
    OBVIOUS
  <2>2. ASSUME NEW f \in {"agent.yaml", "host-resources.yaml"}, EditFile(f)
        PROVE  CacheInv'
    BY Zenon, <1>1, <1>10, <2>1, <2>2
  <2>3. ASSUME NEW f \in {"Dockerfile", "host-resources.yaml"}, DeleteFile(f)
        PROVE  CacheInv'
    BY Zenon, <1>1, <1>10, <2>3
  <2> QED
    BY Zenon, <1>6, <1>7, <1>8, <1>9, <1>11, <1>12, <2>2, <2>3 DEF UserActs
<1> QED BY Zenon, <1>5, <1>12

\* A docker command that outlived its own leaves no image but the built-in one unrecorded.
LEMMA LooseCache ==
  ASSUME RecipeInv, CacheInv, NEW x \in loose, LooseEnds(x)
  PROVE  CacheInv'
<1>1. /\ cli \in [Runs -> CliRecords] /\ image \in [Tags -> Images]
      /\ \A q \in Runs : cli[q].tag \in {"builtin", "local"}
  BY Zenon DEF RecipeInv, Sane, WorldTypes, CliRecords, Tags
<1>2. UNCHANGED <<cli, files, ctx, stamp>> /\ image' = [image EXCEPT ![x.tag] = x.of]
  BY Zenon DEF LooseEnds
<1>3. DirOk' /\ Mine' = Mine /\ OneBuilds' = OneBuilds
  BY Zenon, <1>2 DEF CacheInv, DirOk, Mine, OneBuilds
<1>4. ASSUME ~mixed'
      PROVE  (\A q \in Runs : ImageOk(q)') /\ OneBuilds' /\ StampOk'
  <2>1. ~mixed /\ x = [tag |-> "builtin", of |-> 0]
    BY Zenon, <1>4 DEF LooseEnds
  <2>2. (\A q \in Runs : ImageOk(q)) /\ OneBuilds /\ StampOk
    BY Zenon, <2>1 DEF CacheInv
  <2>3. x.tag = "builtin" /\ x.of = 0
    BY <2>1
  <2>4. image'["builtin"] = 0 /\ image'["local"] = image["local"]
    BY Zenon, <1>1, <1>2, <2>3 DEF Tags
  <2>5. ASSUME NEW q \in Runs
        PROVE  ImageOk(q)'
    <3>1. ASSUME cli[q].at = "stamp"
          PROVE  image'[cli[q].tag] \in {cli[q].print} \cup Strange
      <4>1. CASE cli[q].tag = "local"
        BY Zenon, <2>2, <2>4, <3>1, <4>1 DEF ImageOk
      <4>2. CASE cli[q].tag = "builtin"
        BY Zenon, <2>2, <2>4, <3>1, <4>2 DEF ImageOk
      <4> QED BY Zenon, <1>1, <4>1, <4>2
    <3> QED BY Zenon, <1>2, <1>3, <2>2, <3>1 DEF ImageOk
  <2>6. StampOk'
    BY Zenon, <1>2, <2>2, <2>4 DEF StampOk
  <2> QED BY Zenon, <1>3, <2>2, <2>5, <2>6
<1> QED BY Zenon, <1>3, <1>4 DEF CacheInv

\* CacheInv is inductive, given RecipeInv.
LEMMA CacheInductive ==
  ASSUME RecipeInv, CacheInv, RecipeStep
  PROVE  CacheInv'
<1>1. CASE UNCHANGED recipeVars
  <2>1. \A q \in Runs : Calm(q)
    BY Zenon, <1>1 DEF Calm, KeepsImage, recipeVars
  <2> QED BY Zenon, <1>1, <2>1, CalmCache DEF Mine, recipeVars
<1>2. CASE (\E n \in Names : AgentExits(n)) \/ UserActs \/ \E x \in loose : LooseEnds(x)
  BY Zenon, <1>2, UserCache, LooseCache
<1>3. ASSUME NEW r \in Runs, CommandTrouble(r) \/ KillCommand(r)
      PROVE  CacheInv'
  BY Zenon, <1>3, PlainCache, FailCache DEF CommandTrouble
<1>4. ASSUME NEW r \in Runs, CommandStep(r)
      PROVE  CacheInv'
  <2>1. CASE \E o \in IF Plain THEN Options ELSE HostedOptions : Start(r, o)
    <3>1. \E o \in Options \cup HostedOptions : Start(r, o)
      BY Zenon, <2>1
    <3> QED BY Zenon, <3>1, PlainCache
  <2>2. CASE \/ Preflight(r) \/ LookFor(r) \/ Scaffolded(r) \/ DockerReady(r)
             \/ \E auto_pull \in BOOLEAN : ImageAction(r, auto_pull)
             \/ RuntimeReady(r) \/ BrokerSettled(r) \/ NameTaken(r) \/ NextName(r)
             \/ Launch(r) \/ Finish(r)
             \/ \E good \in BOOLEAN : FollowEnds(r, good) \/ AttachEnds(r, good)
    BY Zenon, <2>2, PlainCache
  <2>3. CASE Overwrite(r) \/ Create(r) \/ Initialize(r)
    BY Zenon, <2>3, FilesCache
  <2>4. CASE \E command, detach \in BOOLEAN : Stage(r, command, detach)
    BY Zenon, <2>4, StageCache
  <2>5. CASE Pull(r) \/ Fingerprint(r) \/ Build(r) \/ Stamp(r)
    BY Zenon, <2>5, PullCache, PrintCache, BuildCache, StampCache
  <2> QED BY Zenon, <1>4, <2>1, <2>2, <2>3, <2>4, <2>5 DEF CommandStep
<1> QED BY Zenon, <1>1, <1>2, <1>3, <1>4 DEF RecipeStep

LEMMA CacheStarts ==
  ASSUME Init
  PROVE  CacheInv
<1>1. "Dockerfile" \in FileNames
  BY Zenon, TheFiles
<1>2. \A r \in Runs : cli[r].at = "idle"
  BY Zenon, NewCli DEF Init
<1>3. "idle" \notin Choosing /\ "idle" # "build" /\ "idle" # "stamp"
  BY Zenon DEF Choosing
<1>4. (\A r \in Runs : ImageOk(r)) /\ OneBuilds
  BY Zenon, <1>2, <1>3 DEF ImageOk, OneBuilds
<1>5. \/ Mine = "absent"
      \/ Mine = "edited" /\ ctx = 1
      \/ Mine = "generated" /\ ctx = 0
  BY Zenon, <1>1 DEF Init, Mine
<1>6. DirOk
  BY <1>5 DEF DirOk
<1>7. image["builtin"] \in {0, NoImage} /\ image["local"] \in {NoImage, stamp}
  BY Zenon DEF Init, Tags
<1>8. StampOk
  BY Zenon, <1>7 DEF StampOk, Strange
<1> QED BY Zenon, <1>4, <1>6, <1>8 DEF CacheInv

\* CacheHitCurrent: when is_recipe_image_cached says so, the image is of the directory's
\* present version, or another project's, for any number of commands, versions and edits
\* and whatever docker goes on building.
THEOREM CacheHitsCurrent == Spec => CacheHitCurrent
<1>1. ASSUME RecipeInv, CacheInv, [Next]_vars, NEW r \in Runs,
             cli[r].at = "print", cli'[r].at = "runtime", ~mixed'
      PROVE  image[cli[r].tag] \in {ctx, Foreign}
  <2>1. CommandStep(r) \/ CommandTrouble(r) \/ KillCommand(r)
    BY Zenon, <1>1, NextSteps, Mover
  <2>2. Fingerprint(r)
    BY Zenon, <1>1, <2>1, OwnStep
  <2>3. /\ cli \in [Runs -> CliRecords] /\ ctx \in Versions
        /\ cli[r].tag \in {"builtin", "local"}
    BY Zenon, <1>1 DEF RecipeInv, Sane, WorldTypes, Versions, CliRecords, Tags
  <2>4. Cached(r) /\ Mine # "absent"
    BY Zenon, <1>1, <2>2, <2>3, FingerprintGoes DEF Went, Mine
  <2>5. ~mixed /\ \A q \in Runs : cli[q].at # "stamp"
    BY Zenon, <1>1, <2>2 DEF Fingerprint
  <2>6. ImageOk(r) /\ StampOk
    BY Zenon, <1>1, <2>5 DEF CacheInv
  <2>7. cli[r].tag = "local" <=> ctx # 0
    BY Zenon, <1>1, <2>4, <2>6 DEF ImageOk, Choosing
  <2>8. image[cli[r].tag] # NoImage /\ stamp = ctx
    BY Zenon, <2>4 DEF Cached
  <2>9. CASE cli[r].tag = "builtin"
    BY Zenon, <2>6, <2>7, <2>8, <2>9 DEF StampOk, Strange
  <2>10. CASE cli[r].tag = "local"
    BY Zenon, <2>5, <2>6, <2>7, <2>8, <2>10 DEF StampOk, Strange
  <2> QED BY Zenon, <2>3, <2>9, <2>10
<1>2. RecipeInv /\ CacheInv /\ [Next]_vars => CacheInv'
  BY Zenon, NextSteps, CacheInductive
<1>3. Init => CacheInv
  BY Zenon, CacheStarts
<1>4. RecipeInv /\ CacheInv /\ [Next]_vars =>
        [\A r \in Runs : cli[r].at = "print" /\ cli'[r].at = "runtime"
                           => image[cli[r].tag] \in {ctx, Foreign} \/ mixed']_vars
  BY Zenon, <1>1
<1> QED BY <1>2, <1>3, <1>4, RecipeAlways, PTL DEF Spec, CacheHitCurrent
=============================================================================
