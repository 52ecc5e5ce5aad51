---------------------------- MODULE MCRecipeRun ----------------------------
(* A bounded instance of the host's side for TLC.                          *)
EXTENDS RecipeRun
CONSTANTS t1, r1, r2

\* A request of each kind with the first run's token, and one with no token.
MCAsks == [kind : {"exec", "read", "other"}, token : {r1}, id : {t1}]
            \cup [kind : {"exec"}, token : {NoToken}, id : {t1}]

Plainly == [cmd |-> "run", force |-> FALSE, no_build |-> FALSE, detach |-> FALSE,
            keep |-> FALSE, args |-> "none", named |-> FALSE, mode |-> "auto",
            env |-> FALSE, recopy |-> FALSE]

\* An interactive run, and a batch run by name that overwrites the project's files;
\* with host resources, a detached run of a recipe that is set up.
MCOptions == {Plainly, [Plainly EXCEPT !.args = "prompt", !.force = TRUE, !.named = TRUE,
                                       !.mode = "mount"]}
MCHostedOptions == {[Plainly EXCEPT !.cmd = "recipe", !.detach = TRUE]}
=============================================================================
