----------------------------- MODULE RulePolicy -----------------------------
(***************************************************************************)
(* The rule engine: how a directory of rule files becomes the rule set in  *)
(* force, and how a request is judged against a rule set.                  *)
(*                                                                         *)
(* A condition is a CEL expression in the code.  Here it is a conjunction: *)
(* the facts it demands of the request and the `$name` definitions it      *)
(* refers to.  Two facts stand for expressions that go wrong: Raises is    *)
(* one whose evaluation raises an error (or does not yield a boolean) and  *)
(* Garbled is one that does not compile.  Byte limits, YAML and CEL syntax *)
(* are outside the model: a file that breaks them is one with ok = FALSE.  *)
(***************************************************************************)
EXTENDS Naturals, Sequences, FiniteSetsExt

CONSTANTS Dirs,      \* the contents the rules directory can have
          MaxFiles,  \* MAX_RULE_FILES
          MaxRules,  \* MAX_RULES
          MaxDepth   \* MAX_DEFINITION_DEPTH

VARIABLES disk,            \* the rule files as they are now, in name order
          prepared_files,  \* the files a reload in progress has read, if there is one
          rule_set,        \* the rule set in force
          source           \* history: the files that rule set was loaded from

policyVars == <<disk, prepared_files, rule_set, source>>

Raises == "raises"
Garbled == "garbled"
NoEgress == [mode |-> "none", private |-> FALSE]
DefaultPriority == 100

-----------------------------------------------------------------------------
(* Loading. *)

\* validate_rule_id and validate_rule_semantics.
ValidSpec(spec) ==
    /\ spec.id # "bad id"
    /\ spec.action # "enrich"
    /\ ~spec.enrich
    /\ spec.egress # NoEgress => spec.action = "allow"
    /\ spec.egress.mode # "intercept"

\* What a step of the expansion may not do: go too deep, use a name that the
\* file does not define, or use one that is being expanded already.
Expandable(refs, defs, stack) ==
    /\ Len(stack) < MaxDepth
    /\ refs \subseteq DOMAIN defs \ Range(stack)

\* expand_recursive: the facts of a condition with every definition replaced
\* by its own expansion.  The stack of names under expansion determines what
\* is being expanded: the definition of its last name, or the condition.
Expand(cond, defs) ==
    LET expand[stack \in Seq(DOMAIN defs)] ==
            LET e == IF stack = <<>> THEN cond ELSE defs[stack[Len(stack)]]
                inner(n) == expand[Append(stack, n)]
                ok == /\ Expandable(e.refs, defs, stack)
                      /\ \A n \in e.refs : inner(n).ok
            IN  [ok |-> ok,
                 facts |-> IF ok THEN e.facts \cup UNION {inner(n).facts : n \in e.refs}
                                 ELSE {}]
    IN  expand[<<>>]

\* The rule the engine keeps of a specification.
CompiledRule(spec, file) ==
    [id |-> spec.id, facts |-> Expand(spec.cond, file.defs).facts, action |-> spec.action,
     priority |-> IF spec.priority = {} THEN DefaultPriority
                                        ELSE CHOOSE p \in spec.priority : TRUE,
     egress |-> spec.egress]

\* CEL compilation of the expanded condition.
Compiles(spec, file) ==
    LET e == Expand(spec.cond, file.defs) IN e.ok /\ Garbled \notin e.facts

DistinctIds(specs) ==
    \A i, j \in DOMAIN specs : specs[i].id = specs[j].id => i = j

\* What load_rules requires of each file: that it can be read and parsed, the
\* version it knows, and rules that are valid and compile.
ValidFile(file) ==
    /\ file.ok
    /\ file.version = "1"
    /\ \A i \in DOMAIN file.rules :
          ValidSpec(file.rules[i]) /\ Compiles(file.rules[i], file)

\* The sequences f(k), one after the other in the order of the numbers k.
Chain(f(_), numbers) == MapThenFoldSet(LAMBDA s, t : s \o t, <<>>, f, Min, numbers)

AllSpecs(dir) == Chain(LAMBDA i : dir[i].rules, DOMAIN dir)

\* discover_rule_files bounds the number of files; the loop of load_rules
\* refuses the whole directory on the first thing that is wrong.
Loadable(dir) ==
    /\ Len(dir) <= MaxFiles
    /\ \A i \in DOMAIN dir : ValidFile(dir[i])
    /\ DistinctIds(AllSpecs(dir))
    /\ Len(AllSpecs(dir)) <= MaxRules

\* Mutant: rules of one priority are turned around.
SortUnstable(rules) ==
    LET backwards == [i \in DOMAIN rules |-> rules[Len(rules) + 1 - i]]
    IN  Chain(LAMBDA p : SelectSeq(backwards, LAMBDA r : r.priority = p),
              {rules[i].priority : i \in DOMAIN rules})

\* sort_by_key is stable: rules of one priority keep the order of the files.
SortByPriority(rules) ==
    Chain(LAMBDA p : SelectSeq(rules, LAMBDA r : r.priority = p),
          {rules[i].priority : i \in DOMAIN rules})

LoadRules(dir) ==
    SortByPriority(Chain(LAMBDA i : [j \in DOMAIN dir[i].rules |->
                                        CompiledRule(dir[i].rules[j], dir[i])],
                         DOMAIN dir))

-----------------------------------------------------------------------------
(* Evaluation. *)

\* The facts of a request: who asks, for which host, through which service.
Facts(ctx) == {ctx.via, ctx.host, ctx.agent}

\* One rule's program run on a request.  CEL is a library.
Execute(facts, ctx) ==
    IF Raises \in facts THEN "error"
    ELSE IF facts \subseteq Facts(ctx) THEN "true" ELSE "false"

\* evaluate_snapshot: the first rule that evaluates to true decides; a rule
\* that raises is passed over; without a match the request is blocked.
EvaluateSnapshot(rules, ctx) ==
    LET hits == {i \in DOMAIN rules : Execute(rules[i].facts, ctx) = "true"}
        first == rules[Min(hits)]
    IN  IF hits = {} THEN [allow |-> FALSE, matched |-> {}]
        ELSE [allow |-> first.action = "allow", matched |-> {first.id}]

\* evaluate_snapshot_with_egress: the verdict with the egress settings of the
\* rule of that id.
EvaluateWithEgress(rules, ctx) ==
    LET verdict == EvaluateSnapshot(rules, ctx)
        named == {i \in DOMAIN rules : rules[i].id \in verdict.matched}
    IN  [allow |-> verdict.allow,
         egress |-> IF named = {} THEN NoEgress ELSE rules[Min(named)].egress]

\* RuleEngine::load at start-up, which fails unless the directory loads.
PolicyInit ==
    /\ disk \in {d \in Dirs : Loadable(d)}
    /\ prepared_files = {}
    /\ rule_set = LoadRules(disk)
    /\ source = disk

\* The operator (or an approved request) changes the files.
EditRules(dir) ==
    /\ dir # disk
    /\ disk' = dir
    /\ UNCHANGED <<prepared_files, rule_set, source>>

\* prepare_reload: the files are read and compiled; when they do not load the
\* reload ends here.
PrepareReload ==
    /\ prepared_files = {}
    /\ Loadable(disk)
    /\ prepared_files' = {disk}
    /\ UNCHANGED <<disk, rule_set, source>>

\* commit_reload: what was prepared replaces the rule set in force.
CommitReload ==
    \E dir \in prepared_files :
        /\ rule_set' = LoadRules(dir)
        /\ source' = dir
        /\ prepared_files' = {}
        /\ UNCHANGED disk
=============================================================================
