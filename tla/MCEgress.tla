------------------------------ MODULE MCEgress ------------------------------
(* Egress for TLC: rule directories that exercise the loader, and answers   *)
(* that exercise the TTLs and the address filter.                           *)
EXTENDS Egress

Direct == [mode |-> "direct", private |-> FALSE]
DirectPrivate == [mode |-> "direct", private |-> TRUE]
ViaProxy == [mode |-> "proxy", private |-> TRUE]

Cond(refs, facts) == [refs |-> refs, facts |-> facts]
Rule(id, cond, action, priority, egress) ==
    [id |-> id, cond |-> cond, action |-> action, priority |-> priority,
     enrich |-> FALSE, egress |-> egress]
NoDefs == [n \in {} |-> Cond({}, {})]
File(defs, rules) == [ok |-> TRUE, version |-> "1", defs |-> defs, rules |-> rules]

\* Ties of priority within and across files; a rule that raises comes first.
Ordered ==
    << File(NoDefs, << Rule("r1", Cond({}, {Raises, "a"}), "block", {}, NoEgress),
                       Rule("r2", Cond({}, {"dns", "a"}), "allow", {}, Direct),
                       Rule("r3", Cond({}, {"connect", "b"}), "block", {}, NoEgress) >>),
       File(NoDefs, << Rule("r4", Cond({}, {"b"}), "allow", {}, ViaProxy),
                       Rule("r5", Cond({}, {"connect", "a"}), "allow", {200}, NoEgress) >>) >>

\* Definitions that share a definition, and a late rule with a high priority.
Defined ==
    << File([n \in {"n", "m"} |-> IF n = "n" THEN Cond({"m"}, {"x"}) ELSE Cond({}, {"b"})],
            << Rule("r1", Cond({"n", "m"}, {}), "allow", {}, DirectPrivate),
               Rule("r2", Cond({}, {"http"}), "block", {}, NoEgress),
               Rule("r3", Cond({"m"}, {"http"}), "block", {50}, NoEgress) >>) >>

\* A directory that must not load: an id is used twice.
TwoIds ==
    << File(NoDefs, << Rule("r1", Cond({}, {"a"}), "allow", {}, NoEgress) >>),
       File(NoDefs, << Rule("r1", Cond({}, {"b"}), "allow", {}, ViaProxy) >>) >>

AllDirs == {Ordered, Defined, TwoIds}

Record(addr, ttl) == [addr |-> addr, ttl |-> ttl]
AllAnswers ==
    { {Record("public4", 1)},
      {Record("public4", 3), Record("private4", 2)},
      {Record("private4", 0)},
      {Record("public6", 2), Record(Alias, 1)} }
=============================================================================
