--------------------------- MODULE MCRuleRequests ---------------------------
(* Instances of RuleRequests for TLC. *)
EXTENDS RuleRequests, TLC

CONSTANTS r1, r2, u1, u2, h1, a1

Symmetry == Permutations(Requests) \cup Permutations(Updaters)
=============================================================================
