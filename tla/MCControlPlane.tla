--------------------------- MODULE MCControlPlane ---------------------------
(* An instance of ControlPlane for TLC: a block of four /24 subnets of two  *)
(* addresses each, a foreign network with half of the third, and requests   *)
(* that name a subnet around the first two.                                 *)
EXTENDS ControlPlane, TLC

CONSTANTS n1, n2, c1, c2, h1, h2

Wide == {[lo |-> 0, hi |-> 3]}
Half == {[lo |-> 5, hi |-> 5]}

Symmetry == Permutations(ApiCalls) \cup Permutations(Ctrs)
=============================================================================
