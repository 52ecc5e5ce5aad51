-------------------------- MODULE MCAgentSessions --------------------------
(* An instance of AgentSessions for TLC: every container has a name of its *)
(* own, which makes the containers interchangeable.                        *)
EXTENDS AgentSessions, TLC

CONSTANTS k1, k2, ip1, ip2, t1, t2, a1

MCNames == [id \in Ids |-> id]

Symmetry == Permutations(Tokens) \cup Permutations(Ips) \cup Permutations(Ids)
=============================================================================
