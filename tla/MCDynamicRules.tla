--------------------------- MODULE MCDynamicRules ---------------------------
(* Instances of DynamicRules for TLC. *)
EXTENDS DynamicRules, TLC

CONSTANTS c1, c2, ip1, ip2, web, ssh, i1, i2, f1

MCRequest(c, ip, f, p, ttl) ==
  [container |-> c, src_ip |-> ip, flow |-> f, ttl |-> ttl, policy |-> p]

\* Two rules of one container, one of them the operator's without a deadline,
\* and a rule of a second container.
MCRequests ==
  {MCRequest(c1, ip1, web, "managed", 1),
   MCRequest(c1, ip1, ssh, "operator", NoDeadline),
   MCRequest(c2, ip2, web, "managed", 1)}

\* The rules of the first container alone.
MCOneContainer == {q \in MCRequests : q.container = c1}

Symmetry == Permutations(Inserters)
=============================================================================
