------------------------- MODULE MCDynamicLifecycle -------------------------
(* Instances of DynamicLifecycle for TLC. *)
EXTENDS DynamicLifecycle, TLC

CONSTANTS k1, k2, n1, n2, ip1, web, a1

MCRequest(c, ip) ==
  [container |-> c, src_ip |-> ip, flow |-> web, ttl |-> 1, policy |-> "managed"]

\* Two containers that use one address in turn, and the first one's requests.
MCTwoNames == (k1 :> n1) @@ (k2 :> n2)
MCRequests == {MCRequest(n1, ip1)}
=============================================================================
