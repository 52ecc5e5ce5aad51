--------------------------- MODULE MCPolicyReload ---------------------------
(* An instance of PolicyReload for TLC. *)
EXTENDS PolicyReload

CONSTANTS f1, u1, u2, h1, h2
=============================================================================
