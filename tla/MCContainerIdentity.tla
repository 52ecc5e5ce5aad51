------------------------ MODULE MCContainerIdentity ------------------------
(* An instance of ContainerIdentity for TLC. *)
EXTENDS ContainerIdentity, TLC

CONSTANTS k1, k2, n1, ip1, ip2

\* Two containers that use the same name one after the other.
MCOneName == (k1 :> n1) @@ (k2 :> n1)
=============================================================================
