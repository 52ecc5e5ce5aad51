------------------------- MODULE MCDaemonRuntime -------------------------
(* TLC instance of DaemonRuntime: two container names on one host, two CLI *)
(* processes and two projects.                                             *)
EXTENDS DaemonRuntime, TLC

Symmetry == Permutations(Clis) \cup Permutations(Projects)

=============================================================================
