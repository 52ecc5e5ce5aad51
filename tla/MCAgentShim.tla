---------------------------- MODULE MCAgentShim ----------------------------
(* TLC instance of AgentShim.                                              *)
EXTENDS AgentShim

=============================================================================
