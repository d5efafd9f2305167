---------------------------- MODULE MCAgentKeys ----------------------------
(* Instances of AgentKeys for TLC. *)
EXTENDS AgentKeys
=============================================================================
