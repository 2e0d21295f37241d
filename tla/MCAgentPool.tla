---------------------------- MODULE MCAgentPool ----------------------------
(* Instances of AgentPool for TLC. *)
EXTENDS AgentPool
=============================================================================
