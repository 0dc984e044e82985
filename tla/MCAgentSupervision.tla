-------------------------- MODULE MCAgentSupervision --------------------------
(* A small instance of AgentSupervision. *)
EXTENDS AgentSupervision, TLC

CONSTANTS s1, u1
=============================================================================
