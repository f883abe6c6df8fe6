------------------------- MODULE MCAgentConnection -------------------------
(* AgentConnection for TLC: two requests, messages longer than the buffers. *)
EXTENDS AgentConnection
============================================================================
