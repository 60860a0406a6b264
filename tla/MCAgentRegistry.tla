-------------------------- MODULE MCAgentRegistry --------------------------
(* A small instance of AgentRegistry for TLC: two spawns that want the same *)
(* path, one agent without a path.                                          *)
EXTENDS AgentRegistry

CONSTANTS left, right, plain, p

MCPathOf == [t \in Agents |-> IF t = plain THEN NoPath ELSE p]
=============================================================================
