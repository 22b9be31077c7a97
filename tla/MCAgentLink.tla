----------------------------- MODULE MCAgentLink -----------------------------
(* Instances of AgentLink for TLC. *)
EXTENDS AgentLink, TLC

RequestSymmetry == Permutations(Request)
===============================================================================
