--------------------------- MODULE MCAgentInstance ---------------------------
(* AgentInstance on small instances. *)
EXTENDS AgentInstance, TLC

Symmetric == Permutations(Operators) \cup Permutations(Procs)
=============================================================================
