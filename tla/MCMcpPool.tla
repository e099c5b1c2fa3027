------------------------------ MODULE MCMcpPool ------------------------------
(* Instances of McpPool for TLC. *)
EXTENDS McpPool, TLC

Symmetry == Permutations(Key \ Pinned) \cup Permutations(Caller)
=============================================================================
