---------------------------- MODULE MCAgentPorts ----------------------------
(* Instances of AgentPorts for TLC. *)
EXTENDS AgentPorts, TLC

RequestSymmetry == Permutations(Reqs)

Symmetry == RequestSymmetry \cup Permutations(Ports)

=============================================================================
