----------------------------- MODULE MCMetering -----------------------------
(* Instances of Metering for TLC. *)
EXTENDS Metering, TLC

CONSTANTS u1, u2

\* Rule 1 is the first user's, the others the second's.
MCOwner == [r \in Rules |-> IF r = 1 THEN u1 ELSE u2]

Symmetry == Permutations(Conns) \cup Permutations(Ports)
=============================================================================
