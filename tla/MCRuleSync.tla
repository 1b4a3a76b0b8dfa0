----------------------------- MODULE MCRuleSync -----------------------------
(* Instances of RuleSync for TLC. *)
EXTENDS RuleSync, TLC

CONSTANTS c1, c2, tcp, tls

\* c1 is a TLS chain, c2, where there is one, a TCP chain.
MCProtoOf == [c \in Chains |-> IF c = c1 THEN tls ELSE tcp]

\* Bounds the histories: at most one kind of disturbance since a clean registration,
\* and a worker that has read one rule.
OneCause == Cardinality(relay) <= 1 /\ \A n \in Nodes : Cardinality(causes[n]) <= 1

Symmetry == Permutations(Ports) \cup Permutations(Handlers) \cup Permutations(RuleIds)
=============================================================================
