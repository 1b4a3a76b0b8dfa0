--------------------------- MODULE MCTrafficPeriod ---------------------------
(* Instances of TrafficPeriod for TLC. *)
EXTENDS TrafficPeriod, TLC

CONSTANTS monthly, quarterly

MCMonths == [p \in Plans |-> IF p = monthly THEN 1 ELSE 3]

MCQuota == [p \in Plans |-> 1]

\* Hour h of a day of month m of year 1.
At(m, d, h) == Midnight(MonthStart(12 + m) + d - 1) + h

Months3 == {At(0, 10, 12), At(1, 10, 20), At(2, 12, 12)}

Symmetry == Permutations(Workers)
=============================================================================
