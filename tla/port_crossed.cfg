SPECIFICATION Spec
CONSTANTS
  Ports = {p1}
  Reqs = {q1, q2, q3, q4}
  EnableUdp = TRUE
  None = None
\* The requests of one life of the agent are over.
CHECK_DEADLOCK FALSE
SYMMETRY RequestSymmetry
INVARIANTS EntryIsLive NoLeak NoUdpLeak
