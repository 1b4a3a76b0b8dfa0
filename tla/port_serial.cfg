SPECIFICATION SerialSpec
CONSTANTS
  Ports = {p1, p2}
  Reqs = {q1, q2, q3}
  EnableUdp = TRUE
  None = None
\* The requests of one life of the agent are over.
CHECK_DEADLOCK FALSE
PROPERTIES KeepsPromise Answered
