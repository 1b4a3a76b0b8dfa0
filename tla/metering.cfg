SPECIFICATION Spec
CONSTANTS
  u1 = u1
  u2 = u2
  Conns = {c1, c2}
  Rules = {1, 2}
  Users = {u1, u2}
  Owner <- MCOwner
  Ports = {p1, p2}
  Rates = {0, 1}
  Exact = 1
  Bytes = 2
  Faults = 1
  None = None
SYMMETRY Symmetry
INVARIANTS ChargedOnce NothingForgotten OwnTraffic DayIsColumns
