SPECIFICATION Spec
CONSTANTS
  Nodes = {n1}
  Ports = {p1, p2}
  c1 = c1
  c2 = c2
  tcp = tcp
  tls = tls
  Hosts = {a, b}
  Chains = {c1, c2}
  Protos = {tcp, tls}
  ProtoOf <- MCProtoOf
  RuleIds = {r1}
  Handlers = {h1}
  Direct = Direct
  None = None
\* With every node deleted nothing more can happen.
CHECK_DEADLOCK FALSE
CONSTRAINT OneCause
SYMMETRY Symmetry
INVARIANT Served
