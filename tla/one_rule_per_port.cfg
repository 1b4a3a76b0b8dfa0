SPECIFICATION CalmSpec
CONSTANTS
  Nodes = {n1}
  Ports = {p1, p2}
  c1 = c1
  c2 = c2
  tcp = tcp
  tls = tls
  Hosts = {a}
  Chains = {c1}
  Protos = {tcp, tls}
  ProtoOf <- MCProtoOf
  RuleIds = {r1, r2, r3}
  Handlers = {h1}
  Direct = Direct
  None = None
INVARIANT OneRulePerPort
