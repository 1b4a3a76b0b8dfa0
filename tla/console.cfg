SPECIFICATION MCSpec
CONSTANTS
  None = None
  Procs = {q1, q2}
  MaxId = 2
  Names = {a, b}
  PlanNames = {x}
  Tabs = {t1, t2}
  Uids = {1}
  Life = 1
  MaxAsks = 1
  MaxClock = 2
  Nodes = {n1}
  ChainRows = {1, 2}
  RoleHeld = {n1}
  RuleIds = {r1}
  Root = root
  Clients = {u1}
  Direct = direct
  MaxChain = 2
  Ports = {p1}
  v4 = v4
  v6 = v6
  tcp = tcp
  tls = tls
  Ips = {v4, v6}
  Protos = {tcp, tls}
  Offers <- MCOffers
  Admin = admin
  Users = {u1}
  GostPorts = {1}
  Confs = {g1, g2}
  Askers = {h1, h2}
  MaxCarried = 1
  Modes = {"server", "serverOnly", "worker", "agent"}
  MaxInflight = 2
CONSTRAINT OneReason
INVARIANTS
  OneRowPerId NamesUnique RoleKept
  AdminSide
  GrantsExist RuleRouted
  NoStray ChainServed Owned
  GostServes GostChargedOnce
  CutOnlyLate
  NothingMisread NoUnknownAction
