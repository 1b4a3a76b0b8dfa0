SPECIFICATION PortSpec
CONSTANTS
  Peers = {k1}
  Ids = {1, 2}
  Targets <- MCTargets
  Target <- Four
  Wires <- MCWires
  Proxy = proxy
  None = None
\* A forwarder that is closed does nothing more.
CHECK_DEADLOCK FALSE
INVARIANTS OpenIsListed CloseReleases
PROPERTIES IdleExpires CloseReturns
