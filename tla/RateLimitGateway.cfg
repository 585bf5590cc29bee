SPECIFICATION Spec
CONSTANTS
  Clients = {c1, c2}
  Keys <- GatewayKeys
  Address <- GatewayAddress
  Calls = {k1, k2, k3}
  None = None
  Limit = 2
  Window = 3
  MaxDelay = 1
  MaxTime = 3
SYMMETRY Symmetry
CHECK_DEADLOCK FALSE
INVARIANT ClientIsolation
