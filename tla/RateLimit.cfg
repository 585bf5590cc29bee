SPECIFICATION Spec
CONSTANTS
  Clients = {c1, c2}
  Keys = {c1, c2}
  Address <- OwnAddress
  Calls = {k1, k2, k3, k4}
  None = None
  Limit = 2
  Window = 3
  MaxDelay = 1
  MaxTime = 5
SYMMETRY Symmetry
CHECK_DEADLOCK FALSE
INVARIANTS TypeOK RollingLimit ClientIsolation
PROPERTY BlockedWithCause
