SPECIFICATION Spec
CONSTANTS
  Users = {u1, u2}
  Tickets = {1, 2}
  UnknownIds = {}
  TierOf <- OneTier
  Requests = {r1, r2}
  Reaper = reaper
  None = None
  LockTTL = 1
  MaxTime = 2
  MaxFailures = 0
SYMMETRY Symmetry
INVARIANT NoDeadlock
