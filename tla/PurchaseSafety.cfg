SPECIFICATION Spec
CONSTANTS
  Users = {u1, u2}
  Tickets = {1, 2}
  UnknownIds = {9}
  TierOf <- OneTier
  Requests = {r1, r2}
  Reaper = reaper
  None = None
  LockTTL = 1
  MaxTime = 2
  MaxFailures = 1
SYMMETRY Symmetry
INVARIANTS TypeOK RowLocksOwned RequestsNeverDeadlock NoDoubleSale SoldIffOrdered ValidationHolds LiveLocksBounded
PROPERTIES LiveLocksAreSafe LedgerSpec
