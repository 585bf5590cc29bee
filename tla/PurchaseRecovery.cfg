SPECIFICATION FairSpec
CONSTANTS
  Users = {u1}
  Tickets = {1, 2, 3}
  UnknownIds = {}
  TierOf <- OneTier
  Requests = {r1}
  Reaper = reaper
  None = None
  LockTTL = 1
  MaxTime = 2
  MaxFailures = 1
INVARIANT BuyableBounded
PROPERTIES EveryRequestEnds ExpiredLocksReturn
