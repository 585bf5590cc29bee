SPECIFICATION Spec
CONSTANTS
  VenueIds = {1, 2, 3, 4}
  EventIds = {1}
  TierIds = {1, 2, 3, 4}
  Names = {n1}
  Sizes = {1, 2}
  Requests = {r1, r2, r3}
  None = None
SYMMETRY Symmetry
INVARIANTS TypeOK AllocationBounded InventoryBounded OlderFirst NamesBounded
