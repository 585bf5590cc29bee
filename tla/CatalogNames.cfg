SPECIFICATION Spec
CONSTANTS
  VenueIds = {1, 2, 3}
  EventIds = {1}
  TierIds = {1, 2, 3}
  Names = {n1}
  Sizes = {1, 2}
  Requests = {r1, r2}
  None = None
SYMMETRY Symmetry
INVARIANT VenueNamesUnique
