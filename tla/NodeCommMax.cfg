CONSTANTS
  N = 4
  Placements <- UnevenPlacements
  Schemes <- OnlyMax
  Garbage = {0, 2}
SPECIFICATION Spec
INVARIANTS
  MaxIsMaximum
