CONSTANTS
  N = 4
  Placements <- CanonicalPlacements
  Schemes <- UniformAndMixed
  Garbage = {0, 2}
SPECIFICATION FairSpec
INVARIANTS
  TypeOK
  CollectivesMatch
  SizesKnown
PROPERTIES
  Implements
  Terminates
CHECK_DEADLOCK FALSE
