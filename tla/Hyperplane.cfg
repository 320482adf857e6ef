CONSTANTS
  ndims = 3
  MaxExtent = 8
  MaxCells = 16
  Spare = {0, 3}
  Inputs <- MCInputs
SPECIFICATION Spec
INVARIANTS
  TypeOK
  CoordinatesAssigned
  PartitionsWhole
  GridPointsMatch
  KeysAreRanks
  PartitionsCompact
PROPERTIES
  SubgridsShrink
