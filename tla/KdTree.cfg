CONSTANTS
  ndims = 3
  MaxExtent = 5
  MaxCells = 12
  Spare = {0, 3}
  Inputs <- MCInputs
  HeapWords = {0, 1}
SPECIFICATION Spec
INVARIANTS
  TypeOK
  SubgridExact
  PlacedInGrid
  SubgridsConsecutive
  KeysAreRanks
PROPERTIES
  BoxesShrink
