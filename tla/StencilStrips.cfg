CONSTANTS
  ndims = 3
  MaxExtent = 5
  MaxCells = 8
  MaxRoot = 3
  Spare = {0, 2}
  Inputs <- MCInputs
SPECIFICATION Spec
INVARIANTS
  TypeOK
  StripsTile
  BundleExact
  BundlesConsecutive
  KeysAreRanks
  SnakeContinuity
