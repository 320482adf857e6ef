CONSTANTS
  ndims = 2
  MaxExtent = 2
  MaxCells = 4
  Spare = {0}
  Inputs <- MCInputs
  HeapWords = {0}
SPECIFICATION Spec
INVARIANTS
  LeafReadsAnExtent
