CONSTANTS
  ndims = 2
  Grids <- Line
  Nodes = 2
  Inputs <- MCInputs
SPECIFICATION Spec
INVARIANTS
  TotalHalved
