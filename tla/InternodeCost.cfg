CONSTANTS
  ndims = 2
  Grids <- LineAndSquare
  Nodes = 3
  Inputs <- MCInputs
SPECIFICATION FairSpec
INVARIANTS
  TypeOK
  CollectivesMatch
  TotalExact
  MaxExact
PROPERTIES
  Terminates
CHECK_DEADLOCK FALSE
