CONSTANTS
  ndims = 2
  Stencils <- MCStencils
  Keys <- MCKeys
  Inputs <- MCInputs
SPECIFICATION FairSpec
INVARIANTS
  TypeOK
  OnItsCell
  LeftOver
PROPERTIES
  Implements
  Completes
CHECK_DEADLOCK FALSE
