CONSTANTS
  ndims = 2
  Stencils <- MCStencils
  Keys <- MCKeys
  Inputs <- SpareInputs
SPECIFICATION Spec
INVARIANTS
  NeverAborts
CHECK_DEADLOCK FALSE
