CONSTANTS
  Algorithms = {"HYPERPLANE"}
  Stencils <- MCStencils
  NodeSchemes = {"NODES_MIN", "NODES_MEAN", "NODES_MAX"}
  LogLevels = {}
  NumDims = {2}
  MaxChanges = 0
SPECIFICATION Spec
INVARIANTS
  SchemeHonoured
