CONSTANTS
  Algorithms = {"KD_TREE", "OTHER"}
  Stencils <- MCStencils
  NodeSchemes = {"NODES_MIN"}
  LogLevels <- MCLevels
  NumDims = {2, 4}
  MaxChanges = 2
SPECIFICATION Spec
INVARIANTS
  TypeOK
  RegisteredOnce
  StencilWhole
  NearestNeighbors
  EvaluatesReordered
PROPERTIES
  LevelKept
