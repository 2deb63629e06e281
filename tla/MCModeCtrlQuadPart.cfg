SPECIFICATION Spec
CONSTANTS
  Nodes <- ContentNodes
  AllQtDepths = FALSE
  MaxBtDepth = 3
  MaxCost = 2
  FastModels = TRUE
  ContentBased = TRUE
  PartMayFail = FALSE
INVARIANT QuadPartCoded
CHECK_DEADLOCK FALSE
