SPECIFICATION Spec
CONSTANTS
  Nodes <- OneOfEachKind
  AllQtDepths = TRUE
  MaxBtDepth = 3
  MaxCost = 2
  FastModels = TRUE
  ContentBased = FALSE
  PartMayFail = FALSE
INVARIANTS Encoded PolicyKept BestLegal DidHonest BestIsLeast StoredFirst BinaryFirst
PROPERTIES Terminates ImplementsSearch
CHECK_DEADLOCK FALSE
