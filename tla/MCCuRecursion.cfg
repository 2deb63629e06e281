SPECIFICATION Spec
CONSTANTS
  Ctu <- Ctu4x2
  Offered <- OfferedIn4x2
INVARIANTS ReuseSound ReaderFindsTree SelectedCompleted
CHECK_DEADLOCK FALSE
