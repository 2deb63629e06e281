SPECIFICATION Spec
CONSTANTS
  Symbols <- CornerSymbols
  MaxSymbols = 4
  Types = {0, 16}
  MaxWork = 4
  MaxUnits = 2
  RawBytes = {0, 1, 3, 128}
  SliceHeader <- Header1
INVARIANTS NoStartCodeInside AllDelivered SameBins
PROPERTY ImplementsTransport
CHECK_DEADLOCK FALSE
