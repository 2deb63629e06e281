SPECIFICATION Spec
CONSTANTS
  Lists <- TwoBatches
  Leaves = 2
  MaxStarts = 2
INVARIANTS TakenWhole CostsMatchSamples
CHECK_DEADLOCK FALSE
