SPECIFICATION Spec
CONSTANTS
  Capacity = 128
  MaxMessages = 20
  MaxIter = 10
  MaxCalls = 2
  MaxTurns = 3
INVARIANTS
  NoSplitPair
CHECK_DEADLOCK FALSE
