SPECIFICATION Spec
CONSTANTS
  Timeouts <- MCTimeouts
  DefaultTimeout = 1
  MaxTimeout = 2
  Codes = {0, 1}
  Chunk = 2
  MaxOutput = 3
  PipeSize = 3
  MaxWrites = 5
  Endless = TRUE
PROPERTIES
  Returns
CHECK_DEADLOCK FALSE
