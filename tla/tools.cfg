SPECIFICATION MCSpec
CONSTANTS
  Timeouts <- MCTimeouts
  DefaultTimeout = 1
  MaxTimeout = 2
  Codes = {0, 1}
  Chunk = 2
  MaxOutput = 3
  PipeSize = 3
  MaxWrites = 5
  Endless = FALSE
  Commands = 2
  MaxBuffer = 4
  MaxLine = 3
  Backends = {"ollama", "openai"}
  MaxCalls = 2
  MaxArrays = 2
  MaxCounter = 6
  MaxTools = 2
  MaxFile = 3
  MaxDepth = 1
  MaxMoves = 2
  MaxEntries = 4
  MaxRules = 3
  MaxDevices = 2
  MaxCommands = 2
INVARIANTS
  OutputComplete
  NothingLeftOpen
  OwnOutput
  FileAnswers
  RunsWhatWasAsked
  SentAsStored
  ReadAsConfigured
PROPERTIES
  TypedWhereAsked
  CallsReturn
  IdsFresh
CHECK_DEADLOCK FALSE
