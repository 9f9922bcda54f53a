SPECIFICATION Spec
CONSTANTS
  Backends = {"openai"}
  MaxCalls = 2
  MaxArrays = 2
  MaxCounter = 6
INVARIANTS
  AnswerHasText
CHECK_DEADLOCK FALSE
