SPECIFICATION FairSpec
CONSTANTS
  Capacity = 8
  MaxMessages = 9
  MaxIter = 3
  MaxCalls = 3
  MaxTurns = 3
INVARIANTS
  NoOverflow
  SystemFirst
  CallsAnswered
  OrphansOnlyAtHead
  QuestionKept
PROPERTIES
  RollbackExact
  TurnEnds
CHECK_DEADLOCK FALSE
