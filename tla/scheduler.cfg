SPECIFICATION FairSpec
CONSTANTS
  MaxTasks = 2
  MaxLag = 1
  MaxInt = 524287
  Numbers = {1, 2}
  Asked <- MCAsked
INVARIANTS
  TypeOK
  ForksOnlyRunnable
  IdsNeverReused
  NothingRunsAfterFree
PROPERTIES
  LaunchesSpaced
  TasksRecur
  DestroyReturns
