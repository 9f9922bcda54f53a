SPECIFICATION Spec
CONSTANTS
  Present = {"have", "var"}
  MaxSkills = 2
  MaxRequires = 2
  Sets <- MCSets
  Directories <- MCDirectories
  MaxIterations = 2
  MaxLines = 2
  MaxSignals = 2
  MaxEdits = 1
INVARIANTS
  SpinnerOffAtPrompt
  LeavesWhenAsked
  LeavesClean
  SkillsKnown
PROPERTIES
  SignalHeard
CHECK_DEADLOCK FALSE
