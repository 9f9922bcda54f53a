SPECIFICATION Spec
CONSTANTS
  Present = {"have", "var"}
  MaxSkills = 2
  MaxRequires = 2
  Sets <- MCSets
  Directories <- MCDirectories
  MaxIterations = 1
  MaxLines = 1
  MaxSignals = 1
  MaxEdits = 0
PROPERTIES
  SigtermStopsDaemon
CHECK_DEADLOCK FALSE
