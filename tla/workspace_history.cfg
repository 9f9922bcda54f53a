SPECIFICATION Spec
CONSTANTS
  Sections = {"Preferences", "Notes"}
  Notes = "Notes"
  Keys = {"k1", "k2"}
  Values = {"v1", "long", "list"}
  Garbled = "garbled"
  Full = {"long"}
  More <- MCMore
  Cut <- MCCut
  Label <- MCLabel
  Days <- MCDays
  Template <- MCTemplate
  Edited <- MCEdited
  MaxLines = 9
  Migrated = 1
  MaxBoots = 2
  MaxTurns = 1
  MaxStores = 1
  MaxFaults = 1
PROPERTIES
  HistoryIsAppendOnly
CHECK_DEADLOCK FALSE
