CONSTANTS
  Entries <- MCEntries
  VersionFile = "version"
  Cleaned <- MCCleaned
  Faults = {"http", "net", "disk"}
  MaxVersion = 2
SPECIFICATION Spec
INVARIANTS
  FirstRunIsComplete
PROPERTIES
  GoodDataSurvive
