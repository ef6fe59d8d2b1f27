CONSTANTS
  Entries <- MCEntries
  VersionFile = "version"
  Cleaned <- MCCleaned
  Faults = {"http", "net", "partial", "disk"}
  MaxVersion = 2
SPECIFICATION FairSpec
INVARIANTS
  LoopOutlivesReplies
PROPERTIES
  CatalogSpec
  StartupSettles
  QuitEnds
