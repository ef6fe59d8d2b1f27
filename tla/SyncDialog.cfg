CONSTANTS
  Entries <- MCEntries
  VersionFile = "version"
  Cleaned <- MCCleaned
  Faults = {"http", "net", "partial", "disk"}
  PromptAbort = TRUE
  MaxVersion = 2
SPECIFICATION FairSpec
INVARIANTS
  CleanSyncIsFresh
  NothingAfterFailure
  UploadAnswerReplaced
PROPERTIES
  OptOutHonoured
  CatalogSpec
  SyncEnds
