CONSTANTS
  Entries <- MCEntries
  VersionFile = "version"
  Cleaned <- MCCleaned
  Faults = {}
  PromptAbort = TRUE
  MaxVersion = 1
SPECIFICATION Spec
INVARIANT EveryTickedEntrySynced
