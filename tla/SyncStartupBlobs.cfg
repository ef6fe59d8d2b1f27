CONSTANTS
  Entries <- MCEntries
  VersionFile = "version"
  Cleaned <- MCCleaned
  Faults = {}
  MaxVersion = 1
SPECIFICATION Spec
INVARIANT StartupSynchronizes
