CONSTANTS
  Files <- MCFiles
  Weight <- MCWeight
  ModuleEntries <- MCModuleEntries
  Table <- MCTable
  Found <- MCFound
  Searches <- MCSearches
  CommandLines <- MCCommandLines
  Broken <- MCBroken
  MaxStarts = 2
  MaxScans = 2
SPECIFICATION Spec
CHECK_DEADLOCK FALSE
INVARIANTS TickedReported TablesClose ReportsFiltered TopicPrintsSections
