CONSTANTS
  CpuCores = 2
  CpuThreads = 3
  Requests <- MCRequests
  MaxCalls = 2
SPECIFICATION FairSpec
INVARIANTS
  CountsInTime
  StopOutlivesThreads
  ResultIsCallsInTime
PROPERTY Returns
CHECK_DEADLOCK FALSE
