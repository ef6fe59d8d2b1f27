CONSTANTS
  SocketLists <- MCSocketLists
  SpdLists <- MCSpdLists
SPECIFICATION Spec
INVARIANTS StableMatch GivesUpNever
CHECK_DEADLOCK FALSE
