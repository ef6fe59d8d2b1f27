CONSTANTS
  Machine <- MCMachine
  First <- MCFirst
  Parts <- MCParts
  Still <- MCStill
  Sizes <- MCSizes
  MaxIcons = 3
SPECIFICATION FairSpec
INVARIANTS TextsAllocated RowsHaveDetails CachesCountedOnce
PROPERTIES ReloadEqualsFreshStart PagesIndependent WindowAroundThis FieldsFollowScan
CHECK_DEADLOCK FALSE
