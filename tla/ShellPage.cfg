CONSTANTS
  Entries = {1, 2, 3}
  Fields <- MCFields
  Rescans = {1}
  Reloads = {2}
  Network = {2}
  Slow = {3}
  Budget = 1
  Depth = 2
  Slots = 3
  MaxChains = 2
SPECIFICATION FairSpec
INVARIANTS
  TimerDataAllocated
  PageFollowsTree
PROPERTIES
  OnlyShowingAddsReloads
  CloseRefines
  LeftTimersEnd
  CloseHonoured
