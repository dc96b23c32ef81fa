CONSTANTS
  r1 = r1
  r2 = r2
  None = None
  Request <- MCRequests
  Home <- MCOneUnit
  Units = 2
  Slots = 2
  NativeRecords = 4
  MaxOpen = 2
  MaxResets = 1
  Hasty = FALSE
SPECIFICATION HfFairSpec
INVARIANTS
  RepliedOnce
  TableIsRight
PROPERTIES
  HardfileGoesOn
