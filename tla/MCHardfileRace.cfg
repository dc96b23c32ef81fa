CONSTANTS
  r1 = r1
  r2 = r2
  None = None
  Request <- MCRequests
  Home <- MCOneUnit
  Units = 1
  Slots = 2
  NativeRecords = 4
  MaxOpen = 1
  MaxResets = 0
  Hasty = FALSE
SPECIFICATION HfSpec
INVARIANTS
  ProcessingIsTemp
