CONSTANTS
  Chip = {"A"}
  Byte = 2
  ResetLatch = 1
  SdrBits = 2
  DIV10 = 2
  HsyncTime = 3
  Writes <- MCWrites
  MaskVals <- MCMask
  Flags = {"alarm"}
  TodByte = 2
  Low = 4
  TodHack = TRUE
  HackSlack = 2
  Size = 2
  GiveUp = 2
  MaxKeys = 4
  MaxKbResets = 1
SPECIFICATION MCSpec
CHECK_DEADLOCK FALSE
INVARIANTS
  PartsTypeOK
  TimersKeptUp
  KeysConserved
PROPERTIES
  ImplementsTicks
  TodIsAtomic
  KeysGetThrough
