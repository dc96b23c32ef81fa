CONSTANTS
  p1 = p1
  p2 = p2
  Packet <- MCTwoPackets
  Volume <- MCTwoVolume
  BadPacket <- MCBad
  Units = 1
  MaxStarted = 2
  CmdWrap = 6
  MaxHeld = 4
  NotifyMax = 0
  NativeRecords = 1
  WordIsPointer = TRUE
  Restarts = {}
  MaxRestarts = 0
  na = na
  nb = nb
  Name <- MCName
  Ptr = {1, 2, 3}
  MaxFiles = 2
  LockId = {1, 2}
  KeyId = {1}
  MaxRefs = 2
  MaxTotal = 3
  ExKeys = 1
  CacheMax = 0
  Beyond = {}
SYMMETRY MCSafetySymmetry
SPECIFICATION MCSpec
INVARIANTS
  TypeOK
  LocksConserved
  PacketsInPlace
  CountsAddUp
  TreeIsSound
