CONSTANTS
  p1 = p1
  p2 = p2
  Packet <- MCTwoPackets
  Volume <- MCTwoVolume
  BadPacket <- MCNone
  Units = 1
  MaxStarted = 1
  CmdWrap = 6
  MaxHeld = 0
  NotifyMax = 0
  NativeRecords = 1
  WordIsPointer = TRUE
  Restarts = {}
  MaxRestarts = 0
SPECIFICATION FairSpec
CHECK_DEADLOCK FALSE
PROPERTIES
  PacketsReplied
