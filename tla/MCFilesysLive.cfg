CONSTANTS
  p1 = p1
  p2 = p2
  Packet <- MCOnePacket
  Volume <- MCOneVolume
  BadPacket <- MCNone
  Units = 2
  MaxStarted = 2
  CmdWrap = 4
  MaxHeld = 0
  NotifyMax = 1
  NativeRecords = 2
  WordIsPointer = TRUE
  Restarts = {"reset", "reboot"}
  MaxRestarts = 1
SPECIFICATION FairSpec
PROPERTIES
  PacketsAnswered
  ResetsComplete
