CONSTANTS
  p1 = p1
  p2 = p2
  Packet <- MCOnePacket
  Volume <- MCOneVolume
  BadPacket <- MCNone
  Units = 1
  MaxStarted = 2
  CmdWrap = 5
  MaxHeld = 0
  NotifyMax = 0
  NativeRecords = 1
  WordIsPointer = TRUE
  Restarts = {"reboot"}
  MaxRestarts = 1
SPECIFICATION Spec
PROPERTIES
  NoMessageBeforeStartup
