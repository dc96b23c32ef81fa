CONSTANTS
  BufferSize = 2
  Uses = 1
  DmaSlots = 2
  LeadOut = 2
  Discs = {"data", "none"}
  Offsets = {0}
  MaxCounter = 2
  Garbled = {1}
  StateFile = FALSE
  SoundThread = {t1, t2, t3}
SPECIFICATION MCSpec
INVARIANTS
  BufferIsShared
  SectorsAreRight
PROPERTIES
  SoundGoesOn
  SectorsGoOn
