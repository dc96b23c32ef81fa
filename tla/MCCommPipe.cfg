CONSTANTS
  a = a
  b = b
  Item <- MCItem
  Size = 4
  Chunks = 2
  Thread = {1, 2}
  MaxRecords = 3
  WordSlots = 4
  WordChunk = 2
  GuiSlots = 3
  CmdSlots = 3
  MaxRequests = 3
  StateBeyond = {}
SPECIFICATION MCSpec
INVARIANTS
  PartsTypeOK
  RingSafe
  WakeupsExact
  RecordsWhole
PROPERTIES
  ImplementsFifo
  PipeCallsReturn
  RecordsArrive
  RequestsAreMet
  WindowKeepsUp
