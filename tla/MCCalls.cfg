CONSTANTS
  t1 = t1
  c1 = c1
  c2 = c2
  None = None
  Task <- MCOneTask
  Ctx <- MCTwoCtx
  MaxResets = 0
  MaxCalls = 3
  MaxSignals = 2
  ClosingWakes = TRUE
  q1 = q1
  q2 = q2
  NoReq = NoReq
  Ioreq <- MCIoreq
  ScsiUnits = 2
  Handles = 2
  AsyncRequests = 1
  MaxScsiResets = 1
  MaxCommands = 2
  Beyond = {}
SPECIFICATION MCSpec
INVARIANTS
  PartsTypeOK
  CallsLeaveNothing
  UnitsAreServed
PROPERTIES
  TrapsTakeTurns
  SocketCallsEnd
  RequestsGetThrough
