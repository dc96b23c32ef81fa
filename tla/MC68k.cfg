CONSTANTS
  task1 = task1
  task2 = task2
  c1 = c1
  c2 = c2
  None = None
  Task <- MCTasks
  Ctx <- MCCtx
  MaxResets = 1
  Levels = 2
  x1 = x1
  Contexts <- MCContexts
  Uses <- MCUses
SPECIFICATION MCSpec
CHECK_DEADLOCK FALSE
SYMMETRY MCSymmetry
INVARIANTS
  OneRunner
  FramesAlive
  CallsAreOwn
  InterruptsKept
PROPERTIES
  ExitReturnsToCaller
