CONSTANTS
  t1 = t1
  c1 = c1
  c2 = c2
  None = None
  Task <- MCOneTask
  Ctx <- MCTwoCtx
  MaxResets = 1
SPECIFICATION Spec
CHECK_DEADLOCK FALSE
PROPERTIES
  TrapsEnterUnlocked
