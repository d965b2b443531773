SPECIFICATION Spec
CONSTANTS
  Bevs = {b1, b2}
  NULL = NULL
  CountMod = 2
  Forced = FALSE
  Exit = TRUE
  AllocMayFail = FALSE
CHECK_DEADLOCK FALSE
INVARIANTS
  NoLockCycle
