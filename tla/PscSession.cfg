SPECIFICATION MCSpec
CONSTANTS
  Bevs = {b1, b2}
  NULL = NULL
  CountMod = 2
  Forced = TRUE
  Exit = TRUE
  AllocMayFail = TRUE
CHECK_DEADLOCK FALSE
INVARIANTS
  IInv
  QuietSafe
PROPERTIES
  RetriesForever
  LossIsShown
  AttemptsEnd
  ImplementsLifecycle
