SPECIFICATION FairSpec
CONSTANTS
  Values = {v1, v2}
  Torn = Torn
  Zero = Zero
  Empty = Empty
  Unknown = Unknown
  Sizes = {4, 8, 16}
  FrameSize = 16
  MayOverflow = TRUE
  MayDisable = TRUE
CHECK_DEADLOCK FALSE
INVARIANTS
  LossHasCause
  NewestShown
  SyncInv
PROPERTIES
  CopyIsRead
