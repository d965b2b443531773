SPECIFICATION FairSpec
CONSTANTS
  Values = {v1, v2}
  Torn = Torn
  Zero = Zero
  Empty = Empty
  Unknown = Unknown
  Sizes = {8}
  FrameSize = 8
  MayOverflow = FALSE
  MayDisable = FALSE
PROPERTIES
  SyncArrives
