SPECIFICATION FairSpec
CONSTANTS
  a = a
  b = b
  Blocks <- MCBlocks
  Values = {v1, v2}
  Unknown = Unknown
  SizeOf <- MCSizeOf
  MaxSendBuffer = 2
  CountMod = 2
  MemoryMayFail = TRUE
INVARIANTS
  FlagsAreRight
  LastWriteWins
  BuffersBounded
PROPERTIES
  ImplementsSendQueue
  QueuedBlocksFlush
  AcceptedArrives
