SPECIFICATION FairSpec
CONSTANTS
  Ids = {k, u}
  RecvBlocks = {k}
  Readers = {"waveform"}
  Bodies = {v1, v2}
  Unknown = Unknown
  Lengths = {1, 4}
  HeaderSize = 2
  MinMaxBuf = 3
  CountMod = 1
  BadHeaders = TRUE
  MemoryMayFail = TRUE
  MaxBytes = 7
INVARIANTS
  InStep
  WatermarksFit
  NewestIsScanned
PROPERTIES
  NoFalseFraming
  ImplementsMsgStream
  NoStall
