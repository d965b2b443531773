SPECIFICATION Spec
CONSTANTS
  hi = hi
  lo = lo
  all = all
  Values = {1, 2}
  Datagrams <- MCDatagrams
  HeaderSize = 2
  InitBuf = 5
  LenMod = 16
  WordSize = 2
  StampSize = 1
  StrSize = 4
  Databases <- MCDatabases
  Offset <- MCOffset
  Step = 2
  Nelm = 2
  TsOffset = 1
  MemoryMayFail = TRUE
  Outs = {hi, lo, all}
  OutMask <- MCOutMask
  OutSize = 2
  Digits = {1, 2}
INVARIANTS
  RecordsShowLast
  SettingsHold
PROPERTIES
  LongOnesFitNextTime
