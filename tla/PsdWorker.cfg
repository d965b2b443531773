SPECIFICATION FairSpec
CONSTANTS
  a = a
  e = e
  Inputs <- MCInputs
  LenOf <- MCLenOf
  Params <- MCParams
  Torn = Torn
  Overwritten = Overwritten
  NoData = NoData
  MaxChanges = 4
CHECK_DEADLOCK FALSE
INVARIANTS
  NewestComputed
  ScaleMatches
  OutputFollows
PROPERTIES
  InputIsProcessed
