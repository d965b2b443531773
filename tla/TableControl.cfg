SPECIFICATION FairSpec
CONSTANTS
  Tables <- MCTables
  Volts <- MCVolts
  Top = 1
  Deltas1 = {1}
  Deltas2 = {1, 2}
  StartPoints = {1, 3}
  MayFail = TRUE
CHECK_DEADLOCK FALSE
INVARIANTS
  PrevIsPlaying
PROPERTIES
  RampsJoin
  NoAlarmMeansSent
  AlarmsAreShown
