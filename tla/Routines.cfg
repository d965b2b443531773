SPECIFICATION RoutinesSpec
CONSTANTS
  Databases = {"alarms", "waveforms"}
  Links <- MCLinks
  Pairs = 3
  Calls <- MCCalls
  Nelm = 8
  Shift = 2
  ShiftAbove = 4
  FirstSample = 5
  Old = Old
  Beyond = Beyond
INVARIANTS
  AlarmsHaveCause
  WaveformsAsDefined
CHECK_DEADLOCK FALSE
