SPECIFICATION Spec
CONSTANTS
  Conns = {c1, c2}
  Lengths = {1, 3}
  HeaderSize = 2
  MAXMSG = 4
  MAXOUT = 20
  MaxSent = 10
  MemoryMayFail = TRUE
CHECK_DEADLOCK FALSE
INVARIANTS
  ConnReadAssertions
