SPECIFICATION FairSpec
CONSTANTS
  c1 = c1
  c2 = c2
  f1 = f1
  f2 = f2
  Clients <- MCClients
  Fds <- MCFds
  MaxClients = 2
  CountMod = 8
  Null = Null
CHECK_DEADLOCK FALSE
INVARIANTS
  WholeMessages
  CountIsExact
  ListIsExact
PROPERTIES
  ClosedClientsLeave
