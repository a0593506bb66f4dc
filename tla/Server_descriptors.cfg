SPECIFICATION FairSpec
CONSTANTS
  c1 = c1
  c2 = c2
  c3 = c3
  Clients <- TwoClients
  MaxConnections = 2
  Descriptors = 2
  IdleTimeout = 4
  LingerTimeout = 2
  MaxPollWait = 4
  AcceptPause = 4
  TicksPerMs = 2
  MaxEvents = 1
PROPERTIES
  AcceptRespectsPause
  StopEndsRun
  EveryClientLeavesBacklog
