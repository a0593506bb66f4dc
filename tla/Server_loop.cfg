SPECIFICATION FairSpec
CONSTANTS
  c1 = c1
  c2 = c2
  c3 = c3
  Clients <- ThreeClients
  MaxConnections = 2
  Descriptors = 4
  IdleTimeout = 4
  LingerTimeout = 2
  MaxPollWait = 6
  AcceptPause = 6
  TicksPerMs = 2
  MaxEvents = 1
INVARIANTS
  TypeOK
  EventsReachTheirConnection
  ResourcesAccounted
  PollReturnsInTime
  
PROPERTIES
  EveryClientLeavesBacklog
