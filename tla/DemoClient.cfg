SPECIFICATION Spec
CONSTANTS
  Exchanges = 3
  Candidates = 2
  RequestBytes = 2
  HeadBytes = 2
  BodyBytes = 1
  ToServer = 6
  ToClient = 4
  OutputHighWater = 2
INVARIANTS
  ResponsesAsMade
  ExitZeroMeansMatched
PROPERTIES
  HonestServerPasses
  ClosedConnectionEndsClient
