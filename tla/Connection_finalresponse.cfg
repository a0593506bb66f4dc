SPECIFICATION Spec
CONSTANTS
  Requests <- WellFormedRequests
  MaxHeaderBytes = 2
  MaxBodyBytes = 1
  OutputHighWater = 3
  IdleTimeout = 1
  LingerTimeout = 1
  MaxLingerBytes = 1
  RecvChunk = 3
  ResponseHeadBytes = 1
  ResponseBodyBytes = 1
  HupOnHalfClose = FALSE
  ReceiveBuffer = 3
  SendBuffer = 2
  MaxRequests = 3
INVARIANT FinalResponseNeverAtRisk
