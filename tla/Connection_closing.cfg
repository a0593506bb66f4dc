SPECIFICATION HistorySpec
CONSTANTS
  Requests <- ClosingRequests
  MaxHeaderBytes = 2
  MaxBodyBytes = 1
  OutputHighWater = 3
  IdleTimeout = 2
  LingerTimeout = 2
  MaxLingerBytes = 1
  RecvChunk = 3
  ResponseHeadBytes = 1
  ResponseBodyBytes = 1
  HupOnHalfClose = TRUE
  ReceiveBuffer = 3
  SendBuffer = 2
  MaxRequests = 3
INVARIANTS
  OrderlyClose
PROPERTIES
  Timeout408OnlyForPartialRequest
  ImplementsLifecycle
