SPECIFICATION Spec
CONSTANTS
  MaxHeaderBytes = 5
  MaxHeaderCount = 1
  MaxBodyBytes = 2
  MaxPieces = 4
  LengthLine <- MCLengthLine
  Streams <- MCStreams
INVARIANT InputMemoryIsMaxRequestBytes
