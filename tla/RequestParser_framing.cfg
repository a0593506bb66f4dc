SPECIFICATION Spec
CONSTANTS
  MaxHeaderBytes = 7
  MaxHeaderCount = 2
  MaxBodyBytes = 2
  MaxPieces = 4
  LengthLine <- MCLengthLine
  Streams <- MCStreams
INVARIANTS
  TypeOK
  IndicesInBounds
  BufferIsStreamSuffix
  ResumeLosesNoHeadEnd
  OutcomeIndependentOfChunking
  BufferBound
PROPERTIES
  IncompleteLeavesRoom
  ImplementsFraming
