SPECIFICATION Spec
CONSTANTS
  Log <- ThreeStreams
  Symbols <- OneSymbol
  BookInterval = 2
  BatchSize = 2
  MaxRetry = 1
  MaxFailures = 2
  MaxStarts = 2
  MayStop = TRUE
INVARIANTS
  TypeOK
  BufferBounded
  StreamIsolation
  RetryKeepsRows
CHECK_DEADLOCK FALSE
