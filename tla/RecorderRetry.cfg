SPECIFICATION Spec
CONSTANTS
  Log <- OneStream
  Symbols <- OneSymbol
  BookInterval = 0
  BatchSize = 2
  MaxRetry = 3
  MaxFailures = 2
  MaxStarts = 1
  MayStop = FALSE
INVARIANTS
  FailedRowsRetained
CHECK_DEADLOCK FALSE
