SPECIFICATION FairSpec
CONSTANTS
  Log <- Throttled
  Symbols <- OneSymbol
  BookInterval = 2
  BatchSize = 3
  MaxRetry = 2
  MaxFailures = 2
  MaxStarts = 1
  MayStop = FALSE
PROPERTIES
  QuietStreamReachesDb
