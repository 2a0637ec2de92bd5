SPECIFICATION Spec
CONSTANTS
  Symbols <- OneSymbol
  OrderIds = {1}
  Prices <- FivePrices
  MaxSize = 2
  Protections <- TrailedLevels
  DefaultTrail = 0
  MaxDbFailures = 1
  MaxCrashes = 1
INVARIANTS
  DurableStop
  AtMostOneExit
  PendingExitWasSent
PROPERTIES
  StopNeverLoosens
