SPECIFICATION Spec
CONSTANTS
  Symbols <- OneSymbol
  Prices <- StopAndEntry
  Decisions <- Longs
  Depths = {2}
  CausalDelivery = TRUE
  MaxDecisions = 1
  MaxOrders = 3
  MaxMarks = 1
  MaxSize = 4
  MaxNow = 0
  MaxBookAge = 0
  StartingEquity = 100
  MaxOpen = 1
  RiskPct = 2
  MaxNotional = 1000
  MaxLeverage = 2
PROPERTY ReduceOnlyReduces
