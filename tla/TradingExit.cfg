SPECIFICATION FairSpec
CONSTANTS
  Symbols <- OneSymbol
  Prices <- StopAndEntry
  Decisions <- Longs
  Depths = {1, 2}
  CausalDelivery = TRUE
  MaxDecisions = 1
  MaxOrders = 2
  MaxMarks = 1
  MaxSize = 4
  MaxNow = 1
  MaxBookAge = 1
  StartingEquity = 100
  MaxOpen = 1
  RiskPct = 2
  MaxNotional = 1000
  MaxLeverage = 2
PROPERTIES
  ExitIsAnswered
