SPECIFICATION Spec
CONSTANTS
  Symbols <- OneSymbol
  Prices <- TwoPrices
  Sizes = {1}
  Fees = {1}
  OrderIds = {1}
  Levels <- NoLevels
  StartingEquity = 1000
  MaxFills = 1
  MaxDay = 1
  MaxDbFailures = 0
  MaxStarts = 2
INVARIANTS
  ReplayedFillCountsOnce
