SPECIFICATION Spec
CONSTANTS
  Symbols <- OneSymbol
  Prices <- TwoPrices
  Sizes = {1, 2}
  Fees = {1}
  OrderIds = {1}
  Levels <- OneLevel
  StartingEquity = 100000
  MaxFills = 4
  MaxDay = 2
  MaxDbFailures = 1
  MaxStarts = 2
CONSTRAINT
  Explored
INVARIANTS
  NetsPerSymbol
  EquityIsMarkToMarket
  CashIdentity
  
PROPERTIES
  SavedBaselineStands
