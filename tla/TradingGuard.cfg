SPECIFICATION Spec
CONSTANTS
  Symbols <- OneSymbol
  Prices <- OneTick
  Decisions <- Both
  Depths = {1, 2}
  CausalDelivery = FALSE
  MaxDecisions = 2
  MaxOrders = 4
  MaxMarks = 0
  MaxSize = 4
  MaxNow = 0
  MaxBookAge = 0
  StartingEquity = 100
  MaxOpen = 1
  RiskPct = 2
  MaxNotional = 1000
  MaxLeverage = 2
INVARIANTS
  GuardsWhatIsHeld
CONSTRAINT
  Unmistaken
ACTION_CONSTRAINT
  InTime
