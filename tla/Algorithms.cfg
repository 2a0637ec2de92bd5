SPECIFICATION AlgorithmsSpec
CONSTANTS
  Decisions <- AllDecisions
  StartingEquity = 100
  MinConfidence = 50
  DailyLossPct = 3
  MaxOpen = 1
  RiskPct = 20
  MaxNotional = 70
  MaxLeverage = 2
  MinNotional = 10
  DefaultStopPct = 20
  MinStopPct = 5
  TrailPct = 0
  OrderSizes = {1, 2, 3, 4, 5}
  MaxBookAge = 0
  Slippage = 500
  Fee = 10
  Equities <- SomeEquities
  Grosses <- SomeGrosses
  Sides <- TwoLevels
  BarShapes <- SomeShapes
  Signals <- SomeSignals
  Slower = 2
  WarmupBars = 3
  WindowBars = 2
  MaxBarsHeld = 2
  TrailingPct = 10
  MaxBars = 6
  Fixed = 23328
  RsiPeriod = 2
  RsiBand = 30
  MacdFast = 1
  MacdSlow = 2
  MacdSignal = 2
  EmaFast = 1
  EmaSlow = 2
  BandPeriod = 3
  BandWidth = 1
  MoveLookback = 2
  AtrPeriod = 2
  ObvLookback = 3
  OiLookback = 2
  TrendLookback = 3
  ExtremeBand = 35
  MinRates = 2
  FundingHistory = 2
  DrawdownPct = 10
  TrackedIntervals = {"1m", "15m", "1h"}
  MaxCandles = 6
  MaxTape = 1
  SwingLookback = 1
  ClusterPct = 5
  PerSide = 2
  Unit = 6000
  Intervals <- InOrder
  Weight <- SomeWeights
  Rsi = 2
  Overbought = 70
  Fast = 1
  Slow = 2
  Signalling = 2
  EmaShort = 1
  EmaLong = 3
  Bands = 3
  Deviations = 1
  SqueezeBars = 4
  AtrBars = 2
  VolumeBars = 3
  MinAbsScore = 150
  FullConviction = 450
  Horizon = 2
  MinBars = 2
  StudyWindow = 2
  RankLookback = 1
  MinSymbols = 2
  QuantilePct = 30
  Alpha = 5
  MinTestable = 2
INVARIANTS
  RiskWithinBudget
  ExposureWithinLimits
  StopIsALoss
  WalkIsBest
  SizeIsNeverRewarded
  ReplaySeesLiveWindow
  ExitsAtFirstTouch
  SignalsAreConsistent
  LevelsBracketPrice
  ConvictionIsUnanimous
  TrendIsNotFaded
  SamplesAreIndependent
  DiscoveriesAreCoherent
CHECK_DEADLOCK FALSE
