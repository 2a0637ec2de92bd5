SPECIFICATION Spec
CONSTANTS
  PassthroughAgent = "analyst"
  MinConfidence = 55
  Cooldown = 1
  DefaultWeight = 100
  MinSamples = 1
  ScoreWindow = 2
  MinWeight = 25
  MaxWeight = 200
  SignalLog <- FourSignals
  IndexLimit = 1
  AttributeDegraded = FALSE
  MaxDbFailures = 1
  CausalDelivery = TRUE
  RiskFloor = 30
  MaxNow = 1
  MaxClosures = 2
  MaxCrashes = 1
CONSTRAINT
  Explored
INVARIANTS
  LedgerBacksOutcomes
  AttributedToContributors
  TrustMatchesLedger
PROPERTIES
  TrustFollowsTrackRecord
CHECK_DEADLOCK FALSE
