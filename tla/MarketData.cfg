SPECIFICATION DataSpec
CONSTANTS
  TrackedIntervals <- Tracked
  MaxCandles = 1
  MaxTape = 1
  InitialDelay = 1
  MaxDelay = 3
  MaxOutages = 2
  Length <- MinuteAndTwo
  PublishUnclosed = TRUE
  Triggers <- TriggerOnMinute
  MaxSlot = 2
  MaxTrades = 3
  MaxCrashes = 1
  MinInterval = 2
  MaxTime = 5
  MaxBooks = 4
  Universe = {"BTC", "ETH", "SOL"}
  Wanted = {"BTC", "ETH"}
  MaxPollFaults = 2
  DaySlack = 1
  MaxAttempts = 2
  MaxPages = 4
  Starts = {0, 2}
  MaxNow = 7
  MaxLoads = 2
  WindowSteps = 3
  MaxEmptyWindows = 2
  Hour = 2
  PageSize = 2
INVARIANTS
  ClosedIsFinal
  WindowEndsTopic
  ThrottleSpacesAndPasses
  
PROPERTIES
  TopicKeepsPromise
  FeedsRecover
CHECK_DEADLOCK FALSE
