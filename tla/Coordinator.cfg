SPECIFICATION CoordSpec
CONSTANTS
  NumFeeds = 3
  Prices = {2, 3, 8}
  Keys = {"k1"}
  StalenessWindow = 1
  MinFeeds = 2
  MaxDeviation = 1
  DeviationScale = 4
  AggregateMaxAge = 1
  RefreshInterval = 2
  FundingInterval = 2
  HistoryHeights = {1, 3, 4}
  MakerHeights = {1}
  BadHeight = 3
  MaxHeight = 4
  MaxStops = 2
INVARIANTS MajorityBoundsIndex HealthyFeedsGiveAPrice NothingFromTheFuture EventsOnce
PROPERTIES SettlementsApart
CHECK_DEADLOCK FALSE
