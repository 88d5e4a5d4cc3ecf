SPECIFICATION SettlementSpec
CONSTANTS
  MaxI64 = 1000
  MarginScale = 10
  InitialMarginBps = 9
  MaintenanceMarginBps = 8
  LiquidationFeeBps = 5
  N = 3
  RunAdl = TRUE
  MaxSize = 2
  MaxEntry = 2
  MaxCollateral = 1
  MaxFund = 1
  MaxScans = 1
  RateScale = 2
  Divisor = 1
  RateCap = 1
  MaxDeposits = 1
INVARIANTS ShortfallsAccounted AdlAbsorbsDeficit BystandersKeepEveryDelta WinnersArePaid FundingBalances
CHECK_DEADLOCK FALSE
