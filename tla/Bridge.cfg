SPECIFICATION FairBridgeSpec
CONSTANTS
  MaxPrice = 1
  MaxQty = 2
  OrderIds = {1}
  Accounts = {a1, a2}
  MaxOrders = 4
  MaxI64 = 1000
  MarginScale = 2
  InitialMarginBps = 1
  EvmPlacesOrders = TRUE
  MaxAmount = 1
  MaxCalls = 3
INVARIANTS SubmittedFillsApplied ValueIsCashFlow FillsDeliveredOnce
PROPERTIES WithdrawalsLeaveMargin CallsReturn
CHECK_DEADLOCK FALSE
