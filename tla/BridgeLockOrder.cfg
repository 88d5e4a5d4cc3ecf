SPECIFICATION FairBridgeSpec
CONSTANTS
  MaxPrice = 1
  MaxQty = 1
  OrderIds = {1}
  Accounts = {a1, a2}
  MaxOrders = 3
  MaxI64 = 1000
  MarginScale = 2
  InitialMarginBps = 1
  EvmPlacesOrders = FALSE
  MaxAmount = 1
  MaxCalls = 3
PROPERTIES WithdrawReturns
CHECK_DEADLOCK FALSE
