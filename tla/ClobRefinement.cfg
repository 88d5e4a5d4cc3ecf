SPECIFICATION FairSpec
CONSTANTS
  MaxPrice = 2
  MaxQty = 2
  OrderIds = {1, 2}
  Accounts = {1}
  MaxOrders = 3
INVARIANTS IInv NotCrossed NoOrderLost
PROPERTIES PriceTimePriority SubmitReturns ImplementsPriceTimeBook
