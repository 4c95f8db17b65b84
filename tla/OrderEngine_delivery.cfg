SPECIFICATION Spec
CONSTANTS
  MISLeverage = 5
  FuturesMarginPercent = 20
  OptionSellMarginPercent = 30
  MaxOrders = 4
  InitialCash = 650
  Deposits = {}
  MaxCapital = 400
  MaxResets = 0
  MaxCrashes = 0
  Prices = {100, 107}
  Keys = {k1, k2, k3}
  Workers = {w1, w2}
  ExitKeys = {x1}
  NoKey = NoKey
  Requests <- DeliveryRequests
SYMMETRY Symmetric
INVARIANTS
  DeliveryBooks
  SharesCommitted
CHECK_DEADLOCK FALSE
