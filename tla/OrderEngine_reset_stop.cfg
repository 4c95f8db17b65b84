SPECIFICATION Spec
CONSTANTS
  MISLeverage = 5
  FuturesMarginPercent = 20
  OptionSellMarginPercent = 30
  MaxOrders = 1
  InitialCash = 400
  Deposits = {}
  MaxCapital = 400
  MaxResets = 1
  MaxCrashes = 0
  Prices = {100, 107}
  Keys = {k1}
  Workers = {w1}
  ExitKeys = {}
  NoKey = NoKey
  Requests <- StopAtReset
SYMMETRY Symmetric
INVARIANTS
  BlockedBalance
CHECK_DEADLOCK FALSE
