SPECIFICATION Spec
CONSTANTS
  MISLeverage = 5
  FuturesMarginPercent = 20
  OptionSellMarginPercent = 30
  MaxOrders = 3
  InitialCash = 7400
  Deposits = {}
  MaxCapital = 400
  MaxResets = 0
  MaxCrashes = 1
  Prices = {100, 101}
  Keys = {k1, k2}
  Workers = {w1, w2}
  ExitKeys = {x1}
  NoKey = NoKey
  Requests <- AllTypes
SYMMETRY Symmetric
INVARIANTS
  FilledOnceAndPaid
  OneOrderPerKey
  MarketOrderHasOwner
PROPERTY
  KeepsLedger
CHECK_DEADLOCK FALSE
