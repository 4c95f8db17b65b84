SPECIFICATION Spec
CONSTANTS
  MISLeverage = 5
  FuturesMarginPercent = 20
  OptionSellMarginPercent = 30
  MaxOrders = 3
  InitialCash = 230
  Deposits = {5}
  MaxCapital = 235
  MaxResets = 1
  MaxCrashes = 0
  Prices = {101, 160}
  Keys = {k1, k2}
  Workers = {w1, w2}
  ExitKeys = {x1}
  NoKey = NoKey
  Requests <- BookRequests
SYMMETRY Symmetric
INVARIANTS
  FundsCovered
  BlockedBalance
  PositionIsNetTrades
CHECK_DEADLOCK FALSE
