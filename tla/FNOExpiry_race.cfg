SPECIFICATION ExpirySpec
CONSTANTS
  MISLeverage = 5
  FuturesMarginPercent = 20
  OptionSellMarginPercent = 30
  MaxOrders = 4
  InitialCash = 150
  Deposits = {10}
  MaxCapital = 160
  MaxResets = 1
  MaxCrashes = 0
  Prices = {100}
  Keys = {k1, k2}
  Workers = {w1}
  ExitKeys = {x1}
  NoKey = NoKey
  ClosingPrices = {90, 120}
  OptionType = "CALL"
  Strike = 100
  NoPrice <- NoQuote
  Requests <- ExpiryRequests
INVARIANTS
  AccountKept
PROPERTIES
  ExitFlattens
SYMMETRY Alike
CHECK_DEADLOCK FALSE
