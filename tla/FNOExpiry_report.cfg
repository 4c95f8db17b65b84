SPECIFICATION FairExpirySpec
CONSTANTS
  MISLeverage = 5
  FuturesMarginPercent = 20
  OptionSellMarginPercent = 30
  MaxOrders = 4
  InitialCash = 150
  Deposits = {}
  MaxCapital = 150
  MaxResets = 1
  MaxCrashes = 1
  Prices = {100}
  Keys = {k1}
  Workers = {w1, w2}
  ExitKeys = {x1}
  NoKey = NoKey
  ClosingPrices = {90}
  OptionType = "CALL"
  Strike = 100
  NoPrice <- NoQuote
  Requests <- FutureRequests
PROPERTIES
  ExpiredIsReported
  ExpiredIsSettled
  MarketOrdersFinish
CHECK_DEADLOCK FALSE
