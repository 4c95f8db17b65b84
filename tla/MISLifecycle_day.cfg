SPECIFICATION FairLifecycleSpec
CONSTANTS
  MISLeverage = 5
  FuturesMarginPercent = 20
  OptionSellMarginPercent = 30
  MaxOrders = 2
  InitialCash = 150
  Deposits = {}
  MaxCapital = 150
  MaxResets = 1
  MaxCrashes = 1
  Prices = {100}
  MaxDays = 1
  Keys = {k1}
  Workers = {w1, Scheduler, Manual}
  ExitKeys = {}
  Scheduler = Scheduler
  Manual = Manual
  Nobody = Nobody
  NoKey = NoKey
  Requests <- LimitRequests
PROPERTIES
  OpenIsReported
  NoOrderOutlivesDay
CHECK_DEADLOCK FALSE
