SPECIFICATION LifecycleSpec
CONSTANTS
  MISLeverage = 5
  FuturesMarginPercent = 20
  OptionSellMarginPercent = 30
  MaxOrders = 3
  InitialCash = 150
  Deposits = {}
  MaxCapital = 150
  MaxResets = 0
  MaxCrashes = 0
  Prices = {100}
  MaxDays = 0
  Keys = {k1, k2}
  Workers = {w1, Scheduler, Manual}
  ExitKeys = {x1}
  Scheduler = Scheduler
  Manual = Manual
  Nobody = Nobody
  NoKey = NoKey
  Requests <- DayRequests
INVARIANTS
  IntradayKept
PROPERTIES
  CutoffFreezesPosition
CHECK_DEADLOCK FALSE
