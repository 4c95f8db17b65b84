SPECIFICATION DeskSpec
CONSTANTS
  Unknown = Unknown
  Portfolios <- MCPortfolios
  Ticks = {0, 104}
  Cashes = {0, 500}
  Sectors <- MCSectors
  s1 = s1
  s2 = s2
  Slots = {s1, s2}
  MaxKeys <- MCMaxKeys
  MaxLost = 1
  o1 = o1
  o2 = o2
  d1 = d1
  d2 = d2
  BookOrders = {o1, o2}
  OldOrders = {o1}
  FirstStatus <- MCFirstStatus
  NoteDays = {d1, d2}
  NoAnswer = NoAnswer
  w1 = w1
  WatchSymbols = {w1}
  Nothing = Nothing
  a = a
  aEQ = aEQ
  FeedNames = {a, aEQ}
  CanonOf <- MCSuffixed
  StreamFresh = 2
  StatusFresh = 1
  CacheTtl = 1
  MaxTime = 3
  MaxEvents = 1
  MaxRequests = 1
  x1 = x1
  x2 = x2
  n1 = n1
  n2 = n2
  PageStocks = {x1, x2}
  PageSectors <- MCPageSectors
  Indices = {n1, n2}
  Percents <- MCPercents
  MoverLimit = 1
  Rankings <- MCRankings
  NoMove = NoMove
  NoQuote = NoQuote
  NoData = NoData
  MaxResets = 2
  NoFolio = NoFolio
  h1 = h1
  h2 = h2
  HubClients = {h1, h2}
  HubBuffer = 2
  MaxStreams = 3
  Start = 2
  MaxRows = 3
  MaxDay = 1
  JournalTrades <- MCJournalTrades
  EditedTrades = {"t1"}
  Months = {0, 1}
  Setups = {"", "Scalp"}
  Notes = {"", "fomo"}
  MaxSaves = 2
  NoEdit = NoEdit
  NoAnalytics = NoAnalytics
  Prices = {2}
  PolledPrices = {1}
  ArchivedPrice = 1
  LastMinute = 2
  QuoteFresh = 1
  NoPrice = NoPrice
  MISLeverage = 5
  FuturesMarginPercent = 20
  OptionSellMarginPercent = 30
  ReviewPrices = {93, 110}
  LotInputs = {0, 2}
  TypedLimits = {0, 90}
  Accounts <- MCAccounts
  NoReply = NoReply
  b1 = b1
  c1 = c1
  e1 = e1
  e2 = e2
  SubNames = {b1, c1, e1, e2}
  Benchmarks <- MCBenchmarks
  FirstSelected = c1
  Watchlists <- MCWatchlists
  MaxTargets = 3
  MaxViews = 2
  MaxCommands = 1
VIEW MCView
INVARIANTS
  ScreensAgree
  NewIntentAfterTerminal
  OrdersDeskTruthful
  WatchlistsKept
  SuspendedOnlyWhileFresh
  SubscriptionsFollowViews
  HubFeedsOrDrops
  BookBalances
  JournalTruthful
  ChartHonest
PROPERTIES
  TicketPostsOnce
CHECK_DEADLOCK FALSE
