# Stock-Simulator: TLA+ models, checks and proofs

Models of the paper-trading system under `src/`, what TLC checks about them on
small instances and what TLAPS proves for every instance. `PROJECT.json` lists,
for every definition, the source lines it stands for.

## 1. The system

A Go backend serves the REST API, matches orders and keeps every account in
PostgreSQL. Python workers read the broker's feed and write quotes to Redis. A
web frontend polls, and receives quotes and change notices over WebSocket and
server-sent events.

| Component | State it keeps | Operations | Modelled |
|---|---|---|---|
| Order engine (`order/service`, `order/repository`) | order, position, trade rows | create, execute, trigger stop, square off, reject, cancel, match | `OrderEngine` |
| Order arithmetic (`execution_service.go`, `product/rules.go`) | none | margin, reservation, slippage, cost basis, net position | `Accounting` |
| Wallet (`wallet/`) | cash and blocked amount, transaction log | provision, deposit, list | in `OrderEngine`, the log in `AccountBook`; provisioning not |
| Simulation reset (`simulation/`) | the rows above | one transaction | in `OrderEngine` and `AccountBook` |
| Reconciliation report (`cmd/reconcile-report`) | none | read-only checks | its checks are invariants of `OrderEngine` |
| Intraday square-off (`mis_squareoff.go`) | `square_off_state`, risk events | 30-second scheduler, manual trigger | `MISLifecycle` |
| F&O expiry (`fno_expiry.go`) | `settlement_state`, risk events | 1-minute scheduler, expired square-off | `FNOExpiry` |
| Settlement references (`settlement_store.py`, `finalQuotePrice`) | pending observations, the archived row, the cached quote | record, flush, settle | `SettlementReference`, abstractly `ClosingPrice` |
| Authentication (`auth/`, `lib/api.ts`, the gateway route) | refresh sessions; cookies, lock and tabs of a browser | login, refresh with retry window, logout, repetition after a 401 | `AuthSession` |
| Account changes (`accountchanges/hub.go`, `account-sync-provider.tsx`) | queue, Redis revision, listeners; provider and query of a tab | notify, publish, coalesce, heartbeat, reconcile, poll | `AccountSync` |
| Quote hub (`market/websocket`) | clients, subscriptions, the shared Redis stream | subscribe, fan out, drop slow clients | `QuoteHub` |
| Quotes in the browser (`market-provider.tsx`, `market-store.ts`, `marketSubscriptions.ts`, `liveStream.ts`, `displayPolling.ts`) | views, selection and watchlist; socket, frame queue, store | mount, select, watch, subscribe; tick, suspend polling | `Subscriptions`, `MarketFeed` |
| Order tickets (`orderIntent.ts`, `exitRetry.ts`, `StockDetailsPage`, `FnoOrderModal`, `preview.go`) | idempotency keys, the form and its estimate | review, place, retry, square off | `Intents`, `OrderReview` |
| Portfolio pages and `portfolio_service.go` | one answer, wallet, risk, live quotes | value, weigh, share | `Valuation`, `Figures` |
| Orders page (`app/(trading)/orders`) | order book, fills, note of a day | cancel, delete history, pick a day | `OrdersDesk` |
| Watchlists and palette (`WatchlistManagerDesk`, `SearchModal`, `watchlist_handler.go`) | lists of the browser and of the account | add, remove, merge, reload, search | `Watchlists` |
| Market pages (explore, dashboard) | quotes, rankings, index history; account cards | rank, count, choose, reset | `MarketPages`, `AccountCards` |
| Statement and wallet pages, `reports_service.go` | wallet rows, periods, statements | recompute, deposit, reset | `AccountBook` |
| Analytics journal (`AnalyticsConsole`) | trades, edits, saves | edit, save, filter | `TradeJournal` |
| Stock page and chart (`TradingViewChart`) | instrument, quote, session, archive, drawn bars | tick, poll, draw, switch | `PriceChart` |
| Matcher cache (`order_service.go:430-643`) | active orders in memory | register, refresh, rebuild, match on a tick | no; any call may execute any active order at any time |
| Instrument master (`instrument/`) | instruments, snapshots | stage, activate, retire, expire | no |
| Daily snapshots (`portfolio/`) | the opening of a day | reconstruct from the ledger | no |
| Market worker (`python-services/market-worker`) | feed connection, subscriptions, quotes | supervise, subscribe, write | the archive, in `SettlementReference`; the rest no |
| Quote cache, F&O pricing, risk, news, AI, middleware, other pages | read-only, CRUD or I/O | | no |

### Interactions

* The HTTP handlers, the matcher and the two schedulers all end in
  `OrderService.Execute`; none knows of the others. What serialises them is the
  **wallet row**: every transaction that changes money selects it FOR UPDATE
  first. Rows of other users are never touched, so one account is the general
  case.
* A call is several transactions. `Execute` reads the order without a lock,
  fetches a quote, triggers a stop in one transaction and settles in another.
  `Create` looks for the idempotency key, validates, inserts, executes and, when
  that fails, rejects. Between any two of these anything may happen, and a call
  may stop there.
* The schedulers read positions without a lock, act on what they read and record
  what happened in two more writes: the state in the position row, then a risk
  event. A user may ask for the same closing at the same time.
* An expired contract settles at the reference price of its closing minute. The
  market worker archives it in PostgreSQL from a thread of its own, the backend
  inserts its own quote when there is none; they share only that row.
* Trading reads quotes from Redis, whose staleness it checks, and writes none.
  Every committed change is announced to `accountchanges` afterwards.
* A browser holds its tokens in cookies that only the same-origin gateway reads
  and writes; the pages see a marker cookie. Tabs share the cookies and one
  lock, and tell each other by storage events.
* A page learns of a change in three ways: a notice over a private event stream,
  the answer to its own mutation, and polling, which repairs the other two. Quotes
  come over a shared socket and, when that is silent, by polling.
* An order or exit is sent with a key that the browser keeps until it has heard
  the outcome; the engine answers a known key with the order it has.

### What is hard, and what must hold

| Behaviour | Property |
|---|---|
| several calls execute, cancel and retry the same order, with a wallet at its limit | `FilledOnceAndPaid` |
| the creating call rejects an order while another call fills it | `KeepsLedger` |
| retries of a request race, or come after the first call died | `OneOrderPerKey`, `FilledOnceAndPaid` |
| the creating call is the only one to reject a market order | `MarketOrderHasOwner`, `MarketOrdersFinish` |
| a square-off meets a position that changed or was replaced | `ExitFlattens` |
| one blocked amount stands for all reservations and margins | `BlockedBalance`, `FundsCovered` |
| average prices and partial costs round; net positions cross zero | `DeliveryBooks`, `PositionIsNetTrades` |
| several open sales share one holding | `SharesCommitted` |
| scheduler, manual closing, exits and late orders meet after 15:20 | `CutoffFreezesPosition`, `NoOrderOutlivesDay`, `IntradayKept` |
| state and risk event of a position are separate writes | `OpenIsReported`, `ExpiredIsReported` |
| scheduler, exits and orders in flight meet at the expiry | `AccountKept`, `ExitFlattens`, `ExpiredIsSettled` |
| observations arrive out of order, during or after a failed flush, beside a settlement's own | `SettlesAtPriceInForce`, `ArchiveCatchesUp` |
| a lost refresh is retried while another tab rotates | `OneLivePerLogin`, `NoFalseReplay` |
| accounts change in one tab while another one waits to repeat a write | `MutationScoped`, `MarkerNamesOwner`, `StaleTabHasNews`, `NoTabStuck` |
| notices, messages, streams and answers are lost, or meet a page's first fetch; a connection stalls silently | `MissedChangeHasCause`, `ChangeIsShown`, `StreamRecovers` |
| clients lag while the last one closes the shared stream and another opens it | `HubFeedsOrDrops` |
| views, selection and watchlist come and go over reconnections and past the limit | `SubscriptionsFollowViews` |
| polling stops for a stream that says nothing, or something under another name | `SuspendedOnlyWhileFresh` |
| an order's answer is late or lost, the page is left, square-offs overlap | `NewIntentAfterTerminal`, `TicketPostsOnce` |
| an estimate is of another body, account or price; pages recompute one figure each in its own way | `ScreensAgree` |
| an order finishes behind the table, the history is deleted | `OrdersDeskTruthful` |
| two copies of a list are merged in the order answers come | `WatchlistsKept` |
| a statement adds up rows that several transactions write | `BookBalances` |
| a save's answer comes after another edit, or while another save is under way | `JournalTruthful` |
| a chart is drawn by effects that run at different times | `ChartHonest` |

`PROJECT.json` lists these hazards at their lines, and those no property covers
with the reason.

## 2. Modules

Three groups, which share the account and the wire formats and no module but
`Accounting`.

*Trading.* `Accounting` (pure operators) and `Totals` (sums over rows) are used by
`OrderEngine`; `MCOrderEngine` defines its instances. `OrderLedger` is what the
engine promises, the abstract specification it implements, by TLC's check and by
proof (`OrderTrades_proofs`). `OrderEngine_proofs` proves what the arithmetic
returns, type correctness and the two wallet
invariants, `OrderTrades_proofs` extends it and proves what orders, trades and
positions say of each other. `MISLifecycle` and `FNOExpiry` compose the engine with
the two schedulers: they extend it, keep its variables and steps, and add a
clock. `MISLifecycle_proofs` and `FNOExpiry_proofs` extend `OrderTrades_proofs`
and prove that the schedulers keep what the engine keeps. `SettlementReference` stands alone; `ClosingPrice` is the abstract
specification it implements, by TLC's check and by proof
(`SettlementReference_proofs`).

*Session and notices.* `AuthSession` and `AccountSync`, each a backend and a
browser with what is lost between them; `AuthSession_proofs` and
`AccountSync_proofs` prove their safety properties.

*The desk.* `Desk` puts together what a user works with and what feeds it:
fourteen parts in thirteen modules (`OrdersDesk` has two), over the operators of
`Valuation` and `Accounting`. Each part has its own backend, network and market
in it. `Desk_proofs` has an inductive invariant for each part it is about.

### State and code

| Variable | Code |
|---|---|
| `cash`, `blocked` | `Wallet.CashBalancePaise`, `BlockedPaise` |
| `status`, `reserved`, `order` | order rows by number; `order[o].key` is `IntentKey` with its hash, `order[o].exit` the three `Exit...` columns |
| `position` | position rows by book. A book is one symbol of one product: `DELIVERY`, `INTRADAY`, and an F&O future and option; `rev` counts the saves of a row, i.e. its `UpdatedAt` |
| `trades` | trade rows, append-only |
| `epoch`, `resetAt`, `capital` | history: resets so far (a position row of another epoch is another UUID), trades before the last reset, money paid in since |
| `call` | the program counter and the local variables of each running call |
| `crashes` | how many calls stopped half-way |

| Action | Code |
|---|---|
| `SubmitOrder` | `Create` to `FindIntent`, the unlocked look at the key |
| `CreateIntent`, `JoinIntent` | the `CreateIntent` transaction that inserts, or finds the key used; funds or shares are checked in it |
| `RefuseOrder` | every validation of `Create` that may say no |
| `SquareOffPosition` | the transaction that stores an exit intent |
| `BeginExecute` | the matcher, the execute endpoint or a square-off retry enters `Execute` |
| `Unavailable` | no executable quote, or the instrument is closed to the order |
| `ActivateStop` | `activateStop`; it also carries the quote on to the settlement |
| `SettleDelivery`, `SettleMargin` | the settlement transactions of `Execute` and `executeMarginProduct` |
| `CancelObsolete`, `RefuseSettlement` | the same transactions when they cancel an overtaken exit or roll back |
| `Reject`, `Cancel`, `Deposit`, `ResetCurrentState` | the transactions of these names |
| `Crash` | a call stops between two transactions |

Each transaction is one action because its first statement locks the wallet row
(`activateStop` locks the one order row it reads and writes). Not a faithful
detail, on purpose: amounts have no upper bound in the model, so the code's
overflow refusals never happen; the transaction log, hiding of finished orders
(a display flag) and logging are left out; a second request with a used key and
another body changes nothing and is only a stutter in `SubmitOrder`. The
square-off of an F&O contract that has expired settles through the expiry code
and is an action of `FNOExpiry`.

**`OrderLedger`** has four variables: the phase of each order (none, open, filled,
dropped), its ticket, the holding of each book, and cash. The engine refines it
under `phase <- OrderPhase`, `ticket <- OrderTicket`, `holding <- Holding`: storing
an order is `Place`, a settlement is `Fill`, rejecting and cancelling are `Drop`,
deposits and resets are steps of the same names, and stop activation and what
calls read in between are not seen.

**`MISLifecycle`.** `phase` is trading until 15:20, closing until 15:30, then
closed; `NextDay` starts over. A settlement may be under way when the clock
passes 15:20 and has looked at it already: `underway` names that call, which
then holds the wallet row, so every other transaction waits for it. `closer[c]`
is the program counter of `ProcessMISSquareOff` or of the manual trigger, with
the row it read; the order it inserts runs through the engine's own steps under
the closer's name.

| Action | Code |
|---|---|
| `BeginPass`, `CancelOpenOrder` | the unlocked read of intraday orders, and `repo.Cancel` of each |
| `ReadPosition` | the unlocked read of open positions |
| `PlaceClosingOrder`, `ExecuteClosingOrder` | the SYSTEM order and its `Execute`, rejected on an error |
| `MarkPosition`, `RecordRisk` | the state of the row, then the risk event |
| `HandlerStep`, `Request`, `CancelRequest`, `Reset` | handlers and the matcher as in the engine, with the MIS checks of the clock |
| `Stop` | a call or a pass ends between two transactions |

**`FNOExpiry`.** `Expire` is 15:40 on the contracts' expiry day. `pass` is
`ProcessFNOExpiry`: the rows it has read, the row and price at hand.
`quoted[w]` is the settlement price a call has fetched for an expired exit.

| Action | Code |
|---|---|
| `BeginPass`, `FetchPrice`, `FailToFetch` | the unlocked read of open rows that are not COMPLETED, and `expiryPrice` |
| `SettlePosition`, `SettleExit` | `settleExpiredPosition` for the scheduler and for an exit; `PayOut` is what both write |
| `MarkPosition`, `RecordRisk` | the two writes of `recordExpiryRisk` |
| `FetchExpiryPrice` | the expired branch of `executeMarginProduct` |
| `HandlerStep` | the engine's calls; `Execute` refuses an expired contract when it looks at the clock, and not afterwards |

The order a settlement inserts carries the reason FNO_EXPIRY, which nothing
reads again and the model leaves out.

**`SettlementReference`.** An observation is its exchange time. `pending` and
`flush` are the recorder's dictionary entry and its thread, `tick`, `latest` and
`cache` the quote on its way to Redis, `row` the archived reference, `settle`
the calls of `finalQuotePrice`. `newest`, `stored` and `used` are history. The
price itself is left out: it is a function of the observation. `ClosingPrice` keeps `row` and `used` of it only, as `price` and `taken`.

**`AuthSession`.** A session is a row of `refresh_sessions` with the access token
issued beside it. `jar` is the cookies of the browser, `call`, `refresh` and
`form` the requests of its tabs, `stale` the storage events on their way.

| Action | Code |
|---|---|
| `NewCall`, `Answer`, `Resume` | `sessionFetch`: the request, its 401, the repetition after a refresh |
| `RefreshLock`, `RefreshArrive`, `RefreshSettle` | `tryRefreshToken` under the browser's lock; the gateway and `AuthService.Refresh` with its retry window in between |
| `Submit`, `LoginArrive`, `LoginSettle` | the login form; the gateway sets the cookies |
| `SignOut`, `SignOutLock`, `LogoutArrive`, `LogoutSettle` | `logoutSession` |
| `StorageEvent`, `RequireAuth`, `SignedInRedirect` | what a tab does with a changed scope |
| `AccessExpires`, `CookiesExpire`, `RetryWindowCloses` | time |

**`AccountSync`.** `version` is the account's committed state, `revision` the counter in
Redis. `link` is the private stream, `listener` the one-place channel of its
handler, `wire` the frame on its way.

| Action | Code |
|---|---|
| `Commit`, `Mutate`, `Publish`, `Reply` | `Notify` (which drops when the queue is full), the queue's goroutine, the answer to a mutation of this tab |
| `Connect`, `Consume`, `Watchdog`, `HealthTimeout`, `SessionEnds`, `ConnectionFails`, `Stall` | the provider's loop and its timers |
| `Listen`, `Ready`, `Change`, `Heartbeat` | the handler of `GET /account/events` |
| `Invalidate`, `Poll`, `Read`, `Answer`, `AnswerLost` | the query of a page |
| `Hide`, `Show` | the tab goes to the background, and the effect ends and starts |

`invalidateQueries` of TanStack Query (external, version 5) cancels a request that is
under way and sends another, but only if the query has data already; as long as it has
none, the call returns the promise of the fetch under way. So a pass may be spent on a
first fetch that the backend has answered before the change: `Invalidate` then sends
nothing and notes it in `query.inVain`, until the next request. The same holds of every
refetch of the desk that follows a mutation (`AccountCards`, `AccountBook`, `Watchlists`).

**`Desk`.** `deskPart` is the part at work. A page keeps its state in components
that are gone when it is left, under query keys of its own, and the two ends of
the quotes' stream are processes of their own; none reads another's variables,
so each part runs alone against its own surroundings.

| Part | Module | State | Actions |
|---|---|---|---|
| portfolio | `Figures` over `Valuation` | the backend's positions, the last answers of portfolio, wallet and risk, live quotes, what is chosen | positions move; each answer comes or fails; a quote ticks; tab, segment and sector are chosen |
| tickets | `Intents` | the page that sends, keys in `sessionStorage`, orders by key, requests under way (of one name too), both tickets | a request arrives, is answered or lost; order, execution and square-off are sent; tickets are previewed, confirmed, mounted again, closed; the matcher fills |
| review | `OrderReview` | form, quote, estimate, account, wallet | fields change; quote, estimate and funds are answered; the order is pressed and executed |
| orders, note | `OrdersDesk` | the backend's orders, the last answers, tab and filter, the cancellation; the note's day | orders move; polls, cancellation, deletion of the history; days picked, notes answered |
| watchlist | `Watchlists` | lists shown, stored, of an older version and in the cloud, the query and its answer, calls under way, the palette | edits, saves, fetches read and answered apart, reloads, tabs, search |
| names | `Subscriptions` | mounted views, views by name, selection, watchlist, names asked for, socket with its commands | views mount and unmount; selection and watchlist change; the socket connects and drops; commands are handled |
| quotes | `MarketFeed` | latest trades, names asked for, socket with its events, frame queue, store | trades and snapshots under any name; the socket connects, drops, receives; frames; polls; time |
| hub | `QuoteHub` | clients with their buffers, streams open and read | clients come, subscribe, lag and go; fan-out; a stream fails or ends |
| market | `MarketPages` | quotes, rankings, history, choices | a quote ticks; rankings and history are answered; choices |
| account | `AccountCards` | the account, its last answer, the fetch under way, the reset | fills, polls, the reset and its answer |
| book | `AccountBook` | wallet and rows, the period and its statement, the table and its fetch, two modals | the wallet's transactions; periods, statements and rows are answered; deposits and resets |
| journal | `TradeJournal` | entries, edits, the saves under way, figures, month | answers, edits; saves sent, stored and answered in any order; timers, choices |
| chart | `PriceChart` | minute, quote by poll and by stream, session, archive, bars drawn | ticks, polls, answers, switches of kind and timeframe |

What is *shown* is an operator of the state: `ShownHeadline`, `OrderRows`,
`BookBalances`'s `Statement`, `ChartLabel`. Effects that React runs after a change
are part of the action that makes the change. A query's answer may be lost,
and may come after the state it was read from has moved on. Loading and error
texts are modelled as far as a property tells them apart.

The small operators commented "Fault" directly before a definition are plausible
bugs of it. None is used by a specification; a property is trusted only because
TLC finds it violated when the definition is replaced by one of them.

## 3. What is checked

Runs of the engine use `MCOrderEngine`, two interleaved calls (one where two add
nothing) and quotes a few paise apart so that limits and triggers lie between
them; `mis_` runs use `MCMISLifecycle`, `fno_` runs `MCFNOExpiry`, the others the
`MC` module of theirs. `CHECK_DEADLOCK FALSE`, where it stands, because a bounded
instance ends when its order numbers, keys, rows or minutes are used up.

| Run | Instance | Properties | Shows |
|---|---|---|---|
| `delivery` | 4 orders: buys of 3, sales of 1 and 2, a square-off | `DeliveryBooks`, `SharesCommitted` | the cost basis of 3 shares bought at two prices does not divide evenly, and still no paise is lost; open sales never exceed the holding, except after a square-off, which looks at no open sale |
| `margin` | 3 orders, intraday, future and option, cash 230 paise, one reset, one deposit | `FundsCovered`, `BlockedBalance`, `PositionIsNetTrades` | positions that open, grow, shrink and reverse with the wallet at its limit, premiums as the cash flow and margins for short options only, and a reset at any point of a running call |
| `retry` | 3 orders of any type, two keys, one crash; stops of 60 units pay slippage | `FilledOnceAndPaid`, `OneOrderPerKey`, `MarketOrderHasOwner`, `KeepsLedger` | a key makes one order and one trade however calls race, retry and die; a fill dearer than its reservation is refused; every step is a step of `OrderLedger`, so that no rejection overtakes a fill (deposits and resets, which this run has not, are steps of the proof) |
| `reset_stop` | one stop and a reset | `BlockedBalance` violated | the reset updates PENDING and OPEN only, so a waiting stop keeps `reserved_paise` while the wallet blocks nothing |
| `mis_race` | handler, scheduler, manual closing, 3 orders, one exit | `IntradayKept`, `CutoffFreezesPosition` | after 15:20 an intraday position only moves towards zero, however stale the quantity a closing was sized from, and its margin goes with it |
| `mis_day` | two days, one reset, one stop of the process | `OpenIsReported`, `NoOrderOutlivesDay` | what is open after 15:30 ends FAILED in the row and in the event; orders left behind by a call that died, or inserted late, are cancelled |
| `fno_race` | one handler, future, option and shares, one exit, two closing prices, one reset, one deposit | `AccountKept`, `ExitFlattens` | orders in flight at 15:40 and exits against the scheduler: premium, margin and profit move once |
| `fno_report` | two handlers, one future, one exit, one stop, one reset | `ExpiredIsReported`, `ExpiredIsSettled`, `MarketOrdersFinish` | unlike the intraday scheduler, this one reads rows it has marked again, so a stop between its writes is repaired; pending settlements and market orders end |
| `reference_archive` | 2 observations, 2 settlements, one restart | `SettlesAtPriceInForce`, `ArchiveCatchesUp` | the archive implements `ClosingPrice` step by step: nothing recorded is lost to a flush, the row never goes back, each settlement takes the price in force once; and what was recorded is archived |
| `session` | 2 tabs, 2 accounts, 3 sessions, a write and polls, one lost answer | `MutationScoped`, `OneLivePerLogin`, `MarkerNamesOwner`, `NoTabStuck`, `StaleTabHasNews`, `NoFalseReplay` | a write is never sent for another account than it was made under, the cookies never mix accounts, no race looks like a stolen token, and no tab waits for ever |
| `account_sync` | 3 commits, 2 faults, one hiding | `MissedChangeHasCause`, `ChangeIsShown`, `StreamRecovers` | a change that is not shown is under way, was announced as lost or met the page's first fetch, and the last one is shown in the end |
| `desk` | the fourteen parts | `ScreensAgree`, `NewIntentAfterTerminal`, `TicketPostsOnce`, `OrdersDeskTruthful`, `WatchlistsKept`, `SuspendedOnlyWhileFresh`, `SubscriptionsFollowViews`, `HubFeedsOrDrops`, `BookBalances`, `JournalTruthful`, `ChartHonest` | see the table of section 1; `ScreensAgree` is what holds of the portfolio pages, the market pages, the account cards and the tickets' review, each while it is open |

**Bounds, trading.** Three or four orders are the smallest number for a position to open,
change and close while another order reserves: each property needs at most two
orders and the position they share to break, which the mutants confirm, run by
run. Two calls are enough because only two can disagree about one order: the
state a call keeps is one order number, one quote and one request. One reset
suffices since nothing but `epoch` remembers earlier ones, and one crash since a
crashed call is forgotten. Leverage 5, 20 % and 30 % margins and prices of 100,
101 and 107 paise make margins and averages round; `margin` quotes 101 and 160,
so that one adverse move loses more than the margin and an exit may be refused.

A position row is handled on its own by both schedulers, so one symbol per book
shows all they can do to each other; two closers and one handler, or two
handlers and the scheduler, are the actors that can meet on it. In `FNOExpiry` a
mark moves `rev` only if an exit has recorded it (`Touched`): no other move can
be told apart, and passes may repeat for ever. `mis_day` has two order numbers, the
user's and a closing: when none is left a closing cannot be inserted, which is a
step of the code too. Two observations are enough for `reference_archive`: one is
written while the other arrives, and the row may hold either.

**Bounds, session and notices.** Two tabs are what can disagree, each with one
request; one of them polls, signs in and signs out, the other writes. Three
rows of sessions let a rotation be rotated again or another account sign in
beside it. `MCView` tells two states apart only by tokens that can still be
presented. `NoFalseReplay` is about runs without a lost answer: with one, a retry
after the window is taken for a theft, as the backend means it. Three commits
and two faults let a second loss meet the repair of the first.

**Bounds, desk.** Each part has the two or three objects that can be confused:
two orders, one of them old, on the orders page; two sides and two prices of a
ticket, and for the portfolio two square-offs of one position under way and three
keys, so that a late answer can take out a key that is neither the first nor the last;
one watched symbol, two places that hold it, with and without an older version's list;
two clients and three streams for the hub; three rows of the book, which a fill, a
reset and a deposit fill; two trades in two months, one of them edited, two saves of
it under way. Portfolios have a cost that does not divide, a holding without a price,
and positions whose quote is stale or unavailable. For the quotes there are two names
of one instrument, of which the backend publishes the first and answers under either;
quotes are as old as `MaxTime`, which is past both thresholds. For the names asked for
there are four, a benchmark, the first selection and two of pages and watchlists, with a
limit of three, so that a full page leaves a name out and a watchlist meets the limit
before that; a name has two views at most, and a change waits until the commands of the
one before it are handled (`MaxCommands` is 1; a reconnection sends several at once).
Parts never mix, so `MCView` tells a state by the variables of the part at work,
which are all that can change. It takes for one what behaves alike: the slots of a
ticket's requests, the two names of an instrument, the two indices, the two months; and
it leaves out what neither a later step nor a property looks at, such as the wallet on
the stock ticket, an estimate that failed, or a session that is no longer live.

**Fairness.** A handler that has begun keeps running, as a goroutine does, and
never waits for a client: weak fairness of its steps. The schedulers' tickers
start a pass after every pass, and a pass runs on: weak fairness of `BeginPass`
and of the pass's steps. Clients, the matcher, deposits, resets, stops and the
clock get none. `MarketOrdersFinish` and `OpenIsReported` say nothing of a run in
which the process stopped: a call that died leaves its market order active until
the client retries, and a pass that died between its two writes leaves the event
behind. `ExpiredIsSettled` is an implication: strong fairness of
`FetchPrice`, since without a price nothing can be settled; `ExpiredIsReported`
does without. The archive's thread wakes every second (`BeginFlush`), and `SF` of
`WriteRow` says that PostgreSQL does not refuse every attempt for ever. In
`AccountSync` the queue's goroutine publishes, the stream's loop connects again
and its watchdog is a timer, frames are consumed, and a pass and a poll are
fetched: weak fairness of each. Commits, hiding and faults get none, and the
number of faults is bounded, so that in the end nothing is lost any more.

**Findings.** `reset_stop`: the comment of the reset promises that "every
currently open order" is cancelled, and the reconciliation report would flag the
state reached. `PROJECT.json` quotes the line.

### Other disagreements met while modelling, without a run of their own

*Trading.*

* A stop of the process between `MarkPosition` and `RecordRisk` of the intraday
  scheduler (`mis_squareoff.go:67`): the row says FAILED, later passes skip it,
  and the event stays PENDING or missing, although `docs/database/schema.md:329`
  has the worker mark "any remaining unliquidated MIS RiskEvents".
* The expiry settlement takes a loss from the cash behind other reservations
  (`fno_expiry.go:247`), without the comparison of `execution_service.go:450`;
  `cmd/reconcile-report/main.go:193-201` calls the result BLOCKED_EXCEEDS_CASH.
* An order in flight at 15:40 opens a position in a row that is already COMPLETED
  (`fno_expiry.go:48`), which the scheduler that "retries pending expired
  positions" never selects.
* A request may carry any reason. A LIMIT order that says SQUARE_OFF is
  cancelled by `executeMarginProduct` (`execution_service.go:383`) when there is
  nothing to close, and what it reserved stays blocked, although `Reject` promises
  "zero orphaned reservations" (`order_repository.go:270`).
* When the matcher fills the intraday scheduler's order first, its own `Execute`
  returns an error and a PENDING risk event stays for a position that is closed
  (`mis_squareoff.go:94`); and a position that grew after it was read is closed in
  part and still marked COMPLETED (`mis_squareoff.go:99`).
* Nothing ends a resting order of an expired contract (`execution_service.go:304`),
  although `docs/database/schema.md:300` has an EXPIRED state.
* The worker replaces a reference that the backend has settled with
  (`settlement_store.py:43`), so positions of one contract may settle at different
  prices, although a plan in `docs/` speaks of immutable references.
* The statement's closing balance covers rows after its last day too, so a period
  that ends earlier does not balance, which `reports_test.go:177-180` calls a
  broken invariant; `BookBalances` is stated for periods that end today.
* `preview.go:89` replaces the function that checks the shares other open sales
  hold, so the estimate of a sale ignores them.

*Session.* A 502 of the gateway keeps the cookies while the client signs out. The
access token, its cookie and the marker last six hours each, and without the
marker no refresh is tried, so that the refresh token's seven days are hardly
usable. A login takes no lock; a read repeated after a refresh may be for
another account, whose page it then is.

*Orders and tickets.* An F&O limit that was left to follow the last price changes the
body, and so the key, with every tick: an uncertain order retried after one can
be placed twice. The answer to a square-off takes out whatever key its position has
by then (`exitRetry.ts:12-14`): of two overlapping requests with one key the first answer
frees the name, another square-off makes a second key, and the other answer takes that one
out while its request is uncertain, so that the next one is a new intent, against
`exitRetry.ts:1-2`. `NewIntentAfterTerminal` names this case, and no other is possible. The mobile bar of the stock page
changes the side without resetting the confirmation. A failed query
of orders says "No Orders Placed Yet". The note of a day that was left may arrive
under the day picked since.

*Watchlists.* While the key of an older version (`stock_sim_watchlists_v2`)
exists, removed items come back with every reload (`WatchlistManagerDesk.tsx:173-195`);
nothing takes that key away, and `WatchlistsKept` says that this is all a reload adds. An
answer that equals the one before it starts nothing, so that a local edit whose call failed
stays; an edit made while the page's first request is under way sends no other; and the
palette turns a failure of the query it shares with the desk into an empty list. Lists are
not kept per account, an empty cloud list never clears the local one, and
`watchlist-changed` is never dispatched.

*Quotes.* Polling is suspended by the canonical name (`displayPolling.ts:29-36`), which is
the only one the worker publishes, but `useSymbolQuote` (`market-store.ts:183-191`) prefers
the name asked for: while the stream covers the instrument, a page under an alias or an
`-EQ` name keeps showing the first snapshot of its name, or an older polled quote, and
nothing polls a newer one. `SuspendedOnlyWhileFresh` therefore says that the store has a
fresh quote of the instrument, not that the page shows it; `displayPolling.test.ts:11`
speaks of the observations only. A cached REST quote may be older than the tick it replaces.

*First fetches.* A refetch that finds a page's first fetch under way waits for that one
(see `AccountSync` above). The dashboard then says "restored" (`DashboardPage.tsx:271-272`)
and the wallet page "Account Reset Completed!" (`ResetSimulationModal.tsx:58-67`) over
figures read before the reset, until the next poll; a deposit (`AddFundsModal.tsx:68-72`)
may be missing from the table as long; and the pass that a revision set off is spent
(`account-sync-provider.tsx:35`). The properties that say otherwise name this case.

*Figures.* A holding without a price is a total loss in the portfolio's header and
nothing in its table's footer; "Day Movement" is unrealized profit; the risk page
says HEALTHY without an answer; "Live Sync" outlives a failed refresh; the shared
card calls an unknown result 0 and keeps amounts it is told to hide. Explore and
dashboard turn failed rankings into empty ones, and the dashboard shows no answer
as no positions. The header counts a position whose quote is unavailable at its
recorded price (`portfolio/page.tsx:213-247`), the strip under it leaves it out
(`PositionsTable.tsx:110-127`); and the server reckons a holding from its rounded
average, the page from its cost, so that dashboard and portfolio may be up to a
paisa a share apart. `FiguresAgree` names the cases it excludes.

*Journal, chart, statement.* The fields stay enabled while a trade is saved: two saves
that overlap may be stored in one order and answered in the other, and the row then says
"Saved" of what is not stored (`AnalyticsConsole.tsx:287-358`). A save's answer overwrites
notes typed meanwhile, and an answer without success leaves "Saving…". The page hands the chart a new
array of candles every second, which wipes the live bar's high and low, and a
chart that goes full screen is empty until the next tick. A statement has no
guard against answers that overtake each other.

## 4. What is proved

| Theorem | Statement |
|---|---|
| `TypeCorrect` | `Spec => []TypeOK`, of `OrderEngine` |
| `FundsAlwaysCovered` | `Spec => []FundsCovered` |
| `BlockedAlwaysBalances` | `Spec => []BlockedBalance`, if no stop meets a reset and no request with reason SQUARE_OFF reserves money |
| `OrdersFillOnce` | `Spec => []FilledOnceAndPaid` |
| `DeliveryBooksHold`, `PositionsAreNetTrades` | `Spec => []DeliveryBooks` (`MoneyConserved` and `DeliveryNeverShort`), `[]PositionIsNetTrades` |
| `KeysNameOneOrder` | `Spec => []OneOrderPerKey` |
| `ExitsFlatten` | `Spec => ExitFlattens`, an action property |
| `SharesStayCommitted` | `Spec => []SharesCommitted`, if no stop meets a reset |
| `MarketOrdersHaveOwners` | `Spec => []MarketOrderHasOwner` |
| `EngineKeepsLedger` | `Spec => Ledger!Spec`, the refinement that `retry` checks as `KeepsLedger` |
| `LifecycleTypes`, `IntradayBooksKept` | `LifecycleSpec => []LifecycleTypeOK`, and `[]IntradayKept` under the two assumptions of the balance |
| `CutoffFreezes` | `LifecycleSpec => CutoffFreezesPosition`, an action property |
| `ExpiryTypes`, `ExpiryKeepsAccount` | `ExpirySpec => []ExpiryTypeOK`, and `[]AccountKept` under the same two assumptions |
| `ExpiryExitsFlatten` | `ExpirySpec => ExitFlattens` |
| `NewestIsKept`, `ReferenceAdvances`, `SettlesAtStoredPrice` | `[]NewestKept`, `ReferenceOnlyAdvances`, `[]PriceWasStored` of `SettlementReference` |
| `ArchiveImplementsClosingPrice` | `Spec => Archive!Spec`, the refinement that `reference_archive` checks as `SettlesAtPriceInForce` |
| `SessionOneLivePerLogin`, `SessionMarkerNamesOwner`, `SessionMutationScoped`, `SessionNoTabStuck`, `SessionStaleTabHasNews` | `Spec => []...` of `AuthSession` |
| `SessionNoFalseReplay` | `Spec => NoFalseReplay`, an action property |
| `MissedChangesHaveCauses` | `Spec => []MissedChangeHasCause`, of `AccountSync` |
| `SubscriptionsFollow` | `DeskSpec => []SubscriptionsFollowViews` |
| `SuspendedPollingIsFresh` | `DeskSpec => []SuspendedOnlyWhileFresh` |
| `ClientsAreFedOrDropped` | `DeskSpec => []HubFeedsOrDrops` |
| `KeysAreHeardInTurn` | `DeskSpec => []NewIntentAfterTerminal` |
| `UnsureTicketsWait` | `DeskSpec => TicketPostsOnce`, an action property |
| `OrdersDeskIsTruthful`, `ListsOutliveReloads`, `ChartIsHonest` | `DeskSpec => []OrdersDeskTruthful`, `[]WatchlistsKept`, `[]ChartHonest` |
| `StatementsBalance`, `JournalStaysTruthful` | `DeskSpec => []BookBalances`, `[]JournalTruthful` |
| `ScreensTellTheSame` | `DeskSpec => []ScreensAgree`, if `TicketRules` |

With these, every safety property of a passing run has a theorem.

Those of the engine and the schedulers hold for any number of orders, calls,
keys, requests, prices, days and closing prices, and any margin rules, from
`RulesAssumption`, `EngineAssumption`, `LifecycleAssumption` and
`ExpiryAssumption` (positive leverage, percentages and prices; requests as
`Create` admits them; closers are calls). Those of the session hold for any number of accounts, tabs,
requests and rows, from the assumptions `AuthSession` names. Those of the notices and
the desk hold for any number of commits, faults, clients, orders, requests, names,
prices, quotes, trades, positions and stocks, from the assumptions the modules
name: the sets that are listed, counted or added up are finite, a value that
stands for no answer is none of the answers, and what `Kept` says of a position.
One of them, `ScreensTellTheSame`, has a hypothesis of its own, `TicketRules`: the
settlement asks for the percentages that the ticket has written into it, 20 and 30
(`FnoOrderModal`), as the deployed rules do.

**Engine.** `TypeOK` alone is not inductive. `TypeInv` adds that a call past
"create" works on an existing order and holds a quote, and that the delivery
holding is never negative: without it the rounding of a sale's cost could leave
the naturals.

* *Funds.* `FundsInv` is `TypeInv /\ FundsCovered`; every settlement checks
  the wallet it is about to write, and no proof step needs to know why the
  margin rules are what they are.
* *Balance.* `BalanceInv` adds `RowsInv`: unused orders, exits, square-offs and
  delivery sales reserve nothing, and where resets happen no order is
  TRIGGER_PENDING. Each action moves the sum over orders by the change of one
  term (`ReservationsStep`), which rests on lemmas about partial sums,
  proved by a least counterexample since the library's induction schemes cannot
  be instantiated by the provers. The subtle step is `SettleMargin`, whose
  `max(0, ...)` never cuts anything off because the balance holds before it.
  The first assumption is the finding `reset_stop`, the second the request that
  may carry any reason, listed in section 3.
* *Five kinds of step.* Past the balance, proofs look at the engine through
  `StepKinds`: a row is inserted (`Insert`), an order is filled (`Fill`), a status
  moves (`Move`), money is deposited, the account is reset. Each invariant then
  has five cases and none of them opens a handler.
* *Trades.* `HistoryInv`: an order number not in use has an empty row, an active
  order has a quantity, an order has exactly one trade, of its quantity, if it is
  executed and none otherwise, and the last reset is not in the future.
* *Ledger.* `LedgerInv` adds the sums over the trades since the last reset. A
  trade appends one term to each sum and changes no other (`SumsTraded`), since
  executed orders' rows are never written again. What is left is arithmetic of
  one fill: a delivery swaps cash for cost, a margin product pays out its profit,
  an option its premium.
* *Keys.* No row is removed and no key rewritten, and `CreateIntent` looks
  again; the look of `SubmitOrder` is not used.
* *Exits.* `ExitsRecorded`: what an active exit recorded of its position is still
  so unless the row was saved since, which `rev` tells, or belongs to another
  epoch. So an exit that is not stale finds quantity and side it was made for.
* *Shares.* Offers are bounded by the holding unless a square-off of the present
  epoch has filled (`ExitTaken`); a reset must meet no stop, or a waiting sale
  would survive the holding.
* *Owners.* Without a crash an active market order of a client has a call past
  its creation that will execute or reject it; calls of others do not take it.
* *Refinement.* The five kinds are the steps of `OrderLedger`: `Insert` is `Place`,
  `Fill` is `Fill`, `Move` is `Drop` or a stutter, since it changes one order at
  most. That a fill is of one unit at least follows from `OrdersSane` and from
  `NothingToClose` (`FillsSome`), that it is paid for from `DeliveryMoves`, that the
  holding and the cash stay above zero from `LedgerInv` and `FundsCovered` after
  the step.

**Schedulers.** `LifecycleStepKinds` and `ExpiryStepKinds` say which steps are
none of the engine's: three of the intraday day (a closing order is inserted, a
row is marked, a pass stops between two calls) and four of the expiry (a
settlement pays out, a call leaves its exit unsettled, a row is marked, the
process stops). All others keep what the engine's steps keep, by its lemmas.

* *Intraday.* `ClosersInv` ties each closer's program counter to its call and
  says that what it executes is a SYSTEM row with reason SQUARE_OFF. The cut-off
  follows: what may settle after it is such an order, whose fill the engine caps
  at the position and refuses on the wrong side (`ClosingShrinks`), so the stale
  quantity it was sized from does no harm.
* *Expiry.* `ExpiryInv`: a call that holds a closing price is at an exit of an
  expired contract and takes no step of the engine meanwhile, and a pass holds a
  price exactly while it settles. A payment is a trade of the whole position on
  the closing side: it takes the position off the net (`NetPays`), pays into cash what it adds to
  realised profit or premium (`MoneyPays`), releases the margin, and cancels
  only orders that reserve nothing (`BalancePays`). Payments and marks outdate
  the exits that recorded the row (`ExitsRevised`).

**Settlement references.** For any number of observations, settlements and
restarts. `ArchiveInv` adds to the three properties what the threads know:
between its commit and its second look the flushing thread has archived at least
what it is about to remove, a call that stores a quote has one, and the row, once
filled, is never empty again. Under `price <- row`, `taken <- used`, a flush that
advances the row and the insertion of a settlement's own quote are `Publish`, the
look at the row that ends a settlement is `Settle`, and everything else stutters.
The step rests on `ArchiveInv`: a call past its insertion finds the row filled.

**Session.** `SessionInv` is about the table and its holders. The rows form
chains: a replacement belongs to the account and sign-in of the row it
replaces, and one of a sign-in is live (`Chained`, `OneLive`). A holder, the
cookies, a call, a refresh or a form under way, has tokens of one account, the
one whose scope it carries. `MutationScoped`, `OneLivePerLogin` and
`MarkerNamesOwner` follow. `NoTabStuck` is inductive as it stands. `Orderly` adds
who has news for whom, from which `StaleTabHasNews` and `NoFalseReplay` follow:
without a lost answer the token presented is the one the last rotation issued,
because rotations of a browser happen under one lock.

**Notices.** `SyncInv` adds to the property what excuses a page. `Counted`: every
notice is of a commit of its own, and what the listener, the stream and the provider
know of is a revision that was reached. `ReadIsFollowed`: while no notice was dropped,
an answer read before the last commit has a hint of that commit behind it, in the
queue, as a revision the provider has not seen, or as a pass that is due. Without it
an answer that ends a failure could bring back old data with nothing on its way. A pass
that fell in vain on the first fetch (`inVain`) excuses what that fetch brings, until the
next request.

**Desk.** A step of `Desk` is a step of one part and leaves the others as they are
(`DeskSteps`), so each part has an inductive invariant of its own:

* *Names.* `SubsInv`: the list of view names has each mounted name once (`ViewsInOrder`);
  while connected, what was asked for is what the state of the page makes it, and what the
  backend streams differs from that only in names that have a command on its way, of which
  the last agrees with it (`Streaming`), so that any prefix of the commands may have been
  handled. The limit is a counting argument over the first names of a list: a name left out
  has the limit's number of others before it, which are the page's if it is one of the page.
* *Quotes.* `FeedInv`: under one of an instrument's names the store's quote is at least as
  new as what the stream was last observed to bring (`QuotesFollow`), which is what suspends
  polling; the name is that of the tick observed last.
* *Hub.* `HubInv` is `HubFeedsOrDrops` and the types: the property was stated strongly enough.
* *Keys and tickets.* `KeysInv`: the key kept under a name is its newest, and every other
  key was heard of, or taken out by the answer to an older one that was (`Outlived`); a request
  under way carries a key of its name, not more, since requests overlap. `TicketsInv`: a
  ticket unsure of its order is a submitted one, and so is the F&O ticket while a request of
  it is under way.
* *Orders page.* `TablesInv`: the message names an order that is what it says, and
  what the history hides has finished. `NoteInv`: when every day asked for was answered,
  nothing loads, and the last answer left a note or a message.
* *Watchlist.* `WatchInv`: what is stored is what is shown, of tabs that are gone too, since
  one of them may be stored as the active one and edited afterwards; and unless something
  is in doubt, the rows read for an answer on its way, or the answer itself, are the account's.
* *Chart.* `ChartInv`: each series is in order and begins with the archive's bars; none
  goes past the last bar the refs remember, and one that stops before it stops before the
  newest quote too (`LastIsLast`), so that the next tick does not break the order; the bar
  that shows has the live price.
* *Book.* `BookInv`: each row leads from the cash of the row before (`RowsCarry`), so that
  sums over a period telescope; deposits told are rows; the table is never read back to
  fewer rows (`TableFollows`), so that the reset's row, once read, stays, and what is on its
  way once a reset waits has that row or is the first fetch that it fell on.
* *Journal.* `JournalInv`: a save under way that overlaps no other of its trade is of an edit
  that does not say "Saved", and is the stored entry once it is stored; an edit that says it
  shows the stored entry, unless its last save overlapped another.
* *Cards.* `CardsInv`: from the refetch of a reset on, whatever is on its way to the page
  is no older than the reset, or is the first fetch that it fell on. *Review.* `ReviewInv`: the estimate on a ticket is of the
  order on it, and of one that the service does not refuse; a ticket without one has asked.
* *Market pages, figures.* `PagesInv` and `FiguresInv` are small, since these screens are
  functions of the state; the work is in the functions. Sums over sets are
  added up in no order anyone knows: `SumStep`, `SumApart`, `SumOfBalanced` and
  `SumOfMade` make them independent of it, from a least set or from nothing
  (`FromNothing`) in the place of induction. With them `WeightsFill`, `StripIsHeader`
  and `ServerIsPage` compare two ways to add up one account; `StripIsHeader` rests on
  `ActiveShows`, that a row valued a second time gets the figure and status it had.

Attempts that failed changed the model in five places: a portfolio with a position
that has no quote, and a cost that its average does not divide, were missing from the
instance, and with them the properties of *Figures* as they had been stated are false;
the journal's accuracy counted setups that the page filters out; the page's lists were
sorted by an order that two stocks of one movement do not have; and the watchlist,
review and journal lacked the assumption that no answer looks like the lack of one.

Only model-checked: the liveness properties (`OpenIsReported`, `NoOrderOutlivesDay`,
`ExpiredIsReported`, `ExpiredIsSettled`, `MarketOrdersFinish`, `ArchiveCatchesUp`,
`ChangeIsShown`, `StreamRecovers`), since fairness, and so ENABLED, is out of the prover's
reach. No module that is proved about declares a recursive operator, so that nothing
here rests on induction over data; sums over the rows of a book are recursive
functions, of which the proofs use one step at a time and a least counterexample.

## 5. Not modelled, and the plan

Not modelled: the matcher's cache, row locks behind the wallet's, instrument
snapshots, wallet provisioning and daily snapshots, the worker's feed (planned,
see below); registration, e-mail codes and Google sign-in; read-only pricing
(quote cache, option chains, spreads, risk, reports other than the ledger), the
news worker, AI calls, middleware; and of the frontend layout, navigation, the
landing and mentor pages, news, options and F&O explore pages, pre-trade lab, trade
copilot, the recovery of paper orders, P&L calendar and insights, exports, the
chart's legend and indicators. They read one query each, or call services that
are not here. `lib/strategyExecution.ts` is called by tests only.

Next, in order of importance to the money and its owner:

1. Matcher cache: every active order is eventually offered to a matching quote.
2. Row locks: the order documented in `docs/database/schema.md` against the
   code's, deadlock freedom.
3. int64 arithmetic of `Accounting` against reference definitions at its limits.
4. Wallet provisioning, instrument and daily snapshots, the worker's feed.
