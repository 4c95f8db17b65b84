----------------------------- MODULE PriceChart -----------------------------
(***************************************************************************)
(* StockDetailsPage as a reader of prices, with TradingViewChart: the      *)
(* instrument, the quote chosen between the stream and a poll, the session,*)
(* the archive of one-minute candles, and the chart drawn from the archive *)
(* and the quote.  The page ticks every second, and each tick hands the    *)
(* chart a new array of candles, which it draws afresh.                    *)
(*                                                                         *)
(* Time is in minutes.  An archive is the number of minutes it holds, each *)
(* a candle at `ArchivedPrice`.  The area and the line of a bar are its    *)
(* close, and are drawn together.                                          *)
(***************************************************************************)
EXTENDS Integers, SequencesExt

CONSTANTS Prices,         \* what the stream says
          PolledPrices,   \* what a poll says
          ArchivedPrice,
          LastMinute,   \* bound: minutes
          QuoteFresh,   \* a quote older than this is "LAST AVAILABLE": 2 minutes
          NoPrice       \* no quote, no bar

ASSUME ChartAssumption ==
  /\ Prices \cup PolledPrices \cup {ArchivedPrice} \subseteq Nat \ {0}
  /\ LastMinute \in Nat /\ QuoteFresh \in Nat
ASSUME NoPriceAssumption == NoPrice \notin [time : Nat, close : Nat] \cup [price : Nat, minute : Nat]

VARIABLES
  pcMinute,
  pcKnown,     \* the instrument: "pending", "equity" or "failed"
  pcRest,      \* the polled quote: [price, minute] or NoPrice, and whether its poll failed
  pcStream,    \* the streamed quote
  pcSession,   \* the market status: open and live, answered in this minute
  pcArchive,   \* minutes of the answered history, failed
  pcView,      \* kind of the chart, timeframe
  pcDrawn,     \* bars on the canvas, by kind
  pcLast,      \* lastCandleRef
  pcFresh      \* the canvas was recreated, and waits for the next tick

pcVars == <<pcMinute, pcKnown, pcRest, pcStream, pcSession, pcArchive, pcView, pcDrawn, pcLast, pcFresh>>
pcQuotes == <<pcRest, pcStream>>

ChartKinds == {"candle", "line"}
Timeframes == {1, 2}   \* minutes of a bar: 1m, and 5m or 15m

PriceChartInit ==
  /\ pcMinute = 1
  /\ pcKnown = "pending"
  /\ pcRest = [quote |-> NoPrice, failed |-> FALSE] /\ pcStream = NoPrice
  /\ pcSession = [live |-> FALSE, minute |-> 0]
  /\ pcArchive = [bars |-> 0, failed |-> FALSE]
  /\ pcView = [kind |-> "candle", frame |-> 1]
  /\ pcDrawn = [k \in ChartKinds |-> <<>>]
  /\ pcLast = NoPrice
  /\ pcFresh = FALSE

-----------------------------------------------------------------------------
Canonical == pcKnown = "equity"

\* displayQuote, of a canonical instrument: the newer of the two.
Quote ==
  IF ~Canonical THEN NoPrice
  ELSE IF pcStream # NoPrice /\ (pcRest.quote = NoPrice \/ pcStream.minute > pcRest.quote.minute)
       THEN pcStream ELSE pcRest.quote

\* A status older than half a minute, or of a failed poll, is none.
SessionLive == pcSession.live /\ pcSession.minute = pcMinute

\* quoteLabel of the chart's quote.
ChartLabel ==
  IF Quote = NoPrice THEN "UNAVAILABLE"
  ELSE IF ~SessionLive \/ pcRest.failed \/ pcMinute - Quote.minute > QuoteFresh THEN "LAST AVAILABLE"
  ELSE "LIVE"

ChartBadge == IF ChartLabel = "UNAVAILABLE" /\ Canonical /\ pcArchive.bars > 0 THEN "ARCHIVED" ELSE ChartLabel

-----------------------------------------------------------------------------
\* A bar is its minute and its close; its range follows the closes it has had.
Bar(minute, close) == [time |-> minute, close |-> close]

\* nativeCandles and aggregateCandles: a bar of several minutes starts on a multiple.
Candles(bars, frame) ==
  [i \in 1..((bars + frame - 1) \div frame) |-> Bar(frame * (i - 1), ArchivedPrice)]
Archived == IF Canonical THEN Candles(pcArchive.bars, pcView.frame) ELSE <<>>

\* A series' update: the last bar, or one after it.
Updated(bars, bar) ==
  IF bars # <<>> /\ Last(bars).time = bar.time THEN Append(Front(bars), bar) ELSE Append(bars, bar)

\* applyLiveTick and the effect that calls it for a live quote: one series, the one that shows, and never backwards.
Live(drawn, last) ==
  IF pcView'.frame = 1 /\ ChartLabel' = "LIVE" /\ (last = NoPrice \/ Quote'.minute >= last.time)
  THEN LET bar == Bar(Quote'.minute, Quote'.price) IN
       /\ pcDrawn' = [drawn EXCEPT ![pcView'.kind] = Updated(@, bar)]
       /\ pcLast' = bar
  ELSE pcDrawn' = drawn /\ pcLast' = last

\* It does not run for an answer that leaves the chart's quote as it was.
ChartQuote == <<Quote, SessionLive, pcRest.failed>>
LiveIfNew == IF ChartQuote' = ChartQuote THEN UNCHANGED <<pcDrawn, pcLast>> ELSE Live(pcDrawn, pcLast)

\* The effect of a new array of candles, unless it is empty, and then that of the quote.
Redraw ==
  /\ IF Archived' = <<>> THEN Live(pcDrawn, pcLast)
     ELSE Live([k \in ChartKinds |-> Archived'], Last(Archived'))
  /\ pcFresh' = IF Archived' = <<>> THEN pcFresh ELSE FALSE

-----------------------------------------------------------------------------
\* The page's own tick, every second; sometimes a minute has passed.
Second ==
  /\ pcMinute' \in {pcMinute, pcMinute + 1} /\ pcMinute' <= LastMinute
  /\ UNCHANGED <<pcKnown, pcQuotes, pcSession, pcArchive, pcView>>
  /\ Redraw

\* The instrument is asked again every minute, and its failure hides the prices.
InstrumentAnswered ==
  /\ pcKnown' \in {"equity", "failed"} \ {pcKnown}
  /\ UNCHANGED <<pcMinute, pcQuotes, pcSession, pcArchive, pcView>>
  /\ Redraw

Ticked ==
  /\ Canonical
  /\ \E p \in Prices, m \in {pcMinute, pcMinute - 1} :
       /\ m >= IF pcStream = NoPrice THEN 0 ELSE pcStream.minute
       /\ pcStream' = [price |-> p, minute |-> m]
  /\ UNCHANGED <<pcMinute, pcKnown, pcRest, pcSession, pcArchive, pcView, pcFresh>>
  /\ Live(pcDrawn, pcLast)

QuotePolled ==
  /\ Canonical
  /\ pcRest' \in {[pcRest EXCEPT !.failed = TRUE]} \cup
                 {[quote |-> [price |-> p, minute |-> pcMinute], failed |-> FALSE] : p \in PolledPrices}
  /\ UNCHANGED <<pcMinute, pcKnown, pcStream, pcSession, pcArchive, pcView, pcFresh>>
  /\ LiveIfNew

StatusAnswered ==
  /\ pcSession' \in [live : BOOLEAN, minute : {pcMinute}]
  /\ UNCHANGED <<pcMinute, pcKnown, pcQuotes, pcArchive, pcView, pcFresh>>
  /\ LiveIfNew

\* The archive may lag, and may hold a part of the minute that runs.
ArchiveAnswered ==
  /\ Canonical
  /\ pcArchive' \in [bars : pcArchive.bars..(pcMinute + 1), failed : {FALSE}]
                    \cup {[pcArchive EXCEPT !.failed = TRUE]}
  /\ UNCHANGED <<pcMinute, pcKnown, pcQuotes, pcSession, pcView>>
  /\ Redraw

\* Fault: the series that comes to show waits for the next quote.
ShowKind ==
  /\ \E k \in ChartKinds \ {pcView.kind} : pcView' = [pcView EXCEPT !.kind = k]
  /\ UNCHANGED <<pcMinute, pcKnown, pcQuotes, pcSession, pcArchive, pcFresh, pcDrawn, pcLast>>

SelectKind ==
  /\ \E k \in ChartKinds \ {pcView.kind} : pcView' = [pcView EXCEPT !.kind = k]
  /\ UNCHANGED <<pcMinute, pcKnown, pcQuotes, pcSession, pcArchive, pcFresh>>
  /\ Live(pcDrawn, pcLast)

SelectTimeframe ==
  /\ \E f \in Timeframes \ {pcView.frame} : pcView' = [pcView EXCEPT !.frame = f]
  /\ UNCHANGED <<pcMinute, pcKnown, pcQuotes, pcSession, pcArchive>>
  /\ Redraw

\* Fullscreen makes a new chart, and the effects that draw do not run again.
ToggleFullscreen ==
  /\ pcDrawn' = [k \in ChartKinds |-> <<>>]
  /\ pcFresh' = TRUE
  /\ UNCHANGED <<pcMinute, pcKnown, pcQuotes, pcSession, pcArchive, pcView, pcLast>>

PriceChartNext ==
  \/ Second \/ InstrumentAnswered \/ Ticked \/ QuotePolled \/ StatusAnswered \/ ArchiveAnswered
  \/ SelectKind \/ SelectTimeframe \/ ToggleFullscreen

-----------------------------------------------------------------------------
\* What lies over the canvas.
ChartOverlay ==
  IF pcKnown = "failed" \/ pcArchive.failed THEN "Unable to load market data"
  ELSE IF Archived = <<>> /\ pcKnown # "pending" THEN "No archived candles" ELSE "none"

\* The price beside the chart: the quote's, or the close of the last archived bar.
ChartPrice ==
  IF Quote # NoPrice THEN Quote.price
  ELSE IF Archived # <<>> THEN Last(Archived).close ELSE NoPrice

\* The head of the page.
PriceHeader ==
  [price |-> IF Quote = NoPrice THEN NoPrice ELSE Quote.price,
   alert |-> pcKnown = "failed" \/ pcRest.failed,
   canRefresh |-> Canonical]

\* The chart tells one story: the bars that show are in order; those of minutes that
\* the archive holds are the archive's, unless the canvas was just made anew; under
\* "LIVE" the last bar closes at the price printed beside it, whichever of ticks, polls,
\* archives and switches of kind and timeframe came last, and the head of the page
\* prints the same price; and "LIVE" is said only of a recent quote, of a poll that did
\* not fail, in a session known to be live.
ChartHonest ==
  LET bars == pcDrawn[pcView.kind] IN
  /\ \A i \in 2..Len(bars) : bars[i - 1].time < bars[i].time
  /\ ~pcFresh /\ Archived # <<>> =>
       \A i \in 1..(Len(Archived) - 1) : bars[i] = Archived[i]
  /\ ChartLabel = "LIVE" /\ pcView.frame = 1 /\ bars # <<>> /\ Quote.minute >= Last(bars).time =>
       Last(bars).close = ChartPrice
  /\ PriceHeader.price # NoPrice => PriceHeader.canRefresh /\ ChartPrice = PriceHeader.price
  /\ ChartBadge = "LIVE" =>
       ~PriceHeader.alert /\ pcSession.minute = pcMinute /\ pcMinute - Quote.minute <= QuoteFresh
=============================================================================
