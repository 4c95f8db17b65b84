---------------------------- MODULE MarketPages ----------------------------
(***************************************************************************)
(* The two pages of the market at large: StocksExplorePage and             *)
(* DashboardPage, with the movers card.  They read the quotes of the store,*)
(* each its own query of the rankings and the history of one index, and    *)
(* compute movers, sectors, a mood and a chart from them.                  *)
(*                                                                         *)
(* A stock's quote is its movement of the day in percent, `NoMove` when it *)
(* has a price and no movement, `NoQuote` without a price.                 *)
(***************************************************************************)
EXTENDS Integers, FiniteSets, SequencesExt, Functions

CONSTANTS PageStocks,   \* the static catalog
          PageSectors,  \* sector -> its constituents
          Indices,      \* indices of the overview chart
          Percents,     \* movements of a day
          MoverLimit,   \* rows of the movers table
          Rankings,     \* what the backend may rank: it has quotes of its own
          NoMove, NoQuote, NoData

ASSUME PagesAssumption ==
  /\ IsFiniteSet(PageStocks) /\ PageSectors \in [DOMAIN PageSectors -> SUBSET PageStocks]
  /\ Percents \subseteq Int /\ MoverLimit \in Nat \ {0}
  /\ Indices # {} /\ Rankings \subseteq [gainers : SUBSET PageStocks, losers : SUBSET PageStocks]
  /\ {NoMove, NoQuote} \cap Percents = {} /\ NoMove # NoQuote /\ NoData \notin Indices

VARIABLES
  pgQuotes,    \* the quotes of the store, by stock
  pgRanked,    \* the page's answer of GET /market/movers: gainers and losers, or NoData
  pgCard,      \* the movers card's own: the answer, whether the last poll failed
  pgBars,      \* by index: the plotted answer of its history, failed
  pgView       \* mover tab, sector filter, selected index

pgVars == <<pgQuotes, pgRanked, pgCard, pgBars, pgView>>

NoRanks == [gainers |-> {}, losers |-> {}]
Known(s) == pgQuotes[s] # NoQuote
Moved(s) == pgQuotes[s] \notin {NoQuote, NoMove}
Move(s) == IF Moved(s) THEN pgQuotes[s] ELSE 0

MarketPagesInit ==
  /\ pgQuotes = [s \in PageStocks |-> NoQuote]
  /\ pgRanked = NoData /\ pgCard = [ranked |-> NoData, failed |-> FALSE]
  /\ pgBars = [i \in Indices |-> [of |-> NoData, failed |-> FALSE]]
  /\ pgView = [movers |-> "gainers", filter |-> "all", index |-> CHOOSE i \in Indices : TRUE]

-----------------------------------------------------------------------------
Tick(s) ==
  /\ \E q \in Percents \cup {NoMove} : q # pgQuotes[s] /\ pgQuotes' = [pgQuotes EXCEPT ![s] = q]
  /\ UNCHANGED <<pgRanked, pgCard, pgBars, pgView>>

\* The page takes a failure for empty rankings; the card keeps its answer.
MoversAnswered ==
  /\ \/ pgRanked' \in Rankings \cup {NoRanks} /\ UNCHANGED pgCard
     \/ /\ pgCard' \in {[ranked |-> r, failed |-> FALSE] : r \in Rankings \cup {NoRanks}}
                        \cup {[pgCard EXCEPT !.failed = TRUE]}
        /\ UNCHANGED pgRanked
  /\ UNCHANGED <<pgQuotes, pgBars, pgView>>

\* Only the history of the selected index is asked for, and the request is aborted
\* when another is selected; an answer may be empty.
HistoryAnswered ==
  LET i == pgView.index IN
  /\ pgBars' \in {[pgBars EXCEPT ![i] = [of |-> bars, failed |-> FALSE]] : bars \in {i, NoData}}
                 \cup {[pgBars EXCEPT ![i].failed = TRUE]}
  /\ UNCHANGED <<pgQuotes, pgRanked, pgCard, pgView>>

ChooseView ==
  /\ \/ \E t \in {"gainers", "losers", "volume"} : pgView' = [pgView EXCEPT !.movers = t]
     \/ \E f \in {"all", "gainers", "losers"} : pgView' = [pgView EXCEPT !.filter = f]
     \/ \E i \in Indices : pgView' = [pgView EXCEPT !.index = i]
  /\ UNCHANGED <<pgQuotes, pgRanked, pgCard, pgBars>>

MarketPagesNext ==
  \/ \E s \in PageStocks : Tick(s)
  \/ MoversAnswered \/ HistoryAnswered \/ ChooseView

-----------------------------------------------------------------------------
\* The rows of the movers table: the ranking's, or the page's own from the quotes
\* it has.

FirstRows(rows) == SubSeq(rows, 1, IF Len(rows) < MoverLimit THEN Len(rows) ELSE MoverLimit)

\* Stocks by a movement, the highest first; two of the same movement in either order.
Ranked(stocks, move) ==
  CHOOSE rows \in [1..Cardinality(stocks) -> stocks] :
    /\ Range(rows) = stocks
    /\ \A i, j \in DOMAIN rows : i < j => move[rows[i]] >= move[rows[j]]

OwnMovers(tab) ==
  FirstRows(
    CASE tab = "gainers" -> Ranked({s \in PageStocks : Moved(s) /\ Move(s) > 0},
                                   [s \in PageStocks |-> Move(s)])
      [] tab = "losers" -> Ranked({s \in PageStocks : Moved(s) /\ Move(s) < 0},
                                  [s \in PageStocks |-> -Move(s)])
      [] OTHER -> SetToSeq({s \in PageStocks : Known(s)}))

MoverRows ==
  LET ranked == IF pgRanked = NoData \/ pgView.movers = "volume" THEN {}
                ELSE pgRanked[pgView.movers] IN
  IF ranked # {} THEN FirstRows(SetToSeq(ranked)) ELSE OwnMovers(pgView.movers)

MoversBody == IF MoverRows # <<>> THEN "rows"
              ELSE IF pgRanked = NoData THEN "loading" ELSE "No market mover updates available"

\* The movers card of the dashboard tells a failure.
CardBody ==
  IF pgCard.ranked # NoData /\ pgCard.ranked.gainers # {} THEN "rows"
  ELSE IF pgCard.failed THEN "Market Rankings Unavailable"
  ELSE IF pgCard.ranked = NoData THEN "Fetching" ELSE "No Fresh Rankings Available"

\* A card of a stock, and the gauge of the market's mood.
StockCard(s) == [price |-> Known(s), move |-> IF Moved(s) THEN pgQuotes[s] ELSE NoMove]

Mood(s) == IF ~Moved(s) THEN "Awaiting"
           ELSE IF Move(s) > 0 THEN "Bullish" ELSE IF Move(s) < 0 THEN "Bearish" ELSE "Range"

\* The sectors of both pages.
Constituents(id) == {s \in PageSectors[id] : Moved(s)}

Sector(id) ==
  LET of == Constituents(id) IN
  [id |-> id, observed |-> Cardinality(of), gainers |-> Cardinality({s \in of : Move(s) > 0}),
   losers |-> Cardinality({s \in of : Move(s) < 0}),
   sum |-> SumFunctionOnSet([s \in of |-> Move(s)], of),
   top |-> {s \in of : \A t \in of : Move(t) <= Move(s)}]

\* The dashboard's table of them, filtered.
SectorRows ==
  {r \in {Sector(id) : id \in DOMAIN PageSectors} :
     CASE pgView.filter = "gainers" -> r.sum > 0 [] pgView.filter = "losers" -> r.sum < 0
       [] OTHER -> TRUE}

\* The overview chart.
Chart ==
  LET bars == pgBars[pgView.index] IN
  [drawn |-> bars.of, warning |-> bars.failed,
   message |-> IF bars.of # NoData THEN "none"
               ELSE IF bars.failed THEN "Index Chart Unavailable" ELSE "waiting"]

-----------------------------------------------------------------------------
\* The movers, the cards, the sectors and the mood are computed apart, from quotes
\* of which some have a price and no movement and from rankings that come late or
\* empty: a stock that one of them counts has moved for all of them, in the same
\* direction, the page's own ranking and the sectors agree on who leads, and the
\* chart is the selected index's whatever was selected before it.
PagesAgree ==
  /\ \A r \in SectorRows :
       /\ r.observed = Cardinality({s \in PageSectors[r.id] : StockCard(s).move # NoMove})
       /\ pgView.filter = "gainers" => \E s \in PageSectors[r.id] : Mood(s) = "Bullish"
       /\ \A s \in r.top : StockCard(s).price /\ (r.gainers > 0 => Mood(s) = "Bullish")
  /\ pgRanked \in {NoData, NoRanks} /\ pgView.movers = "gainers" =>
       /\ \A i \in DOMAIN MoverRows : Mood(MoverRows[i]) = "Bullish"
       /\ \A id \in DOMAIN PageSectors : \A s \in Sector(id).top :
            Mood(s) = "Bullish" => MoverRows # <<>> /\ Move(MoverRows[1]) >= Move(s)
  /\ MoversBody = "No market mover updates available" /\ pgView.movers = "volume" =>
       \A s \in PageStocks : ~StockCard(s).price
  /\ CardBody \in {"Fetching", "No Fresh Rankings Available"} => ~pgCard.failed
  /\ Chart.drawn \in {NoData, pgView.index}
=============================================================================
