------------------------------ MODULE Figures ------------------------------
(***************************************************************************)
(* The pages that put a figure on an account: the portfolio page with its  *)
(* five tabs, the dashboard's snapshot and the card to share.  They read   *)
(* one answer of the backend, polled by useAccountPortfolio, the wallet's, *)
(* the risk engine's and the live quotes of the market store, each of      *)
(* which changes, fails or comes late on its own.                          *)
(*                                                                         *)
(* The operators that say what is shown are those of Valuation.            *)
(***************************************************************************)
EXTENDS Valuation

CONSTANTS Portfolios,  \* the sets of positions the account may hold
          Ticks,       \* live prices, 0 for a symbol nobody has a quote of
          Cashes,      \* available balances
          Sectors      \* the sector of a holding: sector -> set of position ids

FigureIds == {p.id : p \in UNION Portfolios}

\* What the backend keeps of a position: some shares or lots, an average that costs
\* what they cost but for a delivery, and a price with every quote that is fresh.
Kept(p) ==
  /\ p = Position(p.id, p.kind, p.qty, p.cost, p.mark, p.status, p.margin)
  /\ p.kind \in {"CNC", "MIS", "FUT", "OPT"} /\ p.qty \in Int \ {0}
  /\ {p.cost, p.mark, p.margin} \subseteq Nat
  /\ p.kind # "CNC" => p.cost = p.avg * Size(p)
  /\ p.status \in {"FRESH", "STALE", "UNAVAILABLE"} /\ (p.status = "FRESH" => p.mark > 0)

ASSUME FiguresAssumption ==
  /\ \A positions \in Portfolios :
       /\ IsFiniteSet(positions) /\ \A p \in positions : Kept(p)
       /\ \A p, q \in positions : p.id = q.id => p = q
  /\ Ticks \subseteq Nat

VARIABLES
  figPositions,  \* what the backend would answer now
  figAnswer,     \* the last answer of GET /portfolio, and whether a later one failed
  figWallet,     \* the available balance, Unknown while loading or failed
  figRisk,       \* the status of GET /risk/overview, Unknown without an answer
  figQuotes,     \* the market store
  figView        \* the tab, the segment and the sector the user chose

figVars == <<figPositions, figAnswer, figWallet, figRisk, figQuotes, figView>>

Tabs5 == {"HOLDINGS", "POSITIONS", "ALLOCATION", "ANALYTICS", "LEDGER"}
FirstView == [tab |-> "HOLDINGS", segment |-> "ALL", sector |-> "ALL"]

FiguresInit ==
  /\ figPositions \in Portfolios
  /\ figAnswer = [loaded |-> FALSE, positions |-> {}, failed |-> FALSE]
  /\ figWallet = Unknown /\ figRisk = Unknown
  /\ figQuotes = [id \in FigureIds |-> 0]
  /\ figView = FirstView

-----------------------------------------------------------------------------
\* A fill, a square-off or another mark.
AccountMoves ==
  /\ figPositions' \in Portfolios
  /\ UNCHANGED <<figAnswer, figWallet, figRisk, figQuotes, figView>>

\* A failure keeps the positions of the last answer.
PortfolioPolled ==
  /\ \/ figAnswer' = [loaded |-> TRUE, positions |-> figPositions, failed |-> FALSE]
     \/ figAnswer' = [figAnswer EXCEPT !.failed = TRUE]
  /\ UNCHANGED <<figPositions, figWallet, figRisk, figQuotes, figView>>

\* A failure hides the balance.
WalletPolled ==
  /\ figWallet' \in Cashes \cup {Unknown}
  /\ UNCHANGED <<figPositions, figAnswer, figRisk, figQuotes, figView>>

RiskPolled ==
  /\ figRisk = Unknown /\ figRisk' = "WARNING"
  /\ UNCHANGED <<figPositions, figAnswer, figWallet, figQuotes, figView>>

\* Only the symbols of the answer are subscribed to.
QuoteTicks(id) ==
  /\ \E p \in figAnswer.positions : p.id = id
  /\ figQuotes' \in {[figQuotes EXCEPT ![id] = price] : price \in Ticks}
  /\ UNCHANGED <<figPositions, figAnswer, figWallet, figRisk, figView>>

\* A tab's body is mounted anew and starts with all segments and sectors.
OpenTab(tab) ==
  /\ tab # figView.tab
  /\ figView' = [FirstView EXCEPT !.tab = tab]
  /\ UNCHANGED <<figPositions, figAnswer, figWallet, figRisk, figQuotes>>

SelectSegment(segment) ==
  /\ figView.tab = "POSITIONS" /\ figAnswer.positions # {}
  /\ figView' = [figView EXCEPT !.segment = segment]
  /\ UNCHANGED <<figPositions, figAnswer, figWallet, figRisk, figQuotes>>

SelectSector(sector) ==
  /\ figView.tab = "HOLDINGS"
  /\ figView' = [figView EXCEPT !.sector = sector]
  /\ UNCHANGED <<figPositions, figAnswer, figWallet, figRisk, figQuotes>>

FiguresNext ==
  \/ AccountMoves \/ PortfolioPolled \/ WalletPolled \/ RiskPolled
  \/ \E id \in FigureIds : QuoteTicks(id)
  \/ \E tab \in Tabs5 : OpenTab(tab)
  \/ \E segment \in {"ALL", "DELIVERY", "INTRADAY", "FNO"} : SelectSegment(segment)
  \/ \E sector \in DOMAIN Sectors \cup {"ALL"} : SelectSector(sector)

-----------------------------------------------------------------------------
\* What is on the screen.

ShownHoldings == Holdings(figAnswer.positions, figQuotes, figAnswer.failed)
ShownActives == Actives(figAnswer.positions, figQuotes, figAnswer.failed)
ShownHeadline(tab) == Headline(figAnswer.positions, figQuotes, figAnswer.failed, tab)
HeadlineKnown == figAnswer.loaded /\ ShownHeadline(figView.tab).known

\* The warning above the header and the badge in it.
AccountNotice == ~figAnswer.loaded \/ figAnswer.failed \/ figWallet = Unknown
LiveBadge == figAnswer.loaded /\ ServedStatus(figAnswer.positions) = "REALTIME"

\* The body of the chosen tab; two of them are drawn only from known figures.
Body ==
  IF figView.tab \in {"ALLOCATION", "ANALYTICS"} /\ (figWallet = Unknown \/ ~HeadlineKnown)
  THEN "nothing" ELSE figView.tab

\* The holdings table: the rows of the chosen sector, or an empty message.
HoldingsBody ==
  LET rows == {h \in ShownHoldings :
                 figView.sector = "ALL" \/ h.id \in Sectors[figView.sector]} IN
  [rows |-> rows, empty |-> rows = {}, totals |-> HoldingTotals(rows)]

\* The positions table: a message, or the segments with their counts, a strip
\* of totals and the button that closes them all.
PositionsBody ==
  LET rows == {PositionRow(a, figQuotes[a.p.id]) : a \in ShownActives}
      shown == {r \in rows : InSegment(r, figView.segment)} IN
  [empty |-> rows = {}, rows |-> shown, stats |-> SegmentStats(rows, figView.segment),
   counts |-> [s \in {"DELIVERY", "INTRADAY", "FNO"} |->
                 Cardinality({r \in rows : r.p.product = s})],
   bulk |-> shown # {},
   banner |-> figView.segment = "INTRADAY" /\ \E r \in rows : r.p.product = "INTRADAY"]

AllocationBody ==
  LET parts == Segments(ShownHoldings, ShownActives, figWallet) IN
  [parts |-> parts, total |-> TotalCapital(parts), risk |-> RiskPanel(figRisk, parts)]

\* The dashboard beside it reads the same answers.
ShownSnapshot == Snapshot(figAnswer.loaded, figAnswer.positions, figAnswer.failed)

\* The card's figure is the header's, of whichever tab is open.
ShownCard == Card(figAnswer.positions, ShownHeadline(figView.tab).pnl)

-----------------------------------------------------------------------------
\* The page's header and the table under it value the same positions twice, in
\* different files and from separate reads of the store: whenever both give a
\* figure it is the same one, but for the positions whose quote is unavailable: the
\* header keeps them at their recorded price, the table's strip leaves them out.
\* (A holding without any price is a total loss to the header and none to the table.)
HeaderMatchesTable ==
  /\ HeadlineKnown /\ Body = "POSITIONS" /\ figView.segment = "ALL" =>
       LET unquoted == {a \in ShownActives : a.status = "UNAVAILABLE"} IN
       PositionsBody.stats.pnl \in
         {Unknown, ShownHeadline("POSITIONS").pnl - Total(unquoted, LAMBDA a : a.pnl)}
  /\ HeadlineKnown /\ Body = "HOLDINGS" /\ figView.sector = "ALL" =>
       /\ HoldingsBody.totals.value \in {Unknown, ShownHeadline("HOLDINGS").value}
       /\ (\A h \in ShownHoldings : h.avail) =>
            HoldingsBody.totals.pnl \in {Unknown, ShownHeadline("HOLDINGS").pnl}

\* The weights of the holdings table fill the whole, whatever quotes are missing.
WeightsAddUp ==
  LET weights == {<<h, Weight(h, ShownHoldings)>> : h \in ShownHoldings} IN
  \A w \in weights : Total(weights, LAMBDA v : v[2][1]) = w[2][2]

\* The dashboard takes the server's totals, the portfolio page adds up its own:
\* without a live quote to change them both tell the same profit.  (The server reckons
\* a holding from its rounded average, the page from its cost: the page is behind by
\* less than a paisa a share.)
DashboardMatchesPortfolio ==
  LET dashboard == ShownSnapshot.pnl
      pages == {ShownHeadline(tab) : tab \in {"HOLDINGS", "POSITIONS"}} IN
  /\ dashboard # Unknown
  /\ \A id \in FigureIds : figQuotes[id] = 0
  /\ \A page \in pages : page.known
  => dashboard - ShownHeadline("HOLDINGS").pnl - ShownHeadline("POSITIONS").pnl
       \in 0..Total(ShownHoldings, LAMBDA h : h.qty - 1)

\* No figure of an account is given two values on one screen.
FiguresAgree == HeaderMatchesTable /\ WeightsAddUp /\ DashboardMatchesPortfolio
=============================================================================
