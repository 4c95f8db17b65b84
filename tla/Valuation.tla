------------------------------ MODULE Valuation ------------------------------
(***************************************************************************)
(* The figures of an account as the pages compute them: the portfolio page *)
(* (app/(trading)/portfolio/page.tsx), its tables and views                *)
(* (components/portfolio), the dashboard snapshot and the shared card, from*)
(* the server's answer (internal/portfolio/service/portfolio_service.go)   *)
(* and the live quotes of the market store.                                *)
(*                                                                         *)
(* Amounts are in paise.  A percentage is kept as the pair of amounts it is *)
(* the quotient of.  `Unknown` is the `undefined` that renders as a dash.  *)
(***************************************************************************)
EXTENDS Integers, FiniteSets, Functions

CONSTANT Unknown

ASSUME UnknownAssumption == Unknown \notin Int

\* A position of the answer: its kind (CNC, MIS, FUT, OPT) and the product that
\* follows from it, the signed quantity, what it cost and the average price that is
\* rounded down from it, the mark the server put on it (0: none), what it says of the
\* quote and the blocked margin.
Magnitude(qty) == IF qty < 0 THEN -qty ELSE qty
Position(id, kind, qty, cost, mark, status, margin) ==
  [id |-> id, kind |-> kind, qty |-> qty, cost |-> cost, avg |-> cost \div Magnitude(qty),
   mark |-> mark, status |-> status, margin |-> margin,
   product |-> CASE kind = "CNC" -> "DELIVERY" [] kind = "MIS" -> "INTRADAY" [] OTHER -> "FNO"]

Size(p) == Magnitude(p.qty)
Invested(p) == p.cost
ServedValue(p) == Size(p) * p.mark
Gain(p, price) == IF p.qty < 0 THEN (p.avg - price) * Size(p)
                               ELSE (price - p.avg) * Size(p)
ServedPnl(p) == IF p.qty = 0 \/ p.mark = 0 THEN 0 ELSE Gain(p, p.mark)

Total(S, f(_)) == SumFunctionOnSet([x \in S |-> f(x)], S)

\* The status of the whole answer.
ServedStatus(positions) ==
  IF positions = {} THEN "REALTIME"
  ELSE IF \E p \in positions : p.status = "UNAVAILABLE" THEN "DEGRADED"
  ELSE IF \E p \in positions : p.status = "STALE" THEN "STALE"
  ELSE "REALTIME"

-----------------------------------------------------------------------------
\* The portfolio page.

\* A quote is usable when the last refresh of the portfolio succeeded and the
\* store or the answer has any price.
IsAvail(p, live, failed) ==
  ~failed /\ (live > 0 \/ p.status # "UNAVAILABLE" \/ p.mark > 0)

\* The last traded price: the store's, the recorded one, or the cost.
Ltp(p, live, failed) ==
  IF live > 0 THEN live
  ELSE IF p.mark > 0 THEN p.mark
  ELSE IF IsAvail(p, live, failed) THEN p.avg ELSE 0

\* An item of the Holdings tab.
Holding(p, live, failed) ==
  LET avail == IsAvail(p, live, failed)
      value == IF avail THEN Ltp(p, live, failed) * p.qty ELSE ServedValue(p) IN
  [id |-> p.id, qty |-> p.qty, ltp |-> Ltp(p, live, failed), avail |-> avail,
   invested |-> Invested(p), value |-> value,
   pnl |-> IF avail THEN value - Invested(p) ELSE ServedPnl(p)]

Holdings(positions, quotes, failed) ==
  {Holding(p, quotes[p.id], failed) :
     p \in {p \in positions : p.product = "DELIVERY" /\ p.qty > 0}}

\* The shares of the holdings in their total, which leaves out what has no
\* quote; without a total every holding weighs the same.
HoldingsTotal(holdings) == Total({h \in holdings : h.avail}, LAMBDA h : h.value)
Weight(h, holdings) ==
  IF HoldingsTotal(holdings) > 0 THEN <<h.value, HoldingsTotal(holdings)>>
  ELSE <<1, Cardinality(holdings)>>

\* An item of the Positions tab, revalued where a price is known.
ActiveItem(p, live, failed) ==
  LET avail == IsAvail(p, live, failed)
      ltp == Ltp(p, live, failed) IN
  [p |-> p, ltp |-> ltp, avail |-> avail,
   value |-> IF avail /\ ltp > 0 THEN Size(p) * ltp ELSE ServedValue(p),
   pnl |-> IF avail /\ ltp > 0 THEN Gain(p, ltp) ELSE ServedPnl(p),
   status |-> IF live > 0 THEN "FRESH" ELSE p.status]

Actives(positions, quotes, failed) ==
  {ActiveItem(p, quotes[p.id], failed) :
     p \in {p \in positions : p.product # "DELIVERY" \/ p.qty < 0}}

\* The figures above the tabs.
Headline(positions, quotes, failed, tab) ==
  LET hs == Holdings(positions, quotes, failed)
      as == Actives(positions, quotes, failed)
      invested == IF tab = "POSITIONS" THEN Total(as, LAMBDA a : Invested(a.p))
                                       ELSE Total(hs, LAMBDA h : h.invested)
      value == IF tab = "POSITIONS" THEN Total(as, LAMBDA a : a.value)
                                    ELSE Total(hs, LAMBDA h : h.value)
      pnl == IF tab = "POSITIONS" THEN Total(as, LAMBDA a : a.pnl)
                                  ELSE value - invested
      known == ~failed /\ (positions = {} \/ value > 0 \/ invested > 0) IN
  [known |-> known, invested |-> IF failed THEN Unknown ELSE invested,
   value |-> IF known THEN value ELSE Unknown,
   pnl |-> IF known THEN pnl ELSE Unknown]

-----------------------------------------------------------------------------
\* The tables below it.

\* HoldingsTable: what a row shows, and the footer.
HoldingRow(h) ==
  [value |-> IF h.value > 0 \/ h.avail THEN h.value ELSE Unknown,
   pnl |-> IF h.avail THEN h.pnl ELSE Unknown]

HoldingTotals(holdings) ==
  LET quoted == holdings = {} \/ \E h \in holdings : h.avail \/ h.ltp > 0 IN
  [invested |-> Total(holdings, LAMBDA h : h.invested),
   value |-> IF quoted THEN Total(holdings, LAMBDA h : h.value) ELSE Unknown,
   pnl |-> IF quoted THEN Total(holdings, LAMBDA h : h.pnl) ELSE Unknown]

\* Fault: a short position gains like a long one.
LongRow(a, live) ==
  LET quoted == live > 0
      price == IF quoted THEN live ELSE a.ltp
      avail == quoted \/ a.avail IN
  [p |-> a.p, avail |-> avail, status |-> IF quoted THEN "FRESH" ELSE a.status,
   value |-> IF avail /\ price > 0 THEN Size(a.p) * price ELSE a.value,
   pnl |-> IF avail /\ price > 0 THEN (price - a.p.avg) * Size(a.p) ELSE a.pnl]

\* PositionsTable takes the page's items and values them again.
PositionRow(a, live) ==
  LET quoted == live > 0
      price == IF quoted THEN live ELSE a.ltp
      avail == quoted \/ a.avail IN
  [p |-> a.p, avail |-> avail, status |-> IF quoted THEN "FRESH" ELSE a.status,
   value |-> IF avail /\ price > 0 THEN Size(a.p) * price ELSE a.value,
   pnl |-> IF avail /\ price > 0 THEN Gain(a.p, price) ELSE a.pnl]

RowKnown(r) == r.status # "UNAVAILABLE" /\ r.avail
RowShows(r) == [value |-> IF RowKnown(r) THEN r.value ELSE Unknown,
                pnl |-> IF RowKnown(r) THEN r.pnl ELSE Unknown]

\* Its strip of totals, over the rows of the chosen segment.
InSegment(r, segment) == segment = "ALL" \/ r.p.product = segment
SegmentStats(rows, segment) ==
  LET shown == {r \in rows : InSegment(r, segment)}
      known == \A r \in shown : r.avail /\ r.p.status # "STALE"
      counted == {r \in shown : RowKnown(r)} IN
  [invested |-> Total(shown, LAMBDA r : Invested(r.p)),
   value |-> IF known THEN Total(counted, LAMBDA r : r.value) ELSE Unknown,
   pnl |-> IF known THEN Total(counted, LAMBDA r : r.pnl) ELSE Unknown]

Rows(positions, quotes, failed) ==
  {PositionRow(a, quotes[a.p.id]) : a \in Actives(positions, quotes, failed)}

-----------------------------------------------------------------------------
\* The Allocation tab: five segments of the capital.

Segments(holdings, actives, cash) ==
  LET of(kind) == {a \in actives : a.p.kind = kind} IN
  [EQUITY |-> Total(holdings, LAMBDA h : h.value),
   FUTURES |-> Total(of("FUT"), LAMBDA a : a.p.margin),
   OPTIONS |-> Total(of("OPT"), LAMBDA a : a.value),
   INTRADAY |-> Total(of("MIS"), LAMBDA a : a.p.margin),
   CASH |-> cash]

TotalCapital(parts) ==
  parts.EQUITY + parts.FUTURES + parts.OPTIONS + parts.INTRADAY + parts.CASH

\* Without an answer about the risk the view shows its own estimate.
RiskPanel(overview, parts) ==
  IF overview # Unknown
  THEN [status |-> overview, live |-> TRUE, blocked |-> Unknown]
  ELSE [status |-> "HEALTHY", live |-> FALSE, blocked |-> parts.FUTURES + parts.INTRADAY]

-----------------------------------------------------------------------------
\* The dashboard's snapshot takes the server's own totals.  An error marks the
\* valuation as stale, a missing answer as degraded.
SnapshotStatus(loaded, positions, failed) ==
  IF ~loaded THEN "DEGRADED"
  ELSE IF failed /\ ServedStatus(positions) # "DEGRADED" THEN "STALE"
  ELSE ServedStatus(positions)

Snapshot(loaded, positions, failed) ==
  LET known == SnapshotStatus(loaded, positions, failed) # "DEGRADED"
      priced == {p \in positions : p.status # "UNAVAILABLE" \/ p.mark > 0} IN
  [badge |-> IF loaded /\ positions = {} THEN "No open positions"
             ELSE SnapshotStatus(loaded, positions, failed),
   value |-> IF known THEN Total(priced, ServedValue) ELSE Unknown,
   pnl |-> IF known THEN Total(priced, ServedPnl) ELSE Unknown]

\* The card to share counts the positions that gain and lose; it stands on the
\* figure it is given, zero when there is none.
Card(positions, pnl) ==
  [pnl |-> IF pnl = Unknown THEN 0 ELSE pnl,
   wins |-> Cardinality({p \in positions : ServedPnl(p) > 0}),
   losses |-> Cardinality({p \in positions : ServedPnl(p) < 0}),
   trades |-> Cardinality(positions)]
=============================================================================
