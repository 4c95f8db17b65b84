------------------------------- MODULE MCDesk -------------------------------
(***************************************************************************)
(* Values for the constants of Desk.                                       *)
(***************************************************************************)
EXTENDS Desk

CONSTANTS s1, s2, o1, o2, d1, d2, w1, a, aEQ, x1, x2, n1, n2, h1, h2,
          b1, c1, e1, e2

\* A delivery holding with and without a price, one that never had one, a short
\* intraday position and a short future: 100 on average paid for each.
Cnc(mark, status) == Position("h1", "CNC", 2, 201, mark, status, 0)
Unpriced == Position("h2", "CNC", 1, 100, 0, "UNAVAILABLE", 0)
Mis(mark, status) == Position("m1", "MIS", -1, 100, mark, status, 20)
Fut == Position("f1", "FUT", -2, 200, 97, "STALE", 40)

MCPortfolios == {{}, {Cnc(110, "FRESH"), Mis(90, "FRESH")},
                 {Cnc(0, "UNAVAILABLE"), Mis(95, "UNAVAILABLE"), Fut},
                 {Cnc(110, "FRESH"), Mis(95, "STALE")}, {Cnc(110, "FRESH"), Unpriced, Fut}}
MCSectors == [it |-> {"h1"}, bank |-> {"h2"}]

\* Square-offs of one position overlap: three keys show an answer that comes too late.
MCMaxKeys == [stock |-> 2, fno |-> 2, portfolio |-> 3]

MCFirstStatus == [o \in {o1, o2} |-> IF o = o1 THEN "OPEN" ELSE "TRIGGER_PENDING"]

\* Two names of one instrument.
MCSuffixed == [n \in {a, aEQ} |-> a]

\* A benchmark, the symbol selected first, and two names of pages and of a watchlist.
MCBenchmarks == <<b1>>
MCWatchlists == {<<>>, <<e1>>, <<e2, e1>>, <<b1, c1, e2>>}

MCPageSectors == [it |-> {x1}, bank |-> {x1, x2}]
MCPercents == {-1, 2}
MCRankings == {[gainers |-> {x1}, losers |-> {x2}]}

MCJournalTrades == [t \in {"t1", "t2"} |->
  IF t = "t1" THEN [product |-> "FNO", pnl |-> 2, month |-> 1]
  ELSE [product |-> "DELIVERY", pnl |-> -1, month |-> 0]]

\* A short future, a long option and shares, each with some cash left.
MCAccounts == {[free |-> 30, book |-> "FUTURE", qty |-> -1, avg |-> 100, margin |-> 20],
               [free |-> 250, book |-> "OPTION", qty |-> 1, avg |-> 90, margin |-> 0],
               [free |-> 60, book |-> "DELIVERY", qty |-> 1, avg |-> 90, margin |-> 0]}

\* A state is told by the part at work: the others never change. Requests of a ticket
\* under way are alike, and differ in their names.
ItView == <<deskPart, itPage, itHeld, itRows, {itPost[s] : s \in Slots}, itStock, itFno, itLost>>
\* What the stream is asked for decides nothing on the desk, and what is not stored is
\* the default.
WlView == <<wlCloud, wlAnswer, wlQuery, wlCalls, wlLists, wlTabs, wlStored.lists, StoredTabs,
            IF wlStored.active = Nothing THEN "wl1" ELSE wlStored.active, wlLegacy, wlFound, wlPalette>>

\* Of the market's status only counts until when the stream may stand for the polling,
\* of the names asked for which instruments they are of, and of the two names of the
\* instrument what is known under each, not which is which.
MfName(n) == <<mfPending[n], mfQuotes[n], mfRest[n],
               [i \in DOMAIN mfSocket.events |-> mfSocket.events[i].name = n]>>
MfView == <<mfNow, mfTrade, mfSocket.open, [i \in DOMAIN mfSocket.events |-> mfSocket.events[i].stamp],
            {CanonOf[n] : n \in mfAsked}, {MfName(n) : n \in FeedNames},
            [c \in Canons |-> IF IsFresh(mfSeen[c].at, StreamFresh) THEN mfSeen[c] ELSE Never],
            IF mfStatus.open /\ mfStatus.live THEN mfStatus.at ELSE 0>>

\* Of two indices counts what is known of the selected one, and of the other.
PgBar(i) == <<pgBars[i].of = NoData, pgBars[i].of = i, pgBars[i].failed>>
PgView == <<pgQuotes, pgRanked, pgCard, pgView.movers, pgView.filter, PgBar(pgView.index),
            {PgBar(i) : i \in Indices \ {pgView.index}}>>

\* Of two months counts which is known, the one that shows or the other.
JrView == <<jrEntries, jrTrades, jrEdits, jrSaves, jrOverlaps, jrTimers, jrFigures.performance,
            jrMonth \in jrFigures.calendars, jrFigures.calendars \ {jrMonth} = {}>>

\* Of the chart's session only counts whether it is known to be live, and of its archive
\* what it holds: a failure shows in the text over the canvas alone.
PcView == <<pcMinute, pcKnown, pcQuotes, SessionLive, pcArchive.bars, pcView, pcDrawn, pcLast, pcFresh>>

\* The wallet decides nothing on the stock ticket, nor does an estimate that the ticket
\* does not show before another one has come.
RvView == <<rvForm, rvQuote, rvReply.body, rvReply.fetching, rvReply.failed,
            IF rvReply.failed \/ (rvReply.fetching /\ ~InFno) THEN NoReply ELSE rvReply.data,
            rvAccount, IF InFno THEN rvWallet ELSE NoReply, rvPosted>>

MCView ==
  CASE deskPart = "portfolio" -> <<deskPart, figVars>> [] deskPart = "tickets" -> ItView
    [] deskPart \in {"orders", "note"} -> <<deskPart, odVars>> [] deskPart = "watchlist" -> <<deskPart, WlView>>
    [] deskPart = "quotes" -> <<deskPart, MfView>>     [] deskPart = "market" -> <<deskPart, PgView>>
    [] deskPart = "account" -> <<deskPart, acVars>>    [] deskPart = "hub" -> <<deskPart, hbVars>>
    [] deskPart = "book" -> <<deskPart, bkVars>>       [] deskPart = "journal" -> <<deskPart, JrView>>
    [] deskPart = "chart" -> <<deskPart, PcView>>      [] deskPart = "review" -> <<deskPart, RvView>>
    [] deskPart = "names" -> <<deskPart, sbVars>>
=============================================================================
