-------------------------------- MODULE Desk --------------------------------
(***************************************************************************)
(* The pages a user works with and what feeds them.  `deskPart` is the     *)
(* part at work: a page that is open, or one side of the stream of quotes. *)
(* Each keeps its state to itself, in components that are gone when their  *)
(* page is left, under query keys of its own or in a process of its own,   *)
(* and so each runs alone here, against the backend, the network and the   *)
(* market that it depends on.                                              *)
(***************************************************************************)
EXTENDS Figures, Intents, OrdersDesk, Watchlists, MarketFeed, MarketPages, AccountCards,
        QuoteHub, AccountBook, TradeJournal, PriceChart, OrderReview, Subscriptions

VARIABLE deskPart

deskVars == <<deskPart, figVars, itVars, odVars, wlVars, mfVars, pgVars, acVars, hbVars,
              bkVars, jrVars, pcVars, rvVars, sbVars>>

Init ==
  /\ deskPart \in {"portfolio", "tickets", "orders", "note", "watchlist", "quotes", "market", "account",
                  "hub", "book", "journal", "chart", "review", "names"}
  /\ FiguresInit /\ IntentsInit /\ OrdersInit /\ WatchlistsInit
  /\ MarketFeedInit /\ MarketPagesInit /\ AccountCardsInit /\ QuoteHubInit
  /\ AccountBookInit /\ TradeJournalInit /\ PriceChartInit /\ ReviewInit
  /\ SubscriptionsInit
  \* One initial state is enough of a part that is not at work.
  /\ deskPart = "portfolio" \/ figPositions = {}
  /\ deskPart = "tickets" \/ itPage = "stock"
  /\ deskPart = "orders" \/ odView.tab = "orders"
  /\ deskPart = "watchlist" \/ (wlCloud = {} /\ wlLegacy = {})
  /\ deskPart = "account" \/ acAccount.held = 0
  /\ deskPart = "book" \/ bkPage = "wallet"
  /\ deskPart = "review" \/ (rvForm.book = "FUTURE" /\ rvAccount.book = "FUTURE")

At(part) == deskPart = part /\ UNCHANGED deskPart

Next ==
  \/ /\ At("portfolio")
     /\ UNCHANGED <<itVars, odVars, wlVars, mfVars, pgVars, acVars, hbVars, bkVars, jrVars, pcVars, rvVars, sbVars>>
     /\ FiguresNext
  \/ /\ At("tickets")
     /\ UNCHANGED <<figVars, odVars, wlVars, mfVars, pgVars, acVars, hbVars, bkVars, jrVars, pcVars, rvVars, sbVars>>
     /\ IntentsNext
  \/ /\ At("orders")
     /\ UNCHANGED <<figVars, itVars, wlVars, mfVars, pgVars, acVars, hbVars, bkVars, jrVars, pcVars, rvVars, sbVars>>
     /\ OrdersNext
  \/ /\ At("note")
     /\ UNCHANGED <<figVars, itVars, wlVars, mfVars, pgVars, acVars, hbVars, bkVars, jrVars, pcVars, rvVars, sbVars>>
     /\ NoteNext
  \/ /\ At("watchlist")
     /\ UNCHANGED <<figVars, itVars, odVars, mfVars, pgVars, acVars, hbVars, bkVars, jrVars, pcVars, rvVars, sbVars>>
     /\ WatchlistsNext
  \/ /\ At("quotes")
     /\ UNCHANGED <<figVars, itVars, odVars, wlVars, pgVars, acVars, hbVars, bkVars, jrVars, pcVars, rvVars, sbVars>>
     /\ MarketFeedNext
  \/ /\ At("market")
     /\ UNCHANGED <<figVars, itVars, odVars, wlVars, mfVars, acVars, hbVars, bkVars, jrVars, pcVars, rvVars, sbVars>>
     /\ MarketPagesNext
  \/ /\ At("account")
     /\ UNCHANGED <<figVars, itVars, odVars, wlVars, mfVars, pgVars, hbVars, bkVars, jrVars, pcVars, rvVars, sbVars>>
     /\ AccountCardsNext
  \/ /\ At("hub")
     /\ UNCHANGED <<figVars, itVars, odVars, wlVars, mfVars, pgVars, acVars, bkVars, jrVars, pcVars, rvVars, sbVars>>
     /\ QuoteHubNext
  \/ /\ At("book")
     /\ UNCHANGED <<figVars, itVars, odVars, wlVars, mfVars, pgVars, acVars, hbVars, jrVars, pcVars, rvVars, sbVars>>
     /\ AccountBookNext
  \/ /\ At("journal")
     /\ UNCHANGED <<figVars, itVars, odVars, wlVars, mfVars, pgVars, acVars, hbVars, bkVars, pcVars, rvVars, sbVars>>
     /\ TradeJournalNext
  \/ /\ At("chart")
     /\ UNCHANGED <<figVars, itVars, odVars, wlVars, mfVars, pgVars, acVars, hbVars, bkVars, jrVars, rvVars, sbVars>>
     /\ PriceChartNext
  \/ /\ At("review")
     /\ UNCHANGED <<figVars, itVars, odVars, wlVars, mfVars, pgVars, acVars, hbVars, bkVars, jrVars, pcVars, sbVars>>
     /\ ReviewNext
  \/ /\ At("names")
     /\ UNCHANGED <<figVars, itVars, odVars, wlVars, mfVars, pgVars, acVars, hbVars, bkVars, jrVars, pcVars, rvVars>>
     /\ SubscriptionsNext

DeskSpec == Init /\ [][Next]_deskVars

-----------------------------------------------------------------------------
\* Two places that show one fact agree: the figures of the portfolio pages, the stocks,
\* sectors and charts of the pages of the market, the cards of an account that was
\* reset, and the funds a ticket asks for and the order it places.
ScreensAgree ==
  /\ deskPart = "portfolio" => FiguresAgree
  /\ deskPart = "market" => PagesAgree
  /\ deskPart = "account" => AccountCardsTrue
  /\ deskPart = "review" => ReviewAgrees
=============================================================================
