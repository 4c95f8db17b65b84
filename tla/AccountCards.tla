---------------------------- MODULE AccountCards ----------------------------
(***************************************************************************)
(* The cards about the account on the pages of the market: "Your           *)
(* investments" of StocksExplorePage, and the positions of DashboardPage   *)
(* with the reset of the simulation that it offers.  Both read the last    *)
(* answer of GET /portfolio, which is polled and outlives a failed poll.   *)
(***************************************************************************)
EXTENDS Naturals

CONSTANTS MaxResets,  \* bound: resets of the simulation
          NoFolio     \* no answer yet

ASSUME ResetsAssumption == MaxResets \in Nat

VARIABLES
  acAccount,   \* the backend: resets so far, positions
  acFolio,     \* GET /portfolio: the last answer, the one on its way, failed, and
               \* whether a reset fell in vain on its first fetch
  acReset      \* the dashboard's reset, what the last one was told, and its epoch

acVars == <<acAccount, acFolio, acReset>>

AccountCardsInit ==
  /\ acAccount \in [epoch : {0}, held : 0..1]
  /\ acFolio = [data |-> NoFolio, coming |-> NoFolio, failed |-> FALSE, inVain |-> FALSE]
  /\ acReset = [phase |-> "idle", told |-> "nothing", epoch |-> 0]

-----------------------------------------------------------------------------
\* What GET /portfolio answers now, with the status of the quotes it used.
FolioNow(account) == {[epoch |-> account.epoch, held |-> account.held, status |-> s] :
                        s \in {"REALTIME", "STALE", "DEGRADED"}}

\* A fill opens or closes a position.
AccountFilled ==
  /\ acAccount' = [acAccount EXCEPT !.held = 1 - @]
  /\ UNCHANGED <<acFolio, acReset>>

\* A fetch that has nothing to fall back on forgets that the one before it failed.
FolioFetch(a) == [acFolio EXCEPT !.coming = a, !.failed = @ /\ acFolio.data # NoFolio]

FolioAsked ==
  /\ acFolio.coming = NoFolio
  /\ \E a \in FolioNow(acAccount) : acFolio' = FolioFetch(a)
  /\ UNCHANGED <<acAccount, acReset>>

\* The toast of a reset that waits for this refetch comes with it, even when the
\* refetch fails.
FolioAnswered ==
  /\ acFolio.coming # NoFolio
  /\ acFolio' \in {[data |-> acFolio.coming, coming |-> NoFolio, failed |-> FALSE,
                     inVain |-> acFolio.inVain /\ acFolio.data = NoFolio],
                   [acFolio EXCEPT !.coming = NoFolio, !.failed = TRUE, !.inVain = FALSE]}
  /\ acReset' = IF acReset.phase = "refetching"
                THEN [acReset EXCEPT !.phase = "idle", !.told = "restored"] ELSE acReset
  /\ UNCHANGED acAccount

\* handleResetSimulation: the button is disabled while a reset is under way.
ResetPressed ==
  /\ acReset.phase = "idle" /\ acAccount.epoch < MaxResets
  /\ acReset' = [phase |-> "posted", told |-> "nothing", epoch |-> acAccount.epoch]
  /\ UNCHANGED <<acAccount, acFolio>>

\* The account is reset unless the request is lost; its answer may be lost too.
ResetAnswered ==
  /\ acReset.phase = "posted"
  /\ LET fresh == [epoch |-> acAccount.epoch + 1, held |-> 0] IN
     \/ /\ acAccount' = fresh
        /\ acReset' = [acReset EXCEPT !.phase = "wallet", !.epoch = fresh.epoch]
     \/ /\ acAccount' \in {acAccount, fresh}
        /\ acReset' = [acReset EXCEPT !.phase = "idle", !.told = "failed"]
  /\ UNCHANGED acFolio

\* invalidateQueries: a poll under way is cancelled and asked again, but a first
\* fetch under way is waited for, though it may have been read before the reset.
Refetch(a) ==
  IF acFolio.data = NoFolio /\ acFolio.coming # NoFolio
  THEN [acFolio EXCEPT !.inVain = acFolio.coming.epoch < acReset.epoch]
  ELSE FolioFetch(a)

\* Once the wallet was fetched again, well or not, so are the positions.
WalletRefetched ==
  /\ acReset.phase = "wallet" /\ acReset' = [acReset EXCEPT !.phase = "refetching"]
  /\ \E a \in FolioNow(acAccount) : acFolio' = Refetch(a)
  /\ UNCHANGED acAccount

AccountCardsNext == AccountFilled \/ FolioAsked \/ FolioAnswered \/ ResetPressed \/ ResetAnswered
                    \/ WalletRefetched

-----------------------------------------------------------------------------
\* valuationStatus, and what an error makes of it.
ShownStatus ==
  IF acFolio.data = NoFolio THEN "DEGRADED"
  ELSE IF acFolio.failed /\ acFolio.data.status = "REALTIME" THEN "STALE" ELSE acFolio.data.status

\* "Your investments" of the explore page.
InvestmentsCard ==
  [body |-> IF acFolio.data = NoFolio
            THEN IF acFolio.failed THEN "Portfolio Unavailable" ELSE "Loading portfolio"
            ELSE IF acFolio.data.held = 0 THEN "You haven't invested" ELSE "positions",
   pnl |-> ShownStatus # "DEGRADED",
   note |-> ShownStatus # "REALTIME",
   alert |-> acFolio.failed]

\* The dashboard's card draws the same empty state for no answer.
PositionsCard ==
  [body |-> IF acFolio.data = NoFolio \/ acFolio.data.held = 0 THEN "empty" ELSE "positions",
   alert |-> acFolio.failed]

-----------------------------------------------------------------------------
\* Once the dashboard says that the simulation was restored, neither page shows
\* positions from before it without a warning, whichever polls were under way when
\* it was reset and whatever failed since, with one exception: the answer of a first
\* fetch that the reset found under way, until the next one. And a figure that is shown
\* without a note comes from an answer that nothing has overtaken.
AccountCardsTrue ==
  /\ acReset.told = "restored" /\ acReset.phase = "idle" =>
       \/ acFolio.data = NoFolio \/ acFolio.data.epoch >= acReset.epoch
       \/ InvestmentsCard.alert /\ PositionsCard.alert
       \/ acFolio.inVain
  /\ InvestmentsCard.pnl /\ ~InvestmentsCard.note =>
       ~acFolio.failed /\ acFolio.data.status = "REALTIME"
=============================================================================
