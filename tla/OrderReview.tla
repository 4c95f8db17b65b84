----------------------------- MODULE OrderReview -----------------------------
(***************************************************************************)
(* What the two order tickets show of an order before it is placed, and    *)
(* when they let it be: the fields (StockDetailsPage, FnoOrderModal), the  *)
(* quote, the wallet and the server's estimate of the funds                *)
(* (internal/order/service/preview.go), held against what placing and      *)
(* settling the order then ask for.  The request itself, its key and its   *)
(* outcome are in Intents.                                                 *)
(*                                                                         *)
(* The account has no other order, and so no other sale of its shares.     *)
(* The stock ticket's session is taken with its quote: "LIVE" is both.     *)
(***************************************************************************)
EXTENDS Integers, FiniteSetsExt

CONSTANTS MISLeverage, FuturesMarginPercent, OptionSellMarginPercent,
          ReviewPrices,   \* what a quote says
          LotInputs,      \* units or lots typed, 0 for what is no whole number
          TypedLimits,    \* limits typed, 0 for none
          Accounts,       \* free cash, and a position: book, qty, avg, margin
          NoReply

ASSUME ReviewAssumption ==
  /\ MISLeverage \in Nat \ {0} /\ FuturesMarginPercent \in 1..100 /\ OptionSellMarginPercent \in 1..100
  /\ ReviewPrices \subseteq Nat /\ LotInputs \subseteq Nat /\ TypedLimits \subseteq Nat
  /\ Accounts \subseteq [free : Int, book : {"DELIVERY", "INTRADAY", "FUTURE", "OPTION"},
                         qty : Int, avg : Nat, margin : Nat]
  /\ NoReply \notin [account : Accounts, price : ReviewPrices]

VARIABLES
  rvForm,     \* book, side, type, lots, limit
  rvQuote,    \* the price on the ticket, 0 for none, and whether it is stale
  rvReply,    \* the query of the estimate: its body, data, fetching, failed
  rvAccount,  \* the backend
  rvWallet,   \* the answer of GET /wallet, or NoReply
  rvPosted

rvVars == <<rvForm, rvQuote, rvReply, rvAccount, rvWallet, rvPosted>>

Rules == INSTANCE Accounting

StockBooks == {"DELIVERY", "INTRADAY"}
FnoBooks == {"FUTURE", "OPTION"}
InFno == rvForm.book \in FnoBooks

\* previewBody and `order`: an F&O limit nobody typed is the last price.
BodyOf(form, quote) ==
  [book |-> form.book, side |-> form.side, type |-> form.type, qty |-> form.lots,
   price |-> IF form.type = "MARKET" THEN 0
             ELSE IF form.book \in FnoBooks /\ form.limit = 0 THEN quote.price ELSE form.limit]
OrderBody == BodyOf(rvForm, rvQuote)

NewForm(book, type) == [book |-> book, side |-> "BUY", type |-> type, lots |-> 1, limit |-> 0]
NoQuoteYet == [price |-> 0, stale |-> FALSE]

ReviewInit ==
  /\ \E book \in StockBooks \cup FnoBooks : rvForm = NewForm(book, "MARKET")
  /\ rvQuote = NoQuoteYet
  /\ rvAccount \in Accounts
  /\ rvReply = [body |-> OrderBody, data |-> NoReply, fetching |-> InFno, failed |-> FALSE]
  /\ rvWallet = NoReply
  /\ rvPosted = FALSE

-----------------------------------------------------------------------------
\* Preview of the order service.

EstimatedPrice(b, price) ==
  IF b.type = "MARKET" THEN Rules!Slippage(b.qty, price, b.side) ELSE b.price

HeldIn(b, account) ==
  IF account.book = b.book THEN account ELSE [account EXCEPT !.qty = 0, !.avg = 0, !.margin = 0]

\* The margin a fill adds to the position's, and the cash it brings.
MarginDelta(b, p, price) ==
  Rules!MarginForPosition(b.book, Rules!TransitionQty(p.qty, b.qty, b.side),
                          Rules!TransitionAverage(p.qty, p.avg, b.qty, price, b.side)) - p.margin
CashFlow(b, p, price) ==
  IF b.book = "OPTION" THEN IF b.side = "SELL" THEN b.qty * price ELSE -(b.qty * price)
  ELSE Rules!TransitionRealized(p.qty, p.avg, b.qty, price, b.side)

RequiredFunds(b, account, quoted) ==
  LET price == EstimatedPrice(b, quoted)
      p == HeldIn(b, account)
      total == b.qty * price
      delta == MarginDelta(b, p, price)
  IN IF b.book = "DELIVERY" THEN IF b.side = "BUY" THEN total ELSE 0
     ELSE IF b.type = "LIMIT" THEN Rules!Margin(b.book, b.side, total)
     ELSE Max({0, delta, delta - CashFlow(b, p, price),
               IF b.book = "OPTION" /\ b.side = "BUY" THEN total ELSE 0})

\* A body that the service refuses has no estimate.
Estimable(b, account) ==
  /\ b.type = "LIMIT" => b.price > 0
  /\ b.book = "DELIVERY" /\ b.side = "SELL" => HeldIn(b, account).qty >= b.qty

\* What placing the order asks for: a limit its reservation, a market order that its
\* settlement is covered.
Placed(b, account, quoted) ==
  LET price == EstimatedPrice(b, quoted)
      p == HeldIn(b, account)
      order == [book |-> b.book, side |-> b.side, type |-> b.type, qty |-> b.qty, price |-> b.price]
  IN IF b.book = "DELIVERY" /\ b.side = "SELL" THEN b.qty <= p.qty
     ELSE IF b.type = "LIMIT" THEN Rules!Reservation(order) <= account.free
     ELSE IF b.book = "DELIVERY" THEN b.qty * price <= account.free
     ELSE /\ MarginDelta(b, p, price) <= account.free
          /\ b.book = "OPTION" /\ b.side = "BUY" => b.qty * price <= account.free
          /\ MarginDelta(b, p, price) - CashFlow(b, p, price) <= account.free

-----------------------------------------------------------------------------
\* The estimate is a query of its body, which the stock ticket asks of a live quote alone.
Asks(form, quote, posted) ==
  /\ form.lots > 0 /\ ~posted
  /\ form.book \in FnoBooks \/ (quote.price > 0 /\ ~quote.stale /\ (form.type = "LIMIT" => form.limit > 0))

\* Another body is another query, with an earlier answer perhaps, recent or to be
\* asked again.
NewReply(form, quote, posted) ==
  LET body == BodyOf(form, quote)
      asks == Asks(form, quote, posted)
      earlier == IF form.lots > 0 /\ Estimable(body, rvAccount)
                 THEN {[account |-> rvAccount, price |-> p] : p \in ReviewPrices} ELSE {}
  IN {[body |-> body, data |-> NoReply, fetching |-> asks, failed |-> FALSE]}
     \cup {[body |-> body, data |-> d, fetching |-> f /\ asks, failed |-> FALSE] : d \in earlier, f \in BOOLEAN}

Requeried(form, quote, posted) ==
  IF BodyOf(form, quote) = rvReply.body THEN {rvReply} ELSE NewReply(form, quote, posted)

-----------------------------------------------------------------------------
\* The tickets.

ValidQuantity == rvForm.lots > 0
ValidPrice == InFno \/ rvForm.type = "MARKET" \/ rvForm.limit > 0

QuoteLine == IF rvQuote.price = 0 THEN "UNAVAILABLE" ELSE IF rvQuote.stale THEN "LAST AVAILABLE" ELSE "LIVE"

\* The F&O ticket keeps an estimate on the screen while it is asked again.
ServerEstimate ==
  IF ~ValidQuantity \/ rvReply.failed \/ (rvReply.fetching /\ ~InFno) THEN NoReply ELSE rvReply.data
Sufficient(data) == RequiredFunds(rvReply.body, data.account, data.price) <= data.account.free

\* The F&O ticket's own estimate, in halves rounded up.
Rounded(percent, amount) == (percent * amount + 50) \div 100
ClientEstimate ==
  LET notional == rvForm.lots * (IF rvForm.type = "LIMIT" /\ rvForm.limit > 0 THEN rvForm.limit ELSE rvQuote.price)
  IN IF ~InFno \/ ~ValidQuantity \/ notional = 0 THEN NoReply
     ELSE IF rvForm.book = "FUTURE" THEN Rounded(20, notional)
     ELSE IF rvForm.side = "BUY" THEN notional ELSE Rounded(30, notional)

RequiredLine ==
  IF ServerEstimate # NoReply
  THEN RequiredFunds(rvReply.body, ServerEstimate.account, ServerEstimate.price)
  ELSE ClientEstimate
AvailableLine == IF rvWallet = NoReply THEN NoReply ELSE rvWallet.free

FundsSuffice ==
  IF ServerEstimate # NoReply THEN Sufficient(ServerEstimate)
  ELSE IF AvailableLine = NoReply \/ RequiredLine = NoReply THEN FALSE
  ELSE AvailableLine >= RequiredLine

StatusLine ==
  IF rvReply.failed THEN "Preview unavailable"
  ELSE IF rvReply.fetching THEN IF ServerEstimate # NoReply THEN "Refreshing" ELSE "Checking price and funds"
  ELSE "Server estimate"
ShortLine == InFno /\ ~FundsSuffice /\ RequiredLine # NoReply /\ AvailableLine # NoReply

\* The stock ticket's lines of funds, and what it says before its button.
StockFunds ==
  [required |-> IF ValidQuantity THEN RequiredLine ELSE NoReply, available |-> AvailableLine]
StockNotice ==
  IF QuoteLine # "LIVE" THEN "A fresh quote is required"
  ELSE IF rvReply.failed THEN "Preview unavailable" ELSE "none"

Reviewed == ValidQuantity /\ ~rvPosted /\ ~rvReply.fetching /\ ~rvReply.failed /\ FundsSuffice

FnoButton ==
  [label |-> IF ~ValidQuantity THEN "Enter valid lots" ELSE "order",
   enabled |-> Reviewed /\ rvWallet # NoReply /\ QuoteLine # "UNAVAILABLE"]
StockButton ==
  [label |-> IF rvPosted THEN "Review order result" ELSE "order",
   enabled |-> Reviewed /\ ValidPrice /\ ServerEstimate # NoReply /\ QuoteLine = "LIVE"]
OrderButton == IF InFno THEN FnoButton ELSE StockButton

-----------------------------------------------------------------------------
\* A field of the form; the F&O ticket's product is fixed. The stock ticket's fields
\* are disabled once it has posted.
ChangeField(form) ==
  /\ form # rvForm /\ (rvPosted => InFno)
  /\ rvForm' = form
  /\ rvReply' \in Requeried(form, rvQuote, rvPosted)
  /\ UNCHANGED <<rvQuote, rvAccount, rvWallet, rvPosted>>

EditOrder ==
  \/ \E side \in Rules!Sides : ChangeField([rvForm EXCEPT !.side = side])
  \/ \E type \in {"MARKET", "LIMIT"} : ChangeField([rvForm EXCEPT !.type = type])
  \/ \E lots \in LotInputs : ChangeField([rvForm EXCEPT !.lots = lots])
  \/ rvForm.type = "LIMIT" /\ \E limit \in TypedLimits : ChangeField([rvForm EXCEPT !.limit = limit])
  \/ \E book \in StockBooks : ~InFno /\ ChangeField([rvForm EXCEPT !.book = book])

\* The fields of an F&O ticket that is opened again, except the type.
ReopenTicket ==
  /\ InFno
  /\ rvForm' = NewForm(rvForm.book, rvForm.type)
  /\ rvQuote' = NoQuoteYet
  /\ rvReply' \in NewReply(rvForm', rvQuote', FALSE)
  /\ rvPosted' = FALSE
  /\ UNCHANGED <<rvAccount, rvWallet>>

\* A tick, or the poll that runs while the stream is silent.
TicketQuoted ==
  /\ rvQuote' \in {[price |-> p, stale |-> FALSE] : p \in ReviewPrices}
                 \cup {NoQuoteYet, [rvQuote EXCEPT !.stale = rvQuote.price > 0]}
  /\ rvReply' \in Requeried(rvForm, rvQuote', rvPosted)
  /\ UNCHANGED <<rvForm, rvAccount, rvWallet, rvPosted>>

EstimateAsked ==
  /\ Asks(rvForm, rvQuote, rvPosted) /\ ~rvReply.fetching
  /\ rvReply' = [rvReply EXCEPT !.fetching = TRUE]
  /\ UNCHANGED <<rvForm, rvQuote, rvAccount, rvWallet, rvPosted>>

\* The server's price may be another than the one on the ticket.
EstimateAnswered ==
  /\ rvReply.fetching
  /\ \/ /\ Estimable(rvReply.body, rvAccount)
        /\ \E p \in ReviewPrices :
             rvReply' = [rvReply EXCEPT !.data = [account |-> rvAccount, price |-> p],
                                        !.fetching = FALSE, !.failed = FALSE]
     \/ rvReply' = [rvReply EXCEPT !.fetching = FALSE, !.failed = TRUE]
  /\ UNCHANGED <<rvForm, rvQuote, rvAccount, rvWallet, rvPosted>>

\* Other orders of the account, and the wallet's poll.
BalanceMoves ==
  /\ rvAccount' \in Accounts
  /\ UNCHANGED <<rvForm, rvQuote, rvReply, rvWallet, rvPosted>>
FundsAnswered ==
  /\ rvWallet' \in {rvAccount, NoReply}
  /\ UNCHANGED <<rvForm, rvQuote, rvReply, rvAccount, rvPosted>>

PressOrder ==
  /\ OrderButton.enabled
  /\ rvPosted' = TRUE
  /\ UNCHANGED <<rvForm, rvQuote, rvReply, rvAccount, rvWallet>>

\* The stock ticket is ready again after an execution.
OrderExecuted ==
  /\ rvPosted /\ ~InFno
  /\ rvPosted' = FALSE
  /\ UNCHANGED <<rvForm, rvQuote, rvReply, rvAccount, rvWallet>>

ReviewNext ==
  \/ EditOrder \/ ReopenTicket \/ TicketQuoted \/ EstimateAsked \/ EstimateAnswered
  \/ BalanceMoves \/ FundsAnswered \/ PressOrder \/ OrderExecuted

-----------------------------------------------------------------------------
\* The ticket reviews the order it places: whenever its button can be pressed, the
\* required funds it shows are the server's estimate of exactly the order that the
\* button posts, nothing on it speaks of missing funds, and if the account and the
\* price stay what the estimate saw, that order is not refused for funds. Its own
\* estimate of an F&O order that opens a position is the server's, to a paisa.
ReviewAgrees ==
  /\ OrderButton.enabled =>
       LET seen == rvReply.data IN
       /\ rvReply.body = OrderBody /\ seen # NoReply
       /\ RequiredLine = RequiredFunds(OrderBody, seen.account, seen.price)
       /\ OrderButton.label = "order"
       /\ IF InFno THEN StatusLine = "Server estimate" /\ ~ShortLine
          ELSE StockNotice = "none" /\ StockFunds.required = RequiredLine
       /\ Placed(OrderBody, seen.account, seen.price)
  /\ ClientEstimate # NoReply /\ OrderBody.qty <= 50 =>
       ClientEstimate - RequiredFunds(OrderBody, [rvAccount EXCEPT !.book = "none"], rvQuote.price) \in -1..1
=============================================================================
