------------------------------ MODULE Intents ------------------------------
(***************************************************************************)
(* How the browser keeps an uncertain order or exit from being placed      *)
(* twice: the idempotency keys of lib/orderIntent.ts and lib/exitRetry.ts, *)
(* the calls that use them (lib/api.ts, the portfolio page) and the two    *)
(* order tickets (components/stocks/StockDetailsPage.tsx,                  *)
(* components/trading/FnoOrderModal.tsx), against a backend that answers a *)
(* known key with the order it already has.                                *)
(*                                                                         *)
(* A name is what a key is stored under: a position for an exit, the       *)
(* account and the body of the request for an order.  Keys are numbered in *)
(* the order they are made.                                                *)
(***************************************************************************)
EXTENDS Naturals, Sequences, FiniteSets

CONSTANTS Slots,        \* requests that may be under way at the same time
          MaxKeys,      \* bound: keys made, by the page that sends
          MaxLost       \* bound: lost requests and answers

Pages == {"stock", "fno", "portfolio"}

ASSUME IntentBounds == MaxKeys \in [Pages -> Nat] /\ MaxLost \in Nat
ASSUME SlotsAssumption == IsFiniteSet(Slots)

\* The equity ticket's two sides at the market, an F&O limit order that was
\* left to follow the last price, at two prices, and a position to exit.
StockNames == {"BUY", "SELL"}
FnoNames == {"LIMIT 100", "LIMIT 101"}
OrderNames == StockNames \cup FnoNames
ExitNames == {"EXIT"}
Names == OrderNames \cup ExitNames

VARIABLES
  itPage,   \* which of the three sends: their names are apart, and so they do not meet
  itHeld,   \* sessionStorage: the key kept under each name, 0 if none
  itRows,   \* by key: its name, the backend's order; history: whether its outcome is
            \* heard, and the key whose late answer took it out of the storage
  itPost,   \* the requests under way
  itStock,  \* the equity ticket
  itFno,    \* the F&O ticket
  itLost

itVars == <<itPage, itHeld, itRows, itPost, itStock, itFno, itLost>>

Keys == DOMAIN itRows
NoPost == [name |-> "BUY", key |-> 0, from |-> "none", phase |-> "idle", answer |-> "none"]
Terminal == {"EXECUTED", "VOID"}

\* `unsure` is the history of a ticket: it has posted an order it was never told
\* the execution of.
NewStock == [side |-> "BUY", confirmed |-> FALSE, preview |-> "none", submitting |-> FALSE,
             submitted |-> FALSE, started |-> FALSE, unsure |-> FALSE]
NewFno == [open |-> TRUE, price |-> "LIMIT 100", executing |-> FALSE, submitted |-> FALSE,
           unsure |-> FALSE]

IntentsInit ==
  /\ itPage \in Pages
  /\ itHeld = [n \in Names |-> 0]
  /\ itRows = <<>>
  /\ itPost = [s \in Slots |-> NoPost]
  /\ itStock = NewStock
  /\ itFno = [NewFno EXCEPT !.open = FALSE]
  /\ itLost = 0

-----------------------------------------------------------------------------
\* orderIntentKey and exitRetryKey: the stored key, or a new one.

KeyOf(n) == IF itHeld[n] # 0 THEN itHeld[n] ELSE Len(itRows) + 1

Post(s, n, from) ==
  LET key == KeyOf(n) IN
  /\ itPost[s].phase = "idle" /\ key <= MaxKeys[itPage]
  /\ itHeld' = [itHeld EXCEPT ![n] = key]
  /\ itRows' = IF key \in Keys THEN itRows
               ELSE Append(itRows, [name |-> n, order |-> "none", heard |-> FALSE, lostTo |-> 0])
  /\ itPost' = [itPost EXCEPT ![s] = [NoPost EXCEPT !.name = n, !.key = key,
                                                    !.from = from, !.phase = "sent"]]

\* A key the backend has seen stands for the same order; an unknown one is
\* refused, kept pending, executed, or rejected after it was stored.  An exit that
\* is pending still is an error.
Outcomes(key) ==
  LET order == itRows[key].order IN
  IF order = "none" THEN {"none", "PENDING", "EXECUTED", "VOID"}
  ELSE IF order = "PENDING" /\ itRows[key].name \in ExitNames THEN {"PENDING", "EXECUTED", "VOID"}
  ELSE {order}

Arrive(s) ==
  LET p == itPost[s] IN
  /\ p.phase = "sent"
  /\ \E order \in Outcomes(p.key) :
       /\ itRows' = [itRows EXCEPT ![p.key].order = order]
       /\ \E answer \in {order} \cup (IF order = "VOID" THEN {"REFUSED"} ELSE {}) :
            itPost' = [itPost EXCEPT ![s].phase = "answered", ![s].answer =
              IF answer = "none" \/ (answer = "PENDING" /\ p.name \in ExitNames)
              THEN "REFUSED" ELSE answer]
  /\ UNCHANGED <<itPage, itHeld, itStock, itFno, itLost>>

\* The matcher fills, or a cancellation ends, what waits.
Matched(key) ==
  /\ itRows[key].order = "PENDING"
  /\ itRows' \in {[itRows EXCEPT ![key].order = order] : order \in Terminal}
  /\ UNCHANGED <<itPage, itHeld, itPost, itStock, itFno, itLost>>

-----------------------------------------------------------------------------
\* The answer, in sessionFetch and in the page's handler.

\* Fault: an answer of any kind completes the intent.
CompletesAny(p) == TRUE

\* completeOrderIntent: any order the backend names; completeExitRetry: only an
\* order that has ended.
Completes(p) == IF p.name \in ExitNames THEN p.answer \in Terminal
                                        ELSE p.answer # "REFUSED"

\* Fault: the ticket is ready again whatever became of the order.
StockAlwaysReady(answer) ==
  [itStock EXCEPT !.submitting = FALSE, !.confirmed = FALSE,
     !.submitted = FALSE, !.started = FALSE,
     !.unsure = answer # "EXECUTED"]

\* placeOrder: only an execution frees the ticket for the next order.
StockAnswered(answer) ==
  [itStock EXCEPT !.submitting = FALSE, !.confirmed = FALSE,
     !.submitted = answer # "EXECUTED", !.started = answer # "EXECUTED",
     !.unsure = answer # "EXECUTED"]

\* handleExecuteOrder: the ticket stays submitted until it is opened again.
FnoAnswered(answer) == [itFno EXCEPT !.executing = FALSE, !.unsure = answer # "EXECUTED"]

Handle(s, answer) ==
  LET p == itPost[s] IN
  /\ itPost' = [itPost EXCEPT ![s] = NoPost]
  /\ itStock' = IF p.from = "stock" THEN StockAnswered(answer) ELSE itStock
  /\ itFno' = IF p.from = "fno" THEN FnoAnswered(answer) ELSE itFno

Return(s) ==
  LET p == itPost[s] IN
  /\ p.phase = "answered"
  /\ Handle(s, p.answer)
  /\ itHeld' = IF Completes(p) THEN [itHeld EXCEPT ![p.name] = 0] ELSE itHeld
  /\ itRows' = [key \in Keys |->
       [itRows[key] EXCEPT !.heard = @ \/ (key = p.key /\ p.answer # "REFUSED"),
                           !.lostTo = IF Completes(p) /\ key = itHeld[p.name] /\ key # p.key
                                      THEN p.key ELSE @]]
  /\ UNCHANGED <<itPage, itLost>>

\* A failed fetch, the ticket's 15-second timeout, or an unreadable answer.
Lost(s) ==
  /\ itPost[s].phase # "idle"
  /\ itLost < MaxLost /\ itLost' = itLost + 1
  /\ Handle(s, "UNKNOWN")
  /\ UNCHANGED <<itPage, itHeld, itRows>>

-----------------------------------------------------------------------------
\* The equity ticket.

\* Another side asks for another preview.
Preview ==
  /\ itPage = "stock"
  /\ itStock.preview = "none" /\ ~itStock.submitted
  /\ itStock' = [itStock EXCEPT !.preview = itStock.side]
  /\ UNCHANGED <<itPage, itHeld, itRows, itPost, itFno, itLost>>

\* Every field of the form takes the confirmation back.
ChooseSide(side) ==
  /\ itPage = "stock"
  /\ ~itStock.submitted /\ side # itStock.side
  /\ itStock' = [itStock EXCEPT !.side = side, !.confirmed = FALSE, !.preview = "none"]
  /\ UNCHANGED <<itPage, itHeld, itRows, itPost, itFno, itLost>>

\* The buttons at the foot of a small screen leave it as it is.
MobileSide(side) ==
  /\ itPage = "stock"
  /\ side # itStock.side
  /\ itStock' = [itStock EXCEPT !.side = side, !.preview = "none"]
  /\ UNCHANGED <<itPage, itHeld, itRows, itPost, itFno, itLost>>

Confirm ==
  /\ itPage = "stock"
  /\ ~itStock.confirmed /\ ~itStock.submitted
  /\ itStock' = [itStock EXCEPT !.confirmed = TRUE]
  /\ UNCHANGED <<itPage, itHeld, itRows, itPost, itFno, itLost>>

CanOrder == itStock.preview = itStock.side /\ ~itStock.submitting /\ ~itStock.submitted

PlaceOrder(s) ==
  /\ CanOrder /\ itStock.confirmed /\ ~itStock.started
  /\ Post(s, itStock.side, "stock")
  /\ itStock' = [itStock EXCEPT !.submitting = TRUE, !.submitted = TRUE, !.started = TRUE,
                                !.unsure = TRUE]
  /\ UNCHANGED <<itPage, itFno, itLost>>

\* A page that is left forgets its ticket; its requests go on.
Orphaned(from) == [s \in Slots |-> IF itPost[s].from = from
                                   THEN [itPost[s] EXCEPT !.from = "left"] ELSE itPost[s]]

Remount ==
  /\ itStock.submitted
  /\ itStock' = NewStock
  /\ itPost' = Orphaned("stock")
  /\ UNCHANGED <<itPage, itHeld, itRows, itFno, itLost>>

-----------------------------------------------------------------------------
\* The F&O ticket.

OpenTicket ==
  /\ itPage = "fno"
  /\ ~itFno.open
  /\ itFno' = NewFno
  /\ UNCHANGED <<itPage, itHeld, itRows, itPost, itStock, itLost>>

CloseTicket ==
  /\ itFno.open
  /\ itFno' = [NewFno EXCEPT !.open = FALSE]
  /\ itPost' = Orphaned("fno")
  /\ UNCHANGED <<itPage, itHeld, itRows, itStock, itLost>>

\* A limit nobody typed is the last price: the body, and the key, follow it.
PriceMoves ==
  /\ itFno.open /\ ~itFno.executing
  /\ itFno' = [itFno EXCEPT !.price = CHOOSE n \in FnoNames : n # @]
  /\ UNCHANGED <<itPage, itHeld, itRows, itPost, itStock, itLost>>

ExecuteTicket(s) ==
  /\ itFno.open /\ ~itFno.executing /\ ~itFno.submitted
  /\ Post(s, itFno.price, "fno")
  /\ itFno' = [itFno EXCEPT !.executing = TRUE, !.submitted = TRUE, !.unsure = TRUE]
  /\ UNCHANGED <<itPage, itStock, itLost>>

\* handleSquareOff, from a row of either table, from the loop over all of them, or from
\* both: a position that is being squared off may be squared off again.
SquareOff(s) ==
  /\ itPage = "portfolio"
  /\ Post(s, "EXIT", "exit")
  /\ UNCHANGED <<itPage, itStock, itFno, itLost>>

-----------------------------------------------------------------------------
IntentsNext ==
  \/ \E s \in Slots : Arrive(s) \/ Return(s) \/ Lost(s)
  \/ \E s \in Slots : PlaceOrder(s) \/ ExecuteTicket(s) \/ SquareOff(s)
  \/ \E key \in Keys : Matched(key)
  \/ Preview \/ Confirm \/ Remount
  \/ \E side \in StockNames : ChooseSide(side) \/ MobileSide(side)
  \/ OpenTicket \/ CloseTicket \/ PriceMoves

-----------------------------------------------------------------------------
\* "A new intent is allowed only after a terminal response, never simply because
\* a request timed out" (lib/exitRetry.ts:1), and after a confirmed acceptance
\* for an order (lib/orderIntent.ts:1): however requests are lost, repeated, refused,
\* overlap or outlive their page, the next key of a name is made only when the outcome
\* of the one before it has been heard; or when that one was taken out of the storage by
\* the answer to a request with an older key of the name, whose outcome that tells. The
\* code looks at no key when it takes one out, and so the second case does happen.
NewIntentAfterTerminal == \A j, k \in Keys :
  j < k /\ itRows[j].name = itRows[k].name =>
    \/ itRows[j].heard
    \/ \E i \in 1..j - 1 :
         itRows[j].lostTo = i /\ itRows[i].name = itRows[j].name /\ itRows[i].heard

\* "An uncertain response must never enable another POST from this ticket"
\* (FnoOrderModal.tsx:213): a ticket that was never told of the execution of its
\* order sends no other, whatever the user does on the page.
TicketPostsOnce ==
  [][\A s \in Slots :
       LET from == itPost'[s].from IN
       itPost[s].phase = "idle" /\ itPost'[s].phase = "sent" =>
         /\ from = "stock" => ~itStock.unsure
         /\ from = "fno" => ~itFno.unsure]_itVars
=============================================================================
