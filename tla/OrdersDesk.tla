----------------------------- MODULE OrdersDesk -----------------------------
(***************************************************************************)
(* The orders page (app/(trading)/orders/page.tsx) with its three tabs:    *)
(* the order book and the fills (components/orders/OrdersTable.tsx,        *)
(* TradesTable.tsx), both polled, and the contract note of a day           *)
(* (ContractNoteView.tsx), fetched whenever the day changes.  The backend  *)
(* fills, cancels and hides orders meanwhile.  The note shares nothing     *)
(* with the tables: OrdersNext is theirs, NoteNext is the note's.          *)
(***************************************************************************)
EXTENDS Naturals, FiniteSets

CONSTANTS BookOrders,  \* the account's orders
          OldOrders,   \* those created more than a day before the page was opened
          FirstStatus, \* what each of them waits as at first
          NoteDays,    \* the days of the picker
          NoAnswer     \* nothing fetched yet

ASSUME OldOrdersAssumption == OldOrders \subseteq BookOrders
ASSUME FirstStatusAssumption ==
  FirstStatus \in [BookOrders -> {"OPEN", "PENDING", "TRIGGER_PENDING"}]
ASSUME NoAnswerAssumption == NoAnswer \notin NoteDays \cup BookOrders

VARIABLES
  odRows,     \* the backend's orders: status, hidden from the history
  odBook,     \* the last answer of GET /orders, by order, or NoAnswer
  odFills,    \* the last answer of GET /trades, or NoAnswer
  odView,     \* tab, filter of the table, whether the history was deleted here
  odCancel,   \* the order whose Cancel button is busy, or NoAnswer, and the requests under way
  odToast,    \* the last message: what it says and of which order
  odNote      \* day picked, note shown, days asked for, loading, error

odTables == <<odRows, odBook, odFills, odView, odCancel, odToast>>
odVars == <<odTables, odNote>>

Active == {"OPEN", "PENDING", "TRIGGER_PENDING"}
\* CANCELLED stands for REJECTED too: the page treats them alike.
Finished == {"EXECUTED", "CANCELLED"}
FirstDay == CHOOSE day \in NoteDays : TRUE
NoToast == [says |-> "none", of |-> NoAnswer]
NoCancel == [busy |-> NoAnswer, coming |-> {}]
FirstNote == [day |-> FirstDay, shown |-> NoAnswer, asked |-> {FirstDay}, loading |-> TRUE,
              error |-> FALSE]

\* The tab may come from the address.
OrdersInit ==
  /\ odRows = [o \in BookOrders |-> [status |-> FirstStatus[o], hidden |-> FALSE]]
  /\ odBook = NoAnswer /\ odFills = NoAnswer
  /\ odView \in [tab : {"orders", "trades", "contract-note"}, filter : {"ALL"}, cleared : {FALSE}]
  /\ odCancel = NoCancel /\ odToast = NoToast
  /\ odNote = FirstNote

-----------------------------------------------------------------------------
\* The backend.

Moves(o) ==
  /\ odRows[o].status \in Active
  /\ odRows' \in {[odRows EXCEPT ![o].status = s] : s \in Finished}
  /\ UNCHANGED <<odBook, odFills, odView, odCancel, odToast>>

\* Fault: the history takes every order with it.
HideAll(rows) == [o \in BookOrders |-> [rows[o] EXCEPT !.hidden = TRUE]]

\* ClearHistory: only what has finished is hidden; trades stay.
HideFinished(rows) ==
  [o \in BookOrders |-> IF rows[o].status \in Finished
                        THEN [rows[o] EXCEPT !.hidden = TRUE] ELSE rows[o]]

ListedOrders == {o \in BookOrders : ~odRows[o].hidden}
Book == [o \in ListedOrders |-> odRows[o].status]
Executions == {o \in BookOrders : odRows[o].status = "EXECUTED"}

-----------------------------------------------------------------------------
\* A message goes after a while: at the latest with the next thing to happen on
\* the page.  The queries keep their data through a failure, and an empty default before
\* the first answer; nothing on the page tells a failure.

PollOrders ==
  /\ odBook' = Book /\ odToast' = NoToast
  /\ UNCHANGED <<odRows, odFills, odView, odCancel>>

PollTrades ==
  /\ odFills' = Executions /\ odToast' = NoToast
  /\ UNCHANGED <<odRows, odBook, odView, odCancel>>

\* Refresh: both queries again, and what was deleted here is looked at anew.
RefreshAll ==
  /\ odView' = [odView EXCEPT !.cleared = FALSE]
  /\ odBook' \in {odBook, Book} /\ odFills' \in {odFills, Executions}
  /\ UNCHANGED <<odRows, odCancel, odToast>>

\* Open orders are listed whatever their age, the rest for a day.
ShownOrders ==
  IF odView.cleared \/ odBook = NoAnswer THEN {}
  ELSE {o \in DOMAIN odBook : odBook[o] \in Active \/ o \notin OldOrders}

\* A trade is as old as its execution, whenever its order was placed: every order here
\* executes after the page was opened, so that no trade is hidden for its age.
ShownTrades == IF odView.cleared \/ odFills = NoAnswer THEN {} ELSE odFills

\* What the answer of a cancellation is taken for.
CancelToast(ok, o) == [says |-> IF ok THEN "cancelled" ELSE "failed", of |-> o]

CanCancel(o) == odBook[o] \in Active

PressCancel(o) ==
  /\ odView.tab = "orders" /\ o \in ShownOrders
  /\ odView.filter \in {"ALL", "OPEN"}
  /\ CanCancel(o) /\ odCancel.busy # o
  /\ odCancel' = [busy |-> o, coming |-> odCancel.coming \cup {o}]
  /\ UNCHANGED <<odRows, odBook, odFills, odView, odToast>>

\* The order may have finished since the book was read; the answer may be lost
\* after the cancellation. Any answer frees the button.
CancelOrder(o) ==
  LET active == odRows[o].status \in Active IN
  /\ o \in odCancel.coming
  /\ \E reached \in BOOLEAN, answered \in BOOLEAN :
       /\ answered => reached
       /\ odRows' = IF reached /\ active THEN [odRows EXCEPT ![o].status = "CANCELLED"] ELSE odRows
       /\ odToast' = CancelToast(answered /\ active, o)
  /\ odCancel' = [busy |-> NoAnswer, coming |-> odCancel.coming \ {o}]
  /\ UNCHANGED <<odBook, odFills, odView>>

\* Delete History, whose answer nobody reads: the page says it is done unless the
\* request failed altogether, and empties its tables in any case.
ClearHistory ==
  /\ ShownOrders # {} \/ ShownTrades # {}
  /\ odView' = [odView EXCEPT !.cleared = TRUE]
  /\ odRows' \in {odRows, HideFinished(odRows)}
  /\ odToast' \in {odToast, [says |-> "deleted", of |-> NoAnswer]}
  /\ UNCHANGED <<odBook, odFills, odCancel>>

-----------------------------------------------------------------------------
\* A tab that is left forgets its filter and its busy button, not its requests.
SelectTab(tab) ==
  /\ tab # odView.tab
  /\ odView' = [odView EXCEPT !.tab = tab, !.filter = "ALL"]
  /\ odCancel' = [odCancel EXCEPT !.busy = NoAnswer]
  /\ odToast' = NoToast
  /\ UNCHANGED <<odRows, odBook, odFills>>

SelectFilter(filter) ==
  /\ odView.tab = "orders" /\ ShownOrders # {} /\ filter # odView.filter
  /\ odView' = [odView EXCEPT !.filter = filter] /\ odToast' = NoToast
  /\ UNCHANGED <<odRows, odBook, odFills, odCancel>>

-----------------------------------------------------------------------------
\* The contract note: a tab that is left forgets everything.

OpenNote == odNote' = FirstNote

PickDay(day) ==
  /\ day # odNote.day
  /\ odNote' = [odNote EXCEPT !.day = day, !.asked = @ \cup {day}, !.loading = TRUE,
                              !.error = FALSE]

\* Any answer is taken, in whatever order they come, and ends the loading; a
\* failure leaves the note that is there.
NoteAnswered(day) ==
  /\ day \in odNote.asked
  /\ odNote' \in {[odNote EXCEPT !.asked = @ \ {day}, !.loading = FALSE, !.shown = day],
                  [odNote EXCEPT !.asked = @ \ {day}, !.loading = FALSE, !.error = TRUE]}

OrdersNext ==
  /\ UNCHANGED odNote
  /\ \/ \E o \in BookOrders : Moves(o) \/ PressCancel(o) \/ CancelOrder(o)
     \/ PollOrders \/ PollTrades \/ RefreshAll \/ ClearHistory
     \/ \E tab \in {"orders", "trades", "contract-note"} : SelectTab(tab)
     \/ \E filter \in {"ALL", "OPEN", "EXECUTED", "CANCELLED"} : SelectFilter(filter)

NoteNext ==
  /\ UNCHANGED odTables
  /\ OpenNote \/ \E day \in NoteDays : PickDay(day) \/ NoteAnswered(day)

-----------------------------------------------------------------------------
\* What is on the page.

Count(S, kinds) == Cardinality({o \in S : odBook[o] \in kinds})

OrderCounts == [all |-> Cardinality(ShownOrders), open |-> Count(ShownOrders, Active),
                executed |-> Count(ShownOrders, {"EXECUTED"}),
                cancelled |-> Count(ShownOrders, {"CANCELLED"})]

\* The cards above the tabs.
Cards == [total |-> OrderCounts, fills |-> Cardinality(ShownTrades),
          fillRate |-> <<OrderCounts.executed, OrderCounts.all>>]

Kinds(filter) == CASE filter = "OPEN" -> Active [] filter = "EXECUTED" -> {"EXECUTED"}
                   [] filter = "CANCELLED" -> {"CANCELLED"} [] OTHER -> Active \cup Finished

\* The rows of the order table and the button each of them has.
OrderRows == {[order |-> o, status |-> odBook[o], cancel |-> CanCancel(o),
               busy |-> odCancel.busy = o] : o \in {o \in ShownOrders : odBook[o] \in Kinds(odView.filter)}}

OrdersBody == IF ShownOrders = {} THEN "No Orders Placed Yet"
              ELSE IF OrderRows = {} THEN "No orders match" ELSE "rows"

TradesBody == IF ShownTrades = {} THEN "No Executed Trades Yet" ELSE "rows"

\* The note, its message, or the message beside an older note.
NoteBody == [note |-> IF odNote.loading THEN NoAnswer ELSE odNote.shown,
             error |-> odNote.error /\ ~odNote.loading, export |-> odNote.shown # NoAnswer]

TabBody == IF odView.tab = "orders" THEN OrdersBody
           ELSE IF odView.tab = "trades" THEN TradesBody
           ELSE IF NoteBody.note = NoAnswer THEN "no note" ELSE "note"

-----------------------------------------------------------------------------
\* What the orders page says of an order is so, although orders fill, finish and
\* disappear behind its back and answers are lost: an order it calls cancelled is
\* cancelled, an order that is still active is never deleted with the history,
\* and every active order of the last answer, however old, can be cancelled here
\* (unless the history was just deleted, which empties the whole table). The note's
\* tab is never left blank by answers that overtake each other.
OrdersDeskTruthful ==
  /\ odToast.says = "cancelled" => odRows[odToast.of].status = "CANCELLED"
  /\ \A o \in BookOrders : odRows[o].hidden => odRows[o].status \notin Active
  /\ odBook # NoAnswer /\ ~odView.cleared /\ odView.filter = "ALL" =>
       \A o \in DOMAIN odBook : odBook[o] \in Active => \E r \in OrderRows : r.order = o /\ r.cancel
  /\ odNote.asked = {} => NoteBody.note # NoAnswer \/ NoteBody.error
=============================================================================
