---------------------------- MODULE AccountBook ----------------------------
(***************************************************************************)
(* The book of an account: the rows that every change of the wallet writes *)
(* with it, the statement of a period that the backend recomputes from     *)
(* them (GetLedgerStatement), and the pages that show them:                *)
(* LedgerStatementView with a period of its own, and the wallet page with  *)
(* its table of rows, AddFundsModal and ResetSimulationModal.              *)
(*                                                                         *)
(* An account registered by this code starts with an INITIAL_CREDIT row.   *)
(* Rows are only appended, so that an answer of GET /wallet/transactions   *)
(* is the number of rows it has.                                           *)
(***************************************************************************)
EXTENDS Integers, Sequences, FiniteSets

CONSTANTS Start,    \* INITIAL_VIRTUAL_BALANCE
          MaxRows,  \* bound: rows of the book
          MaxDay    \* bound: days

ASSUME BookAssumption == Start \in Nat \ {0} /\ MaxRows \in Nat /\ MaxDay \in Nat

VARIABLES
  bkPage,    \* the page that is open: "statement" or "wallet"
  bkDay,
  bkWallet,  \* cash and blocked
  bkRows,    \* the book: type, amount, cash after it, day
  bkPeriod,  \* the statement's period: from, to
  bkAsked,   \* periods whose statement is on its way: no answer cancels another
  bkShown,   \* the statement on the page, <<>> or <<statement>>, and loading
  bkTable,   \* the rows the table knows, those on their way (-1: none), failed, and
             \* whether a refetch fell in vain on its first fetch
  bkFunds,   \* AddFundsModal: a deposit, a reset under way, deposits told done
  bkReset    \* ResetSimulationModal: under way, what it says, the book it left

bkVars == <<bkPage, bkDay, bkWallet, bkRows, bkPeriod, bkAsked, bkShown, bkTable, bkFunds, bkReset>>
bkBackend == <<bkDay, bkWallet, bkRows>>
bkView == <<bkPeriod, bkAsked, bkShown>>
bkModals == <<bkFunds, bkReset>>

Row(type, amount, cash) == [type |-> type, amount |-> amount, cash |-> cash, day |-> bkDay]
Empty == [opening |-> 0, running |-> 0, debit |-> 0, credit |-> 0, entries |-> <<>>]

AccountBookInit ==
  /\ bkPage \in {"statement", "wallet"}
  /\ bkDay = 0
  /\ bkWallet = [cash |-> Start, blocked |-> 0]
  /\ bkRows = <<Row("INITIAL_CREDIT", Start, Start)>>
  /\ bkPeriod = [from |-> 0, to |-> 0]
  /\ bkAsked = {bkPeriod}
  /\ bkShown = [statement |-> <<>>, loading |-> TRUE]
  /\ bkTable = [known |-> -1, coming |-> -1, failed |-> FALSE, inVain |-> FALSE]
  /\ bkFunds = [adding |-> FALSE, resetting |-> FALSE, done |-> 0]
  /\ bkReset = [phase |-> "idle", says |-> "nothing", rows |-> 0]

-----------------------------------------------------------------------------
\* Every change of the wallet saves it and its row in one transaction.
Write(type, amount, cash, blocked) ==
  /\ Len(bkRows) < MaxRows
  /\ bkWallet' = [cash |-> cash, blocked |-> blocked]
  /\ bkRows' = Append(bkRows, Row(type, amount, cash))
  /\ UNCHANGED bkDay

\* A placed order reserves its margin, and a cancelled one releases it: the cash stays.
Reserved ==
  \/ bkWallet.blocked < bkWallet.cash /\ Write("RESERVE", 1, bkWallet.cash, bkWallet.blocked + 1)
  \/ bkWallet.blocked > 0 /\ Write("RELEASE", 1, bkWallet.cash, bkWallet.blocked - 1)

\* An execution, or the settlement of an expiry, moves cash; a row's amount is positive.
Executed ==
  \/ Write("CREDIT", 1, bkWallet.cash + 1, bkWallet.blocked)
  \/ bkWallet.cash > bkWallet.blocked /\ Write("DEBIT", 1, bkWallet.cash - 1, bkWallet.blocked)

Deposited == Write("DEPOSIT", 1, bkWallet.cash + 1, bkWallet.blocked)

\* Reset of the simulation, and of the wallet alone.
Restored == Write("RESET", Start, Start, 0)

-----------------------------------------------------------------------------
Entered(statement, debit, credit, balance) ==
  [statement EXCEPT !.debit = @ + debit, !.credit = @ + credit, !.running = balance]

\* Fault: a reset taken for one more credit.
ResetAsCredit(statement, row) == Entered(statement, 0, row.amount, statement.running + row.amount)

\* A reset brings the balance to what its row says, by a credit or by a debit.
PostReset(statement, row) ==
  IF row.cash >= statement.running
  THEN Entered(statement, 0, row.cash - statement.running, row.cash)
  ELSE Entered(statement, statement.running - row.cash, 0, row.cash)

Posted(statement, row) ==
  CASE row.type = "RESET" -> PostReset(statement, row)
    [] row.type = "DEBIT" -> Entered(statement, row.amount, 0, statement.running - row.amount)
    [] row.type \in {"INITIAL_CREDIT", "CREDIT", "DEPOSIT"} ->
         Entered(statement, 0, row.amount, statement.running + row.amount)
    [] OTHER -> statement

\* What one row adds to the statement of a period: a row before it to the opening
\* balance, one after it to the running balance alone.
Enter(statement, row, period) ==
  LET posted == Posted(statement, row) IN
  IF row.type \in {"RESERVE", "RELEASE"} THEN statement
  ELSE IF row.day < period.from
       THEN [statement EXCEPT !.opening = posted.running, !.running = posted.running]
  ELSE IF row.day <= period.to
       THEN [posted EXCEPT !.entries = Append(@, [balance |-> posted.running, row |-> row])]
  ELSE [statement EXCEPT !.running = posted.running]

\* GetLedgerStatement: the closing balance is the running balance of the whole book.
Statement(period) ==
  LET after[n \in 0..Len(bkRows)] ==
        IF n = 0 THEN Empty ELSE Enter(after[n - 1], bkRows[n], period)
  IN  after[Len(bkRows)]

-----------------------------------------------------------------------------
\* The statement page, open while the account is at work elsewhere.
Elsewhere ==
  /\ bkPage = "statement"
  /\ \/ Reserved \/ Executed \/ Deposited \/ Restored
     \/ bkDay < MaxDay /\ bkDay' = bkDay + 1 /\ UNCHANGED <<bkWallet, bkRows>>
  /\ UNCHANGED <<bkPage, bkView, bkTable, bkModals>>

\* A preset or a date: each change of the period fetches its statement.
ChoosePeriod ==
  /\ bkPage = "statement"
  /\ \E period \in [from : 0..bkDay, to : 0..bkDay] :
       /\ period # bkPeriod
       /\ bkPeriod' = period
       /\ bkAsked' = bkAsked \cup {period}
  /\ bkShown' = [bkShown EXCEPT !.loading = TRUE]
  /\ UNCHANGED <<bkPage, bkBackend, bkTable, bkModals>>

\* Whichever answer comes replaces the statement; a failure leaves none.
StatementAnswered ==
  /\ bkPage = "statement"
  /\ \E period \in bkAsked :
       /\ bkAsked' = bkAsked \ {period}
       /\ LET s == Statement(period)
              answer == [period |-> period, asOf |-> bkDay, opening |-> s.opening, debit |-> s.debit,
                         credit |-> s.credit, closing |-> s.running, entries |-> Len(s.entries)]
          IN bkShown' \in {[statement |-> <<answer>>, loading |-> FALSE],
                           [statement |-> <<>>, loading |-> FALSE]}
  /\ UNCHANGED <<bkPage, bkBackend, bkPeriod, bkTable, bkModals>>

\* What the page draws; the export has the entries of the statement on it.
StatementBody ==
  IF bkShown.loading THEN "Auditing virtual ledger"
  ELSE IF bkShown.statement = <<>> THEN "No Ledger Statement Available"
  ELSE LET s == bkShown.statement[1] IN
       IF s.debit = 0 /\ s.credit = 0 THEN "Live Account Ledger Active"
       ELSE IF s.entries = 0 THEN "No ledger transactions found" ELSE "entries"
CanExport == bkShown.statement # <<>> /\ bkShown.statement[1].entries > 0

-----------------------------------------------------------------------------
\* The wallet page: its table polls the rows, and keeps them when a poll fails.
BookTraded ==
  /\ bkPage = "wallet" /\ Executed
  /\ UNCHANGED <<bkPage, bkView, bkTable, bkModals>>

\* A fetch that has no rows to fall back on forgets that the one before it failed.
RowsFetch == [bkTable EXCEPT !.coming = Len(bkRows'), !.failed = @ /\ bkTable.known # -1]

RowsAsked ==
  /\ bkPage = "wallet" /\ bkTable.coming = -1
  /\ UNCHANGED <<bkPage, bkBackend, bkView, bkModals>>
  /\ bkTable' = RowsFetch

\* The reset tells its outcome when the refetch it asked for has ended, well or not.
RowsAnswered ==
  /\ bkPage = "wallet" /\ bkTable.coming # -1
  /\ bkTable' \in {[known |-> bkTable.coming, coming |-> -1, failed |-> FALSE,
                     inVain |-> bkTable.inVain /\ bkTable.known = -1],
                   [bkTable EXCEPT !.coming = -1, !.failed = TRUE, !.inVain = FALSE]}
  /\ bkReset' = IF bkReset.phase = "refetching"
                THEN [bkReset EXCEPT !.phase = "idle", !.says = "done"] ELSE bkReset
  /\ UNCHANGED <<bkPage, bkBackend, bkView, bkFunds>>

\* Transactions of a kind, as the table filters them. A deposit is none of them.
Kind(filter) ==
  CASE filter = "CREDIT" -> {"CREDIT", "INITIAL_CREDIT"}
    [] filter = "DEBIT"  -> {"DEBIT"}
    [] filter = "MARGIN" -> {"RESERVE", "RELEASE"}
    [] filter = "RESET"  -> {"RESET"}
    [] OTHER -> {"CREDIT", "INITIAL_CREDIT", "DEBIT", "RESERVE", "RELEASE", "RESET", "DEPOSIT"}

\* By their place in the book; the page lists the newest first.
TableRows(filter) == {i \in 1..bkTable.known : bkRows[i].type \in Kind(filter)}

\* The table does not tell a failure from an empty book.
TableBody(filter) ==
  IF bkTable.known = -1 /\ ~bkTable.failed THEN "Fetching cash transactions ledger"
  ELSE IF TableRows(filter) = {} THEN "No transactions" ELSE "rows"

\* The sign before an amount: a deposit and a reset have none.
Sign(row) ==
  IF row.type \in {"CREDIT", "INITIAL_CREDIT"} THEN "+"
  ELSE IF row.type \in {"DEBIT", "RESERVE"} THEN "-" ELSE ""

\* invalidateQueries: a poll under way is cancelled and asked again, but a first
\* fetch under way is waited for, whatever was written since it was read.
Refetched ==
  bkTable' = IF bkTable.known = -1 /\ bkTable.coming # -1
             THEN [bkTable EXCEPT !.inVain = @ \/ bkTable.coming < Len(bkRows')]
             ELSE RowsFetch

\* AddFundsModal, of an amount that is positive, and ResetSimulationModal.
FundsModal == [canDeposit |-> ~bkFunds.adding, canReset |-> ~bkFunds.resetting]
ResetModal ==
  [body |-> IF bkReset.says = "done" THEN "Account Reset Completed!" ELSE "Permanent Simulation Reset Warning",
   alert |-> bkReset.says = "failed",
   canReset |-> bkReset.phase = "idle",
   canClose |-> bkReset.phase = "idle"]

PressDeposit ==
  /\ bkPage = "wallet" /\ FundsModal.canDeposit
  /\ bkFunds' = [bkFunds EXCEPT !.adding = TRUE]
  /\ UNCHANGED <<bkPage, bkBackend, bkView, bkTable, bkReset>>

\* The deposit is made unless its request is lost, and told done unless its answer is.
DepositAnswered ==
  /\ bkPage = "wallet" /\ bkFunds.adding
  /\ LET told(n) == bkFunds' = [bkFunds EXCEPT !.adding = FALSE, !.done = @ + n] IN
     \/ Deposited /\ told(1) /\ Refetched
     \/ (Deposited \/ UNCHANGED bkBackend) /\ told(0) /\ UNCHANGED bkTable
  /\ UNCHANGED <<bkPage, bkView, bkReset>>

\* The reset of AddFundsModal does not look at the status of its answer.
PressFundsReset ==
  /\ bkPage = "wallet" /\ FundsModal.canReset
  /\ bkFunds' = [bkFunds EXCEPT !.resetting = TRUE]
  /\ UNCHANGED <<bkPage, bkBackend, bkView, bkTable, bkReset>>

FundsResetAnswered ==
  /\ bkPage = "wallet" /\ bkFunds.resetting
  /\ bkFunds' = [bkFunds EXCEPT !.resetting = FALSE]
  /\ Restored \/ UNCHANGED bkBackend
  /\ Refetched \/ UNCHANGED bkTable
  /\ UNCHANGED <<bkPage, bkView, bkReset>>

PressReset ==
  /\ bkPage = "wallet" /\ ResetModal.canReset
  /\ bkReset' = [bkReset EXCEPT !.phase = "posted", !.says = "nothing"]
  /\ UNCHANGED <<bkPage, bkBackend, bkView, bkTable, bkFunds>>

BookResetAnswered ==
  /\ bkPage = "wallet" /\ bkReset.phase = "posted"
  /\ \/ /\ Restored /\ Refetched
        /\ bkReset' = [bkReset EXCEPT !.phase = "refetching", !.rows = Len(bkRows')]
     \/ /\ Restored \/ UNCHANGED bkBackend
        /\ bkReset' = [bkReset EXCEPT !.phase = "idle", !.says = "failed"]
        /\ UNCHANGED bkTable
  /\ UNCHANGED <<bkPage, bkView, bkFunds>>

AccountBookNext ==
  \/ Elsewhere \/ ChoosePeriod \/ StatementAnswered
  \/ BookTraded \/ RowsAsked \/ RowsAnswered \/ PressDeposit \/ DepositAnswered
  \/ PressFundsReset \/ FundsResetAnswered \/ PressReset \/ BookResetAnswered

-----------------------------------------------------------------------------
\* The statement is a book that balances: for every period that ends today its opening
\* balance and its movements make its closing balance, the closing balance is the
\* wallet's cash, and every entry's recomputed balance is the one its row was written
\* with, whatever resets, executions and reservations came before. A statement that is
\* shown balances too, and a deposit told done is a row of the book. Once a reset is told
\* done the table shows its row, failed to read it, or shows no rows at all: except that
\* it shows the rows of its first fetch, until the next one, if the reset, or another
\* change, found that under way. A row signed as a credit or a debit is one of the cash.
BookBalances ==
  /\ \A from \in 0..bkDay :
       LET s == Statement([from |-> from, to |-> bkDay]) IN
       /\ s.running = bkWallet.cash
       /\ s.opening + s.credit - s.debit = s.running
       /\ \A i \in 1..Len(s.entries) : s.entries[i].balance = s.entries[i].row.cash
  /\ bkShown.statement # <<>> /\ bkShown.statement[1].period.to = bkShown.statement[1].asOf =>
       LET s == bkShown.statement[1] IN s.opening + s.credit - s.debit = s.closing
  /\ bkFunds.done <= Cardinality({i \in 1..Len(bkRows) : bkRows[i].type = "DEPOSIT"})
  /\ ResetModal.body = "Account Reset Completed!" =>
       \/ bkTable.known >= bkReset.rows /\ TableBody("RESET") = "rows"
       \/ bkTable.failed \/ bkTable.known = -1
       \/ bkTable.inVain
  /\ \A i \in 2..Len(bkRows) :
       /\ Sign(bkRows[i]) = "+" => bkRows[i].cash > bkRows[i - 1].cash
       /\ Sign(bkRows[i]) = "-" => (bkRows[i].cash < bkRows[i - 1].cash \/ bkRows[i].type = "RESERVE")
=============================================================================
