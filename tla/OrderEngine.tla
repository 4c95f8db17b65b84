---------------------------- MODULE OrderEngine ----------------------------
(***************************************************************************)
(* One user's account: the wallet row, the order, position and trade rows, *)
(* and the calls (HTTP handlers and the matcher) that work on them.        *)
(*                                                                         *)
(* Every database transaction that changes money takes the user's wallet   *)
(* row with SELECT ... FOR UPDATE first, so the transactions of a user are *)
(* serialised and each is one action.  A call is NOT one action: between   *)
(* its transactions, and between reading a quote and using it, any other   *)
(* call may run.  Users share no row, so one user is the general case.     *)
(***************************************************************************)
EXTENDS Accounting, Totals, Sequences

CONSTANTS MaxOrders,     \* orders an instance may create
          Workers,       \* calls in flight at once: HTTP handlers, the matcher
          Requests,      \* the create requests a client may send
          Prices,        \* quotes the market may show
          Keys,          \* Idempotency-Key values of create requests
          ExitKeys,      \* Idempotency-Key values of square-off requests
          NoKey,
          InitialCash,   \* starting balance, and the balance after a reset
          Deposits,      \* deposit amounts
          MaxCapital,    \* bound on the capital deposited
          MaxResets,     \* bound on simulation resets
          MaxCrashes     \* bound on calls that stop half-way

Orders == 1..MaxOrders

Requestable ==
  [book : Books, side : Sides, type : Types, qty : Nat \ {0},
   price : Nat, trigger : Nat, reason : {"NONE", "SQUARE_OFF"}]

ASSUME EngineAssumption ==
  /\ MaxOrders \in Nat
  /\ Requests \subseteq Requestable
  /\ \A r \in Requests :
       /\ r.type \in {"LIMIT", "SL"} <=> r.price > 0
       /\ r.type \in {"SL", "SL-M"} => r.trigger > 0
  /\ Prices \subseteq Nat \ {0}
  /\ NoKey \notin Keys \cup ExitKeys
  /\ InitialCash \in Nat \ {0}
  /\ Deposits \subseteq Nat \ {0}
  /\ MaxCapital \in Nat /\ MaxResets \in Nat /\ MaxCrashes \in Nat

VARIABLES cash,       \* wallet.CashBalancePaise
          blocked,    \* wallet.BlockedPaise
          status,     \* Order.Status by order number, "NONE" before it exists
          reserved,   \* Order.ReservedPaise
          order,      \* the rest of the order row
          position,   \* Position rows by book
          trades,     \* Trade rows, append only
          epoch,      \* resets so far: a position row of another epoch is
                      \* another row, with another UUID
          resetAt,    \* trades that existed at the last reset
          capital,    \* starting balance plus deposits since the last reset
          call,       \* what each call is doing
          crashes

vars == <<cash, blocked, status, reserved, order, position, trades, epoch,
          resetAt, capital, call, crashes>>
wallet == <<cash, blocked>>
rows == <<status, reserved, order>>
history == <<epoch, resetAt, capital>>
account == <<wallet, rows, position, trades, history>>

Active == {"PENDING", "OPEN", "TRIGGER_PENDING"}
Terminal == {"EXECUTED", "CANCELLED", "REJECTED"}
Statuses == Active \cup Terminal \cup {"NONE"}

(* ExitKey, ExitPositionUUID and ExitPositionUpdatedAt of an order; rev     *)
(* counts the saves of a position row, so it stands for its UpdatedAt.      *)
NoExit == [key |-> NoKey, epoch |-> 0, rev |-> 0]
Exits == [key : ExitKeys \cup {NoKey}, epoch : Nat, rev : Nat]

NoRequest == [book |-> "DELIVERY", side |-> "BUY", type |-> "MARKET", qty |-> 0,
              price |-> 0, trigger |-> 0, reason |-> "NONE"]
OrderRow(r, k, exit) ==
  [book |-> r.book, side |-> r.side, type |-> r.type, qty |-> r.qty,
   price |-> r.price, trigger |-> r.trigger, reason |-> r.reason,
   key |-> k, exit |-> exit]
NoOrder == OrderRow(NoRequest, NoKey, NoExit)
OrderRows ==
  [book : Books, side : Sides, type : Types, qty : Nat, price : Nat,
   trigger : Nat, reason : {"NONE", "SQUARE_OFF"},
   key : Keys \cup {NoKey}, exit : Exits]

ClosedPosition(rev) ==
  [exists |-> FALSE, qty |-> 0, avg |-> 0, cost |-> 0, margin |-> 0,
   realized |-> 0, rev |-> rev]
PositionRows ==
  [exists : BOOLEAN, qty : Int, avg : Nat, cost : Nat, margin : Nat,
   realized : Int, rev : Nat]

Trades == [order : Orders, qty : Nat, price : Nat]

(* A call's state: working on an order, or on a request under a key. *)
Working(pc, o, ltp, creating) ==
  [pc |-> pc, order |-> o, price |-> ltp, creating |-> creating,
   key |-> NoKey, req |-> NoRequest]
Idle == Working("idle", 0, 0, FALSE)
Executing(o, creating) == Working("execute", o, 0, creating)
Creating(k, r) ==
  [pc |-> "create", order |-> 0, price |-> 0, creating |-> FALSE, key |-> k, req |-> r]
Calls ==
  [pc : {"idle", "create", "execute", "settle", "reject"},
   order : Orders \cup {0}, price : Prices \cup {0}, creating : BOOLEAN,
   key : Keys \cup {NoKey}, req : Requests \cup {NoRequest}]

Available == cash - blocked

-----------------------------------------------------------------------------
(* Placing an order.                                                        *)

NextOrder(o) == status[o] = "NONE" /\ \A q \in Orders : status[q] = "NONE" => o <= q

(* finishCreated: a market order is executed by the call that created it;  *)
(* any other order is left to the matcher, a call of its own below.        *)
FinishCreated(o, type, st) ==
  IF type = "MARKET" /\ st \in Active THEN Executing(o, TRUE) ELSE Idle

(* Create up to CreateIntent: FindIntent reads, without a lock, whether the *)
(* key was used.  A conflicting or finished intent answers the request.     *)
SubmitOrder(w, k, r) ==
  /\ call[w] = Idle
  /\ \/ /\ \A o \in Orders : order[o].key # k
        /\ call' = [call EXCEPT ![w] = Creating(k, r)]
     \/ \E o \in Orders :
          /\ order[o].key = k /\ order[o] = OrderRow(r, k, NoExit)
          /\ call' = [call EXCEPT ![w] = FinishCreated(o, r.type, status[o])]
  /\ UNCHANGED <<account, crashes>>

(* Quantity of active delivery sales, square-offs included. *)
CommittedShares ==
  PartialSum([o \in Orders |->
                IF /\ status[o] \in Active
                   /\ order[o].book = "DELIVERY" /\ order[o].side = "SELL"
                THEN order[o].qty ELSE 0], MaxOrders)

(* Fault: shares that other sales offer are offered again. *)
SharesHeld(r) == position["DELIVERY"].exists /\ r.qty <= position["DELIVERY"].qty

SharesAvailable(r) ==
  /\ position["DELIVERY"].exists /\ position["DELIVERY"].qty > 0
  /\ r.qty <= position["DELIVERY"].qty - CommittedShares

Placeable(r) ==
  /\ Reservation(r) > 0 => Available >= Reservation(r)
  /\ Reservation(r) = 0 /\ r.book = "DELIVERY" /\ r.side = "SELL" => SharesAvailable(r)

InitialStatus(r) == IF r.type \in {"SL", "SL-M"} THEN "TRIGGER_PENDING" ELSE "PENDING"

(* Fault: the insert trusts the first look. *)
FirstUseUnchecked(w) == TRUE
FirstUse(w) == \A o \in Orders : order[o].key # call[w].key

(* CreateIntent: the advisory lock on the key makes the second look at it  *)
(* and the insert one step.                                                *)
CreateIntent(w) ==
  LET k == call[w].key
      r == call[w].req
  IN  /\ call[w].pc = "create"
      /\ FirstUse(w)
      /\ Placeable(r)
      /\ \E o \in Orders :
           /\ NextOrder(o)
           /\ blocked' = blocked + Reservation(r)
           /\ reserved' = [reserved EXCEPT ![o] = Reservation(r)]
           /\ status' = [status EXCEPT ![o] = InitialStatus(r)]
           /\ order' = [order EXCEPT ![o] = OrderRow(r, k, NoExit)]
           /\ call' = [call EXCEPT ![w] = FinishCreated(o, r.type, InitialStatus(r))]
      /\ UNCHANGED <<cash, position, trades, history, crashes>>

(* The second look finds the order a concurrent retry has inserted. *)
JoinIntent(w) ==
  /\ call[w].pc = "create"
  /\ \E o \in Orders :
       /\ order[o].key = call[w].key
       /\ call' = [call EXCEPT ![w] =
                     IF order[o] = OrderRow(call[w].req, call[w].key, NoExit)
                     THEN FinishCreated(o, call[w].req.type, status[o]) ELSE Idle]
  /\ UNCHANGED <<account, crashes>>

(* The session, the instrument, the circuit band, the quote a market order *)
(* needs or the funds refuse the order; nothing is stored.                 *)
RefuseOrder(w) ==
  /\ call[w].pc = "create"
  /\ call' = [call EXCEPT ![w] = Idle]
  /\ UNCHANGED <<account, crashes>>

(* SquareOffPosition stores the intent to close the position as it is now. *)
(* A retry with the same key executes the stored intent again.             *)
SquareOffPosition(w, b, k) ==
  LET p == position[b]
      ref == [key |-> k, epoch |-> epoch, rev |-> p.rev]
      r == [book |-> b, side |-> IF p.qty < 0 THEN "BUY" ELSE "SELL",
            type |-> "MARKET", qty |-> Magnitude(p.qty), price |-> 0,
            trigger |-> 0, reason |-> "SQUARE_OFF"]
  IN  /\ call[w] = Idle
      /\ \A q \in Orders : order[q].exit.key # k
      /\ p.exists /\ p.qty # 0
      /\ \E o \in Orders :
           /\ NextOrder(o)
           /\ status' = [status EXCEPT ![o] = "PENDING"]
           /\ order' = [order EXCEPT ![o] = OrderRow(r, NoKey, ref)]
           /\ call' = [call EXCEPT ![w] = Executing(o, FALSE)]
      /\ UNCHANGED <<wallet, reserved, position, trades, history, crashes>>

-----------------------------------------------------------------------------
(* Executing an order.                                                      *)

(* The matcher (MatchSymbol), the execute endpoint and the retry of a      *)
(* square-off all call Execute for an order they saw active.               *)
BeginExecute(w, o) ==
  /\ call[w] = Idle
  /\ status[o] \in Active
  /\ call' = [call EXCEPT ![w] = Executing(o, FALSE)]
  /\ UNCHANGED <<account, crashes>>

(* Fault: nobody rejects the order. *)
FailsSilently(w) == [call EXCEPT ![w] = Idle]

(* A failed execution is the creating call's problem; others just return.  *)
Fails(w) ==
  [call EXCEPT ![w] = IF @.creating THEN Working("reject", @.order, 0, TRUE) ELSE Idle]

(* No executable quote, or the instrument may no longer be traded. *)
Unavailable(w) ==
  /\ call[w].pc = "execute"
  /\ call' = Fails(w)
  /\ UNCHANGED <<account, crashes>>

(* activateStop, a transaction of its own: the quote triggers a waiting    *)
(* stop for good, or the execution fails.  The quote is used later, in     *)
(* Settle, however old it is by then.                                      *)
ActivateStop(w, ltp) ==
  LET o == call[w].order IN
  /\ call[w].pc = "execute"
  /\ IF status[o] = "TRIGGER_PENDING" /\ ~ TriggerSatisfied(order[o], ltp)
     THEN call' = Fails(w) /\ UNCHANGED status
     ELSE /\ call' = [call EXCEPT ![w] = Working("settle", o, ltp, @.creating)]
          /\ status' = [status EXCEPT ![o] = IF @ = "TRIGGER_PENDING" THEN "OPEN" ELSE @]
  /\ UNCHANGED <<wallet, reserved, order, position, trades, history, crashes>>

(* The settlement transaction.  What it looks at, in the code's order.     *)

FilledQty(o) ==
  IF order[o].reason = "SQUARE_OFF" /\ (order[o].book \in MarginBooks \/ order[o].side = "SELL")
  THEN Smaller(order[o].qty, Magnitude(position[order[o].book].qty))
  ELSE order[o].qty

(* Fault: the status is not read again under the row lock. *)
AdmissibleAnyStatus(o, price) ==
  order[o].type \in {"LIMIT", "SL"} => LimitSatisfied(order[o], price)

Admissible(o, price) ==
  /\ status[o] \in Active
  /\ order[o].type \in {"LIMIT", "SL"} => LimitSatisfied(order[o], price)
  /\ order[o].book = "DELIVERY" => 0 <= cash /\ 0 <= blocked /\ blocked <= cash

(* Fault: the row's UUID is compared, its UpdatedAt is not. *)
StaleExitByIdentity(o) ==
  order[o].exit.key # NoKey
  /\ ~ (position[order[o].book].exists /\ order[o].exit.epoch = epoch)

StaleExit(o) ==
  LET p == position[order[o].book]
      e == order[o].exit
  IN  e.key # NoKey /\ ~ (p.exists /\ e.epoch = epoch /\ e.rev = p.rev)

(* A square-off with no position left on the side it closes. *)
NothingToClose(o) ==
  LET q == position[order[o].book].qty
  IN  /\ order[o].reason = "SQUARE_OFF"
      /\ IF order[o].book = "DELIVERY" THEN order[o].side = "SELL" /\ q <= 0
         ELSE q = 0 \/ (q > 0) # (order[o].side = "SELL")

Obsolete(o) == StaleExit(o) \/ NothingToClose(o)

DeliveryCovered(o, price) ==
  LET total == FilledQty(o) * price
  IN  IF order[o].side = "BUY"
      THEN /\ IF reserved[o] > 0 THEN total <= reserved[o] ELSE total <= Available
           /\ total <= cash
           /\ reserved[o] <= blocked
      ELSE position["DELIVERY"].exists /\ FilledQty(o) <= position["DELIVERY"].qty

MarginAfter(o, price) ==
  LET p == position[order[o].book]
  IN  MarginForPosition(order[o].book,
        TransitionQty(p.qty, FilledQty(o), order[o].side),
        TransitionAverage(p.qty, p.avg, FilledQty(o), price, order[o].side))

(* Faults: the order's reservation, or the old position's margin, stays. *)
BlockedAfterKeepingReservation(o, price) ==
  blocked + MarginAfter(o, price) - position[order[o].book].margin
BlockedAfterKeepingMargin(o, price) == blocked - reserved[o] + MarginAfter(o, price)

BlockedAfter(o, price) ==
  LET b == blocked - reserved[o] + MarginAfter(o, price) - position[order[o].book].margin
  IN  IF b < 0 THEN 0 ELSE b

CashChange(o, price) ==
  LET p == position[order[o].book]
      total == FilledQty(o) * price
  IN  IF order[o].book = "OPTION" THEN IF order[o].side = "SELL" THEN total ELSE -total
      ELSE TransitionRealized(p.qty, p.avg, FilledQty(o), price, order[o].side)

(* Fault: the wallet is looked at before the fill only. *)
MarginCoveredBefore(o, price) ==
  MarginAfter(o, price) - position[order[o].book].margin <= Available + reserved[o]

MarginCovered(o, price) ==
  LET free == Available + reserved[o]
  IN  /\ MarginAfter(o, price) - position[order[o].book].margin <= free
      /\ order[o].book = "OPTION" /\ order[o].side = "BUY" => FilledQty(o) * price <= free
      /\ reserved[o] <= blocked
      /\ BlockedAfter(o, price) <= cash + CashChange(o, price)

Covered(o, price) ==
  IF order[o].book = "DELIVERY" THEN DeliveryCovered(o, price) ELSE MarginCovered(o, price)

(* Common to the two settlements: the trade, the order row and the reply.  *)
Record(w, o, price) ==
  /\ trades' = Append(trades, [order |-> o, qty |-> FilledQty(o), price |-> price])
  /\ order' = [order EXCEPT ![o].qty = FilledQty(o)]
  /\ status' = [status EXCEPT ![o] = "EXECUTED"]
  /\ reserved' = [reserved EXCEPT ![o] = 0]
  /\ call' = [call EXCEPT ![w] = Idle]
  /\ UNCHANGED <<history, crashes>>

Invested(p) == IF p.cost = 0 /\ p.qty # 0 /\ p.avg > 0 THEN Magnitude(p.qty) * p.avg ELSE p.cost

SettleDelivery(w) ==
  LET o == call[w].order
      price == FillPrice(order[o], call[w].price)
      qty == FilledQty(o)
      total == qty * price
      p == position["DELIVERY"]
      sold == ProportionalCostBasis(Invested(p), qty, p.qty)
      newQty == TransitionQty(p.qty, qty, order[o].side)
      newCost == IF order[o].side = "BUY" THEN Invested(p) + total ELSE Invested(p) - sold
  IN  /\ call[w].pc = "settle" /\ order[o].book = "DELIVERY"
      /\ Admissible(o, price) /\ ~ Obsolete(o) /\ DeliveryCovered(o, price)
      /\ cash' = cash - Delta(order[o].side, total)
      /\ blocked' = IF order[o].side = "BUY" THEN blocked - reserved[o] ELSE blocked
      /\ position' = [position EXCEPT !["DELIVERY"] =
           [exists |-> TRUE, qty |-> newQty, cost |-> newCost, margin |-> p.margin,
            avg |-> IF newQty = 0 THEN 0 ELSE newCost \div newQty,
            realized |-> p.realized + IF order[o].side = "BUY" THEN 0 ELSE total - sold,
            rev |-> p.rev + 1]]
      /\ Record(w, o, price)

SettleMargin(w) ==
  LET o == call[w].order
      b == order[o].book
      price == FillPrice(order[o], call[w].price)
      qty == FilledQty(o)
      p == position[b]
      newQty == TransitionQty(p.qty, qty, order[o].side)
      newAvg == TransitionAverage(p.qty, p.avg, qty, price, order[o].side)
  IN  /\ call[w].pc = "settle" /\ b \in MarginBooks
      /\ Admissible(o, price) /\ ~ Obsolete(o) /\ MarginCovered(o, price)
      /\ cash' = cash + CashChange(o, price)
      /\ blocked' = BlockedAfter(o, price)
      /\ position' = [position EXCEPT ![b] =
           [exists |-> TRUE, qty |-> newQty, avg |-> newAvg,
            cost |-> Magnitude(newQty) * newAvg, margin |-> MarginAfter(o, price),
            realized |-> p.realized
              + TransitionRealized(p.qty, p.avg, qty, price, order[o].side),
            rev |-> p.rev + 1]]
      /\ Record(w, o, price)

(* The settlement finds an exit overtaken by another fill and cancels it.  *)
CancelObsolete(w) ==
  LET o == call[w].order IN
  /\ call[w].pc = "settle"
  /\ Admissible(o, FillPrice(order[o], call[w].price)) /\ Obsolete(o)
  /\ status' = [status EXCEPT ![o] = "CANCELLED"]
  /\ call' = [call EXCEPT ![w] = Idle]
  /\ UNCHANGED <<wallet, reserved, order, position, trades, history, crashes>>

(* The settlement rolls back.  An intraday order may also find the MIS     *)
(* cut-off passed.                                                         *)
RefuseSettlement(w) ==
  LET o == call[w].order
      price == FillPrice(order[o], call[w].price)
  IN  /\ call[w].pc = "settle"
      /\ \/ ~ Admissible(o, price)
         \/ ~ Obsolete(o) /\ ~ Covered(o, price)
         \/ order[o].book = "INTRADAY"
      /\ call' = Fails(w)
      /\ UNCHANGED <<account, crashes>>

(* Fault: the status is not read again under the row lock. *)
RejectAnyStatus(w) ==
  LET o == call[w].order IN
  /\ call[w].pc = "reject"
  /\ call' = [call EXCEPT ![w] = Idle]
  /\ blocked' = IF blocked >= reserved[o] THEN blocked - reserved[o] ELSE blocked
  /\ reserved' = [reserved EXCEPT ![o] = 0]
  /\ status' = [status EXCEPT ![o] = "REJECTED"]
  /\ UNCHANGED <<cash, order, position, trades, history, crashes>>

(* The creating call marks its failed market order rejected, unless another *)
(* call has finished the order.                                             *)
Reject(w) ==
  LET o == call[w].order IN
  /\ call[w].pc = "reject"
  /\ call' = [call EXCEPT ![w] = Idle]
  /\ IF status[o] \in Active
     THEN /\ blocked' = IF blocked >= reserved[o] THEN blocked - reserved[o] ELSE blocked
          /\ reserved' = [reserved EXCEPT ![o] = 0]
          /\ status' = [status EXCEPT ![o] = "REJECTED"]
     ELSE UNCHANGED <<blocked, reserved, status>>
  /\ UNCHANGED <<cash, order, position, trades, history, crashes>>

-----------------------------------------------------------------------------
(* Requests of a single transaction.                                        *)

Cancel(o) ==
  /\ status[o] \in Active
  /\ reserved[o] <= blocked
  /\ blocked' = blocked - reserved[o]
  /\ reserved' = [reserved EXCEPT ![o] = 0]
  /\ status' = [status EXCEPT ![o] = "CANCELLED"]
  /\ UNCHANGED <<cash, order, position, trades, history, call, crashes>>

Deposit(amount) ==
  /\ capital + amount <= MaxCapital
  /\ cash' = cash + amount
  /\ capital' = capital + amount
  /\ UNCHANGED <<blocked, rows, position, trades, epoch, resetAt, call, crashes>>

(* The reset's UPDATE of open orders lists PENDING and OPEN only. *)
OpenAtReset == {o \in Orders : status[o] \in {"PENDING", "OPEN"}}

ResetCurrentState ==
  LET open == OpenAtReset IN
  /\ epoch < MaxResets
  /\ status' = [o \in Orders |-> IF o \in open THEN "CANCELLED" ELSE status[o]]
  /\ reserved' = [o \in Orders |-> IF o \in open THEN 0 ELSE reserved[o]]
  /\ cash' = InitialCash
  /\ blocked' = 0
  /\ position' = [b \in Books |-> ClosedPosition(position[b].rev)]
  /\ epoch' = epoch + 1
  /\ resetAt' = Len(trades)
  /\ capital' = InitialCash
  /\ UNCHANGED <<order, trades, call, crashes>>

(* A call stops between two of its transactions: the process dies, or the  *)
(* database refuses it.  What it has committed stays.                      *)
Crash(w) ==
  /\ call[w] # Idle
  /\ crashes < MaxCrashes
  /\ crashes' = crashes + 1
  /\ call' = [call EXCEPT ![w] = Idle]
  /\ UNCHANGED account

-----------------------------------------------------------------------------
Init ==
  /\ cash = InitialCash /\ blocked = 0
  /\ status = [o \in Orders |-> "NONE"]
  /\ reserved = [o \in Orders |-> 0]
  /\ order = [o \in Orders |-> NoOrder]
  /\ position = [b \in Books |-> ClosedPosition(0)]
  /\ trades = <<>>
  /\ epoch = 0 /\ resetAt = 0 /\ capital = InitialCash
  /\ call = [w \in Workers |-> Idle]
  /\ crashes = 0

(* The steps a call takes on its own once it has begun. *)
Progress(w) ==
  \/ CreateIntent(w) \/ JoinIntent(w) \/ RefuseOrder(w)
  \/ Unavailable(w)
  \/ \E ltp \in Prices : ActivateStop(w, ltp)
  \/ SettleDelivery(w) \/ SettleMargin(w) \/ CancelObsolete(w) \/ RefuseSettlement(w)
  \/ Reject(w)

Next ==
  \/ \E w \in Workers :
       \/ \E k \in Keys, r \in Requests : SubmitOrder(w, k, r)
       \/ \E b \in Books, k \in ExitKeys : SquareOffPosition(w, b, k)
       \/ \E o \in Orders : BeginExecute(w, o)
       \/ Progress(w)
       \/ Crash(w)
  \/ \E o \in Orders : Cancel(o)
  \/ \E a \in Deposits : Deposit(a)
  \/ ResetCurrentState

Spec == Init /\ [][Next]_vars

-----------------------------------------------------------------------------
(* Every variable has the shape of the rows and calls it stands for. *)
TypeOK ==
  /\ cash \in Int /\ blocked \in Int
  /\ status \in [Orders -> Statuses]
  /\ reserved \in [Orders -> Nat]
  /\ order \in [Orders -> OrderRows]
  /\ position \in [Books -> PositionRows]
  /\ trades \in Seq(Trades)
  /\ epoch \in Nat /\ resetAt \in Nat /\ capital \in Nat /\ crashes \in Nat
  /\ call \in [Workers -> Calls]

(* The wallet's blocked amount is never negative and never more than its   *)
(* cash, whatever settles, cancels or resets in between: the sanity check  *)
(* of the settlement and NEGATIVE_BLOCKED_BALANCE and BLOCKED_EXCEEDS_CASH *)
(* of the reconciliation report.                                           *)
FundsCovered == 0 <= blocked /\ blocked <= cash

ActiveReserved == [o \in Orders |-> IF status[o] \in Active THEN reserved[o] ELSE 0]
TotalMargin == position["INTRADAY"].margin + position["FUTURE"].margin + position["OPTION"].margin

(* What is blocked is exactly what active orders reserve and positions tie *)
(* up: BLOCKED_BALANCE_MISMATCH of the reconciliation report.              *)
BlockedBalance == blocked = PartialSum(ActiveReserved, MaxOrders) + TotalMargin

(* No order is settled twice and no trade lacks an executed order, however *)
(* many calls execute, cancel and retry it: ORDER_WITHOUT_TRADE and        *)
(* ORDER_TRADE_QUANTITY_MISMATCH of the report.                            *)
ExecutedOnce ==
  \A o \in Orders :
    LET mine == {i \in 1..Len(trades) : trades[i].order = o}
    IN  IF status[o] = "EXECUTED"
        THEN \E i \in mine : mine = {i} /\ trades[i].qty = order[o].qty
        ELSE mine = {}

TradeSum(Term(_)) ==
  PartialSum([i \in 1..Len(trades) |-> IF i > resetAt THEN Term(trades[i]) ELSE 0], Len(trades))

(* A position holds what was bought less what was sold since the last      *)
(* reset: POSITION_TRADE_QUANTITY_DESYNC of the report.                    *)
PositionIsNetTrades ==
  \A b \in Books :
    LET Signed(t) == IF order[t.order].book = b THEN Delta(order[t.order].side, t.qty) ELSE 0
    IN  position[b].qty = TradeSum(Signed)

(* No paise appears or disappears: cash and the cost of the shares held are *)
(* the capital paid in, the profit realised and the option premiums.        *)
MoneyConserved ==
  LET Premium(t) == IF order[t.order].book = "OPTION"
                    THEN -Delta(order[t.order].side, t.qty * t.price) ELSE 0
  IN  cash + position["DELIVERY"].cost =
        capital + position["DELIVERY"].realized + position["INTRADAY"].realized
          + position["FUTURE"].realized + TradeSum(Premium)

(* Deliveries are never sold short, and the cost basis leaves with the last *)
(* share, whatever the rounding of partial sales.                           *)
DeliveryNeverShort ==
  LET p == position["DELIVERY"]
  IN  p.qty >= 0 /\ p.cost >= 0 /\ (p.qty = 0 <=> p.cost = 0)

(* The books of the account balance to the paisa, those of deliveries above *)
(* all: rounding of partial sales neither makes nor loses money.            *)
DeliveryBooks == MoneyConserved /\ DeliveryNeverShort

OfferedShares ==
  PartialSum([o \in Orders |->
                IF /\ status[o] \in Active /\ order[o].exit.key = NoKey
                   /\ order[o].book = "DELIVERY" /\ order[o].side = "SELL"
                THEN order[o].qty ELSE 0], MaxOrders)

(* "Verifies that the user holds enough free shares": what open sales offer *)
(* is held.  Only a square-off, which takes the whole position and looks at *)
(* no open sale, leaves offers uncovered.                                   *)
SharesCommitted ==
  \/ OfferedShares <= position["DELIVERY"].qty
  \/ \E o \in Orders : /\ status[o] = "EXECUTED" /\ order[o].book = "DELIVERY"
                       /\ order[o].exit.key # NoKey /\ order[o].exit.epoch = epoch

(* A key names at most one order, however requests race, retry and crash. *)
OneOrderPerKey ==
  \A o, q \in Orders : o # q =>
    /\ order[o].key # NoKey => order[o].key # order[q].key
    /\ order[o].exit.key # NoKey => order[o].exit.key # order[q].exit.key

(* "This prevents a market order becoming an unfillable pending order": as  *)
(* long as no call stops half-way, the call that created an active market   *)
(* order is still there to execute or reject it.                            *)
MarketOrderHasOwner ==
  crashes = 0 =>
    \A o \in Orders :
      status[o] \in Active /\ order[o].type = "MARKET" /\ order[o].exit.key = NoKey =>
        \E w \in Workers : call[w].order = o /\ call[w].creating

-----------------------------------------------------------------------------
(* A square-off closes the very position its intent recorded, completely:   *)
(* it never opens, reverses or trims a position that changed or reopened    *)
(* between the intent and the fill.                                         *)
ExitFlattens ==
  [][\A o \in Orders :
       status'[o] = "EXECUTED" /\ status[o] # "EXECUTED" /\ order[o].exit.key # NoKey =>
         LET b == order[o].book
         IN  /\ position'[b].qty = 0
             /\ order[o].exit.epoch = epoch
             /\ Magnitude(position[b].qty) = order[o].qty]_vars

(* Every market order a client creates is eventually executed, cancelled or *)
(* rejected, if no call stops half-way.                                     *)
MarketOrdersFinish ==
  \A o \in Orders :
    (status[o] \in Active /\ order[o].type = "MARKET" /\ order[o].exit.key = NoKey)
      ~> status[o] \in Terminal \/ crashes > 0

(* However calls race, retry and stop, an order fills at most once and every *)
(* fill is paid for: a wallet at its limit covers it or it does not happen. *)
FilledOnceAndPaid == ExecutedOnce /\ FundsCovered

-----------------------------------------------------------------------------
(* The account as its owner sees it. *)
Phase(st) ==
  CASE st = "NONE" -> "none"
    [] st \in Active -> "open"
    [] st = "EXECUTED" -> "filled"
    [] OTHER -> "dropped"

OrderPhase == [o \in Orders |-> Phase(status[o])]
OrderTicket ==
  [o \in Orders |->
     [book |-> order[o].book, side |-> order[o].side, qty |-> order[o].qty]]
Holding == [b \in Books |-> position[b].qty]

Ledger == INSTANCE OrderLedger
  WITH phase <- OrderPhase, ticket <- OrderTicket, holding <- Holding

(* However calls race, retry and crash, the account is a ledger of orders   *)
(* that are placed once and then filled once or dropped for good, and only  *)
(* a fill that is paid for moves a holding.                                 *)
KeepsLedger == Ledger!Spec
=============================================================================
