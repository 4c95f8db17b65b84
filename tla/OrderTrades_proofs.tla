------------------------- MODULE OrderTrades_proofs -------------------------
(***************************************************************************)
(* What the order, trade and position rows of OrderEngine say of each      *)
(* other, for every instance: orders fill once, positions are the net of   *)
(* the trades, no money is made, keys name one order, square-offs flatten. *)
(*                                                                         *)
(* The proofs see the engine's actions through five kinds of step: a row   *)
(* is inserted, an order is filled, statuses move, money is deposited, the *)
(* account is reset (StepKinds).  Each invariant then has five cases.      *)
(***************************************************************************)
EXTENDS OrderEngine_proofs

(* A row that records the position it is to close, as it is now. *)
Closes(row) ==
  LET p == position[row.book]
  IN  /\ row.reason = "SQUARE_OFF"
      /\ row.exit.epoch = epoch /\ row.exit.rev = p.rev
      /\ row.qty = Magnitude(p.qty)
      /\ row.side = IF p.qty < 0 THEN "BUY" ELSE "SELL"

(* Order number o is stored: its keys are new, an exit closes the present  *)
(* position, a delivery sale offers shares that no active sale offers.     *)
Insert(o, st, row) ==
  /\ status[o] = "NONE" /\ st \in Active /\ row \in OrderRows /\ row.qty > 0
  /\ status' = [status EXCEPT ![o] = st]
  /\ order' = [order EXCEPT ![o] = row]
  /\ row.key # NoKey => \A q \in Orders : order[q].key # row.key
  /\ row.exit.key # NoKey =>
       Closes(row) /\ \A q \in Orders : order[q].exit.key # row.exit.key
  /\ row.exit.key = NoKey /\ row.book = "DELIVERY" /\ row.side = "SELL" =>
       row.qty <= position["DELIVERY"].qty - CommittedShares
  /\ st = "TRIGGER_PENDING" => row.type \in {"SL", "SL-M"} /\ \E r \in Requests : r.type = row.type
  /\ UNCHANGED <<cash, position, trades, history>>

(* Order o is filled at a price; new is the position row that results. *)
Fill(o, price, new) ==
  /\ o \in Orders /\ status[o] \in Active /\ order[o].book \in Books
  /\ price \in Nat \ {0} /\ FilledQty(o) \in Nat /\ FilledQty(o) <= order[o].qty
  /\ ~ Obsolete(o)
  /\ new \in PositionRows
  /\ new.qty = TransitionQty(position[order[o].book].qty, FilledQty(o), order[o].side)
  /\ new.rev = position[order[o].book].rev + 1
  /\ position' = [position EXCEPT ![order[o].book] = new]
  /\ trades' = Append(trades, [order |-> o, qty |-> FilledQty(o), price |-> price])
  /\ order' = [order EXCEPT ![o].qty = FilledQty(o)]
  /\ status' = [status EXCEPT ![o] = "EXECUTED"]
  /\ UNCHANGED history

(* An active order changes status without a fill, if anything happens. *)
Move ==
  /\ \A o \in Orders : status'[o] # status[o] =>
       status[o] \in Active /\ status'[o] \in {"OPEN", "CANCELLED", "REJECTED"}
  /\ \A o, q \in Orders : status'[o] # status[o] /\ status'[q] # status[q] => o = q
  /\ UNCHANGED <<cash, order, position, trades, history>>

(* CreateIntent inserts. *)
LEMMA CreateInserts ==
  ASSUME TypeInv, NEW w \in Workers, CreateIntent(w)
  PROVE  \E o \in Orders : \E st, row : Insert(o, st, row)
<1> DEFINE k == call[w].key
           r == call[w].req
           row == OrderRow(r, k, NoExit)
           st == InitialStatus(r)
<1>1. k \in Keys /\ r \in Requests
  BY DEF CreateIntent, TypeInv, CallOK
<1>2. PICK o \in Orders :
        /\ NextOrder(o)
        /\ status' = [status EXCEPT ![o] = st]
        /\ order' = [order EXCEPT ![o] = row]
  BY DEF CreateIntent
<1>3. /\ UNCHANGED <<cash, position, trades, history>>
      /\ FirstUse(w) /\ Placeable(r)
  BY DEF CreateIntent
<1>4. /\ row \in OrderRows /\ row.qty > 0 /\ row.key = k /\ row.exit.key = NoKey
      /\ row.book = r.book /\ row.side = r.side /\ row.qty = r.qty /\ row.type = r.type
  BY <1>1, RequestType, OrderRowType, NoExitType DEF OrderRow, NoExit
<1>5. st \in Active /\ (st = "TRIGGER_PENDING" => r.type \in {"SL", "SL-M"})
  BY DEF InitialStatus, Active
<1>6. \A q \in Orders : order[q].key # k
  BY <1>3 DEF FirstUse
<1>7. r.book = "DELIVERY" /\ r.side = "SELL" => r.qty <= position["DELIVERY"].qty - CommittedShares
  BY <1>3 DEF Placeable, Reservation, SharesAvailable
<1> HIDE DEF row, st
<1>8. Insert(o, st, row)
  BY <1>1, <1>2, <1>3, <1>4, <1>5, <1>6, <1>7 DEF Insert, NextOrder
<1> QED BY <1>8

(* SquareOffPosition inserts an exit that closes the position. *)
LEMMA SquareOffInserts ==
  ASSUME TypeInv, NEW w \in Workers, NEW b \in Books, NEW k \in ExitKeys,
         SquareOffPosition(w, b, k)
  PROVE  \E o \in Orders : \E st, row : Insert(o, st, row)
<1> DEFINE p == position[b]
           ref == [key |-> k, epoch |-> epoch, rev |-> p.rev]
           r == [book |-> b, side |-> IF p.qty < 0 THEN "BUY" ELSE "SELL",
                 type |-> "MARKET", qty |-> Magnitude(p.qty), price |-> 0,
                 trigger |-> 0, reason |-> "SQUARE_OFF"]
           row == OrderRow(r, NoKey, ref)
<1>1. PICK o \in Orders :
        /\ NextOrder(o)
        /\ status' = [status EXCEPT ![o] = "PENDING"]
        /\ order' = [order EXCEPT ![o] = row]
  BY DEF SquareOffPosition
<1>2. /\ UNCHANGED <<cash, position, trades, history>>
      /\ \A q \in Orders : order[q].exit.key # k
      /\ p.qty # 0
  BY DEF SquareOffPosition, wallet
<1>3. p.qty \in Int /\ p.rev \in Nat /\ epoch \in Nat
  BY DEF TypeInv, TypeOK, PositionRows
<1>4. row \in OrderRows
  <2>1. ref \in Exits
    BY <1>3 DEF Exits
  <2>2. r \in [book : Books, side : Sides, type : Types, qty : Nat, price : Nat,
               trigger : Nat, reason : {"NONE", "SQUARE_OFF"}]
    BY <1>3 DEF Sides, Types, Magnitude
  <2> HIDE DEF r, ref
  <2> QED BY <2>1, <2>2, OrderRowType
<1>5. /\ row.qty > 0 /\ row.key = NoKey /\ row.exit.key = k /\ Closes(row)
  BY <1>2, <1>3 DEF Closes, OrderRow, Magnitude
<1>6. k # NoKey
  BY EngineAssumption
<1> HIDE DEF row, p
<1>7. Insert(o, "PENDING", row)
  BY <1>1, <1>2, <1>4, <1>5, <1>6 DEF Insert, NextOrder, Active
<1> QED BY <1>7

(* A delivery settlement fills. *)
LEMMA DeliveryFills ==
  ASSUME TypeInv, NEW w \in Workers, SettleDelivery(w)
  PROVE  Fill(call[w].order, FillPrice(order[call[w].order], call[w].price), position'["DELIVERY"])
<1> DEFINE o == call[w].order
           price == FillPrice(order[o], call[w].price)
<1>1. call[w].pc = "settle" /\ order[o].book = "DELIVERY" /\ Record(w, o, price)
  BY DEF SettleDelivery
<1>2. /\ o \in Orders /\ FilledQty(o) \in Nat /\ FilledQty(o) <= order[o].qty
      /\ price \in Nat \ {0} /\ order[o].book \in Books
  BY <1>1, SettlementOperands
<1>3. status[o] \in Active /\ ~ Obsolete(o)
  BY DEF SettleDelivery, Admissible
<1>4. position'["DELIVERY"] \in PositionRows
  BY TypeSettleDelivery DEF TypeInv, TypeOK, Books
<1>5. "DELIVERY" \in Books /\ DOMAIN position = Books
  BY DEF TypeInv, TypeOK, Books
<1>6. PICK cost, avg, realized :
        position' = [position EXCEPT !["DELIVERY"] =
          [exists |-> TRUE, qty |-> TransitionQty(@.qty, FilledQty(o), order[o].side),
           cost |-> cost, margin |-> @.margin, avg |-> avg, realized |-> realized,
           rev |-> @.rev + 1]]
  BY DEF SettleDelivery
<1>7. /\ position' = [position EXCEPT !["DELIVERY"] = position'["DELIVERY"]]
      /\ position'["DELIVERY"].qty
           = TransitionQty(position["DELIVERY"].qty, FilledQty(o), order[o].side)
      /\ position'["DELIVERY"].rev = position["DELIVERY"].rev + 1
  BY <1>5, <1>6
<1> QED BY <1>1, <1>2, <1>3, <1>4, <1>6, <1>7 DEF Fill, Record

(* A margin settlement fills. *)
LEMMA MarginFills ==
  ASSUME TypeInv, NEW w \in Workers, SettleMargin(w)
  PROVE  Fill(call[w].order, FillPrice(order[call[w].order], call[w].price),
              position'[order[call[w].order].book])
<1> DEFINE o == call[w].order
           price == FillPrice(order[o], call[w].price)
           b == order[o].book
<1>1. call[w].pc = "settle" /\ Record(w, o, price)
  BY DEF SettleMargin
<1>2. /\ o \in Orders /\ FilledQty(o) \in Nat /\ FilledQty(o) <= order[o].qty
      /\ price \in Nat \ {0} /\ b \in Books
  BY <1>1, SettlementOperands
<1>3. status[o] \in Active /\ ~ Obsolete(o)
  BY DEF SettleMargin, Admissible
<1>4. position'[b] \in PositionRows
  BY <1>2, TypeSettleMargin DEF TypeInv, TypeOK
<1>5. DOMAIN position = Books
  BY DEF TypeInv, TypeOK
<1>6. PICK avg, cost, margin, realized :
        position' = [position EXCEPT ![b] =
          [exists |-> TRUE, qty |-> TransitionQty(position[b].qty, FilledQty(o), order[o].side),
           avg |-> avg, cost |-> cost, margin |-> margin, realized |-> realized,
           rev |-> position[b].rev + 1]]
  BY DEF SettleMargin
<1>7. /\ position' = [position EXCEPT ![b] = position'[b]]
      /\ position'[b].qty = TransitionQty(position[b].qty, FilledQty(o), order[o].side)
      /\ position'[b].rev = position[b].rev + 1
  BY <1>2, <1>5, <1>6
<1> QED BY <1>1, <1>2, <1>3, <1>4, <1>6, <1>7 DEF Fill, Record

(* The steps that only move statuses. *)
LEMMA CallsMove ==
  ASSUME TypeInv, NEW w \in Workers,
         \/ JoinIntent(w) \/ RefuseOrder(w) \/ Unavailable(w) \/ RefuseSettlement(w)
         \/ \E ltp \in Prices : ActivateStop(w, ltp)
         \/ CancelObsolete(w) \/ Reject(w)
  PROVE  Move
<1> USE DEF Move
<1>1. CASE JoinIntent(w) \/ RefuseOrder(w) \/ Unavailable(w) \/ RefuseSettlement(w)
  BY <1>1 DEF JoinIntent, RefuseOrder, Unavailable, RefuseSettlement, account, rows, wallet
<1>2. ASSUME NEW ltp \in Prices, ActivateStop(w, ltp) PROVE Move
  <2>1. /\ \/ status' = status
           \/ status' = [status EXCEPT ![call[w].order] =
                           IF @ = "TRIGGER_PENDING" THEN "OPEN" ELSE @]
        /\ UNCHANGED <<cash, order, position, trades, history>>
    BY <1>2 DEF ActivateStop, wallet
  <2> QED BY <2>1 DEF TypeInv, TypeOK, Active
<1>3. CASE CancelObsolete(w)
  BY <1>3 DEF CancelObsolete, Admissible, wallet, TypeInv, TypeOK
<1>4. CASE Reject(w)
  <2>1. /\ \/ status' = status
           \/ status[call[w].order] \in Active
              /\ status' = [status EXCEPT ![call[w].order] = "REJECTED"]
        /\ UNCHANGED <<cash, order, position, trades, history>>
    BY <1>4 DEF Reject
  <2> QED BY <2>1 DEF TypeInv, TypeOK
<1> QED BY <1>1, <1>2, <1>3, <1>4

(* Every step of the engine is of one of the five kinds. *)
LEMMA StepKinds ==
  ASSUME TypeInv, [Next]_vars
  PROVE  \/ \E o \in Orders : \E st, row : Insert(o, st, row)
         \/ \E w \in Workers :
              /\ SettleDelivery(w) \/ SettleMargin(w)
              /\ Fill(call[w].order, FillPrice(order[call[w].order], call[w].price),
                      position'[order[call[w].order].book])
         \/ Move
         \/ \E a \in Deposits : Deposit(a)
         \/ ResetCurrentState
<1>1. CASE UNCHANGED vars
  BY <1>1 DEF vars, Move, history
<1>2. ASSUME NEW w \in Workers,
             \/ \E k \in Keys, r \in Requests : SubmitOrder(w, k, r)
             \/ \E o \in Orders : BeginExecute(w, o)
             \/ Crash(w)
      PROVE  Move
  BY <1>2 DEF SubmitOrder, BeginExecute, Crash, Move, account, rows, wallet
<1>3. ASSUME NEW o \in Orders, Cancel(o) PROVE Move
  BY <1>3 DEF Cancel, Move, TypeInv, TypeOK
<1>4. ASSUME NEW w \in Workers, SettleDelivery(w)
      PROVE  Fill(call[w].order, FillPrice(order[call[w].order], call[w].price),
                  position'[order[call[w].order].book])
  <2>1. order[call[w].order].book = "DELIVERY"
    BY <1>4 DEF SettleDelivery
  <2> QED BY <1>4, <2>1, DeliveryFills
<1>5. ASSUME NEW w \in Workers, Progress(w)
      PROVE  \/ CreateIntent(w) \/ SettleDelivery(w) \/ SettleMargin(w) \/ Move
  BY <1>5, CallsMove DEF Progress
<1>6. CASE \E w \in Workers, b \in Books, k \in ExitKeys : SquareOffPosition(w, b, k)
  BY <1>6, SquareOffInserts
<1>7. CASE \E w \in Workers : CreateIntent(w)
  BY <1>7, CreateInserts
<1>8. CASE \E w \in Workers : SettleDelivery(w) \/ SettleMargin(w)
  BY <1>4, <1>8, MarginFills
<1>9. CASE Next
  <2>1. CASE \E w \in Workers :
              \/ \E k \in Keys, r \in Requests : SubmitOrder(w, k, r)
              \/ \E o \in Orders : BeginExecute(w, o)
              \/ Crash(w)
    BY <1>2, <2>1
  <2>2. CASE \E w \in Workers : Progress(w)
    BY <1>5, <1>7, <1>8, <2>2
  <2>3. CASE \E o \in Orders : Cancel(o)
    BY <1>3, <2>3
  <2> QED BY <1>6, <1>9, <2>1, <2>2, <2>3 DEF Next
<1> QED BY <1>1, <1>9

(* Every action of a call moves that call only. *)
LEMMA OneCallMoves ==
  ASSUME TypeInv, NEW w \in Workers,
         \/ \E k \in Keys, r \in Requests : SubmitOrder(w, k, r)
         \/ \E b \in Books, k \in ExitKeys : SquareOffPosition(w, b, k)
         \/ \E o \in Orders : BeginExecute(w, o)
         \/ Progress(w)
         \/ Crash(w)
  PROVE  \A v \in Workers : v # w => call'[v] = call[v]
<1>0. DOMAIN call = Workers
  BY DEF TypeInv, TypeOK
<1> SUFFICES \E c : call' = [call EXCEPT ![w] = c]
  BY <1>0
<1>1. CASE \E k \in Keys, r \in Requests : SubmitOrder(w, k, r)
  BY <1>1 DEF SubmitOrder
<1>2. CASE \E b \in Books, k \in ExitKeys : SquareOffPosition(w, b, k)
  BY <1>2 DEF SquareOffPosition
<1>3. CASE \E o \in Orders : BeginExecute(w, o)
  BY <1>3 DEF BeginExecute
<1>4. CASE CreateIntent(w)
  BY <1>4 DEF CreateIntent
<1>5. CASE JoinIntent(w)
  BY <1>5 DEF JoinIntent
<1>6. CASE RefuseOrder(w) \/ Reject(w) \/ Crash(w) \/ CancelObsolete(w)
  BY <1>6 DEF RefuseOrder, Reject, Crash, CancelObsolete
<1>7. CASE Unavailable(w) \/ RefuseSettlement(w)
  BY <1>7 DEF Unavailable, RefuseSettlement, Fails
<1>8. CASE \E ltp \in Prices : ActivateStop(w, ltp)
  BY <1>8 DEF ActivateStop, Fails
<1>9. CASE SettleDelivery(w) \/ SettleMargin(w)
  BY <1>9 DEF SettleDelivery, SettleMargin, Record
<1> QED BY <1>1, <1>2, <1>3, <1>4, <1>5, <1>6, <1>7, <1>8, <1>9 DEF Progress

(* A row stays, and says what it is for; only its fill trims it. *)
RowsKept ==
  \A o \in Orders : status[o] # "NONE" =>
    /\ status'[o] # "NONE" /\ order'[o].book = order[o].book
    /\ order'[o].reason = order[o].reason /\ order'[o].exit = order[o].exit

(* No step of the engine removes a row, or changes what it is for. *)
LEMMA RowsStay ==
  ASSUME TypeInv, [Next]_vars
  PROVE  RowsKept
<1> USE DEF RowsKept
<1>0. /\ DOMAIN status = Orders /\ DOMAIN order = Orders
      /\ \A q \in Orders : order[q] \in OrderRows
  BY DEF TypeInv, TypeOK
<1>1. ASSUME NEW q \in Orders, NEW st, NEW row, Insert(q, st, row) PROVE RowsKept
  BY <1>0, <1>1 DEF Insert
<1>2. ASSUME NEW q, NEW price, NEW new, Fill(q, price, new) PROVE RowsKept
  <2>1. /\ q \in Orders /\ order' = [order EXCEPT ![q].qty = FilledQty(q)]
        /\ status' = [status EXCEPT ![q] = "EXECUTED"]
    BY <1>2 DEF Fill
  <2>2. \A o \in Orders : /\ order'[o].reason = order[o].reason /\ order'[o].book = order[o].book
                          /\ order'[o].exit = order[o].exit
    BY <1>0, <2>1 DEF OrderRows
  <2> QED BY <1>0, <2>1, <2>2
<1>3. CASE Move
  BY <1>3 DEF Move
<1>4. ASSUME NEW a \in Deposits, Deposit(a) PROVE RowsKept
  BY <1>4 DEF Deposit, rows
<1>5. CASE ResetCurrentState
  BY <1>5 DEF ResetCurrentState
<1> QED BY <1>1, <1>2, <1>3, <1>4, <1>5, StepKinds

-----------------------------------------------------------------------------
(* An order number not yet in use carries no row, an active order a        *)
(* quantity.                                                               *)
OrdersSane ==
  \A o \in Orders :
    /\ status[o] = "NONE" => order[o] = NoOrder
    /\ status[o] \in Active => order[o].qty > 0

HistoryInv == TypeInv /\ OrdersSane /\ ExecutedOnce /\ resetAt <= Len(trades)

(* ExecutedOnce of one order, without sets. *)
FilledOnce(o) ==
  IF status[o] = "EXECUTED"
  THEN \E i \in 1..Len(trades) :
         /\ trades[i].order = o /\ trades[i].qty = order[o].qty
         /\ \A j \in 1..Len(trades) : trades[j].order = o => j = i
  ELSE \A i \in 1..Len(trades) : trades[i].order # o

(* The two ways to say that orders fill once agree. *)
LEMMA ExecutedOnceMeans == ExecutedOnce <=> \A o \in Orders : FilledOnce(o)
<1> DEFINE Mine(o) == {i \in 1..Len(trades) : trades[i].order = o}
<1>1. ASSUME NEW o \in Orders, status[o] = "EXECUTED"
      PROVE  FilledOnce(o) <=> \E i \in Mine(o) : Mine(o) = {i} /\ trades[i].qty = order[o].qty
  BY <1>1 DEF FilledOnce
<1>2. ASSUME NEW o \in Orders, status[o] # "EXECUTED"
      PROVE  FilledOnce(o) <=> Mine(o) = {}
  BY <1>2 DEF FilledOnce
<1>3. ExecutedOnce <=>
        \A o \in Orders : IF status[o] = "EXECUTED"
                          THEN \E i \in Mine(o) : Mine(o) = {i} /\ trades[i].qty = order[o].qty
                          ELSE Mine(o) = {}
  BY DEF ExecutedOnce
<1> HIDE DEF Mine
<1> QED BY <1>1, <1>2, <1>3

(* They agree after a step too. *)
LEMMA ExecutedOnceMeansNext == (\A o \in Orders : FilledOnce(o))' <=> ExecutedOnce'
BY ExecutedOnceMeans, PTL

(* A traded order has a row. *)
LEMMA TradesType ==
  ASSUME HistoryInv
  PROVE  \A i \in 1..Len(trades) :
           /\ trades[i] \in Trades /\ trades[i].order \in Orders
           /\ status[trades[i].order] = "EXECUTED"
<1>1. trades \in Seq(Trades)
  BY DEF HistoryInv, TypeInv, TypeOK
<1>2. \A i \in 1..Len(trades) : trades[i] \in Trades
  BY <1>1
<1>3. \A i \in 1..Len(trades) : trades[i].order \in Orders
  BY <1>2 DEF Trades
<1> QED BY <1>2, <1>3, ExecutedOnceMeans DEF HistoryInv, FilledOnce

(* A step that trades nothing and neither executes an order nor takes an   *)
(* executed order back keeps the trades matched with their orders.         *)
LEMMA MatchedStays ==
  ASSUME HistoryInv, trades' = trades,
         \A o \in Orders :
           status'[o] = "EXECUTED" <=> status[o] = "EXECUTED",
         \A o \in Orders : status[o] = "EXECUTED" => order'[o].qty = order[o].qty
  PROVE  ExecutedOnce'
<1>1. \A o \in Orders : FilledOnce(o)
  BY ExecutedOnceMeans DEF HistoryInv
<1>2. ASSUME NEW o \in Orders PROVE FilledOnce(o)'
  BY <1>1 DEF FilledOnce
<1> QED BY <1>2, ExecutedOnceMeansNext

(* Storing an order touches no other row. *)
LEMMA HistoryInsert ==
  ASSUME HistoryInv, TypeInv', NEW o \in Orders, NEW st, NEW row, Insert(o, st, row)
  PROVE  HistoryInv'
<1>1. /\ status[o] = "NONE" /\ st \in Active /\ row.qty > 0
      /\ status' = [status EXCEPT ![o] = st] /\ order' = [order EXCEPT ![o] = row]
      /\ trades' = trades /\ resetAt' = resetAt
  BY DEF Insert, history
<1>2. DOMAIN status = Orders /\ DOMAIN order = Orders
  BY DEF HistoryInv, TypeInv, TypeOK
<1>3. OrdersSane'
  BY <1>1, <1>2 DEF HistoryInv, OrdersSane, Active
<1>4. ExecutedOnce'
  BY <1>1, <1>2, MatchedStays DEF Active
<1> QED BY <1>1, <1>3, <1>4 DEF HistoryInv

(* Status moves execute nothing. *)
LEMMA HistoryMove ==
  ASSUME HistoryInv, TypeInv', Move
  PROVE  HistoryInv'
<1>1. /\ \A o \in Orders : status'[o] # status[o] =>
           status[o] \in Active /\ status'[o] \in {"OPEN", "CANCELLED", "REJECTED"}
      /\ order' = order /\ trades' = trades /\ resetAt' = resetAt
  BY DEF Move, history
<1>2. OrdersSane'
  BY <1>1 DEF HistoryInv, OrdersSane, Active
<1>3. ExecutedOnce'
  BY <1>1, MatchedStays DEF Active
<1> QED BY <1>1, <1>2, <1>3 DEF HistoryInv

(* A reset keeps the trades and leaves executed orders executed. *)
LEMMA HistoryReset ==
  ASSUME HistoryInv, TypeInv', ResetCurrentState
  PROVE  HistoryInv'
<1>1. /\ status' = [o \in Orders |-> IF o \in OpenAtReset THEN "CANCELLED" ELSE status[o]]
      /\ order' = order /\ trades' = trades /\ resetAt' = Len(trades)
  BY DEF ResetCurrentState
<1>2. \A o \in OpenAtReset : status[o] \in {"PENDING", "OPEN"}
  BY DEF OpenAtReset
<1>3. OrdersSane'
  BY <1>1, <1>2 DEF HistoryInv, OrdersSane, Active
<1>4. ExecutedOnce'
  BY <1>1, <1>2, MatchedStays
<1>5. Len(trades) \in Nat
  BY DEF HistoryInv, TypeInv, TypeOK
<1> QED BY <1>1, <1>3, <1>4, <1>5 DEF HistoryInv

(* Order o, which had no trade, is executed for n units, as its row says   *)
(* from now on.                                                            *)
Traded(o, n, price) ==
  /\ o \in Orders /\ status[o] # "EXECUTED" /\ status'[o] = "EXECUTED"
  /\ trades' = Append(trades, [order |-> o, qty |-> n, price |-> price])
  /\ order'[o].qty = n
  /\ \A q \in Orders : q # o =>
       order'[q] = order[q] /\ (status'[q] = "EXECUTED" <=> status[q] = "EXECUTED")
  /\ UNCHANGED resetAt

(* A fill trades. *)
LEMMA FillTrades ==
  ASSUME TypeInv, NEW o, NEW price, NEW new, Fill(o, price, new)
  PROVE  /\ Traded(o, FilledQty(o), price)
         /\ order'[o].book = order[o].book /\ order'[o].side = order[o].side
<1>1. /\ o \in Orders /\ status[o] \in Active
      /\ trades' = Append(trades, [order |-> o, qty |-> FilledQty(o), price |-> price])
      /\ order' = [order EXCEPT ![o].qty = FilledQty(o)]
      /\ status' = [status EXCEPT ![o] = "EXECUTED"]
      /\ resetAt' = resetAt
  BY DEF Fill, history
<1>2. /\ DOMAIN status = Orders /\ DOMAIN order = Orders
      /\ \A q \in Orders : order[q] \in OrderRows
  BY DEF TypeInv, TypeOK
<1> QED BY <1>1, <1>2 DEF Traded, Active, OrderRows

(* The one trade of an order that had none matches it with its order. *)
LEMMA MatchedTraded ==
  ASSUME HistoryInv, NEW o, NEW n, NEW price, Traded(o, n, price)
  PROVE  ExecutedOnce' /\ resetAt' <= Len(trades')
<1> DEFINE t == [order |-> o, qty |-> n, price |-> price]
<1>1. /\ o \in Orders /\ status[o] # "EXECUTED" /\ status'[o] = "EXECUTED"
      /\ trades' = Append(trades, t) /\ order'[o].qty = n /\ resetAt' = resetAt
  BY DEF Traded
<1>2. trades \in Seq(Trades)
  BY DEF HistoryInv, TypeInv, TypeOK
<1>3. /\ Len(trades) \in Nat /\ Len(trades') = Len(trades) + 1 /\ trades'[Len(trades')] = t
      /\ \A i \in 1..Len(trades) : trades'[i] = trades[i]
  BY <1>1, <1>2
<1>4. \A q \in Orders : FilledOnce(q)
  BY ExecutedOnceMeans DEF HistoryInv
<1>5. \A i \in 1..Len(trades) : trades[i].order # o
  BY <1>1, <1>4 DEF FilledOnce
<1>6. FilledOnce(o)'
  <2>1. /\ Len(trades') \in 1..Len(trades') /\ trades'[Len(trades')].order = o
        /\ trades'[Len(trades')].qty = order'[o].qty
    BY <1>1, <1>3
  <2>2. \A j \in 1..Len(trades') : trades'[j].order = o => j = Len(trades')
    BY <1>3, <1>5
  <2> QED BY <1>1, <2>1, <2>2 DEF FilledOnce
<1>7. ASSUME NEW q \in Orders, q # o PROVE FilledOnce(q)'
  <2>1. /\ status'[q] = "EXECUTED" <=> status[q] = "EXECUTED"
        /\ order'[q] = order[q] /\ FilledOnce(q)
    BY <1>4, <1>7 DEF Traded
  <2>2. trades'[Len(trades')].order # q
    BY <1>3, <1>7
  <2>3. \A i \in 1..Len(trades') : i = Len(trades') \/ i \in 1..Len(trades)
    BY <1>3
  <2>4. 1..Len(trades) \subseteq 1..Len(trades')
    BY <1>3
  <2>5. CASE status[q] = "EXECUTED"
    <3>1. PICK i \in 1..Len(trades) :
            /\ trades[i].order = q /\ trades[i].qty = order[q].qty
            /\ \A j \in 1..Len(trades) : trades[j].order = q => j = i
      BY <2>1, <2>5 DEF FilledOnce
    <3>2. /\ trades'[i].order = q /\ trades'[i].qty = order'[q].qty /\ i \in 1..Len(trades')
          /\ \A j \in 1..Len(trades') : trades'[j].order = q => j = i
      BY <1>3, <2>1, <2>2, <2>3, <2>4, <3>1
    <3> QED BY <2>1, <2>5, <3>2 DEF FilledOnce
  <2>6. CASE status[q] # "EXECUTED"
    BY <1>3, <2>1, <2>2, <2>3, <2>6 DEF FilledOnce
  <2> QED BY <2>5, <2>6
<1>8. ExecutedOnce'
  BY <1>6, <1>7, ExecutedOnceMeansNext
<1>9. resetAt' <= Len(trades')
  BY <1>1, <1>3 DEF HistoryInv, TypeInv, TypeOK
<1> QED BY <1>8, <1>9

(* A fill adds the one trade of an order that had none. *)
LEMMA HistoryFill ==
  ASSUME HistoryInv, TypeInv', NEW o, NEW price, NEW new, Fill(o, price, new)
  PROVE  HistoryInv'
<1>1. Traded(o, FilledQty(o), price)
  BY FillTrades DEF HistoryInv
<1>2. status' = [status EXCEPT ![o] = "EXECUTED"] /\ DOMAIN status = Orders
  BY DEF Fill, HistoryInv, TypeInv, TypeOK
<1>3. OrdersSane'
  BY <1>1, <1>2 DEF Traded, HistoryInv, OrdersSane, Active
<1> QED BY <1>1, <1>3, MatchedTraded DEF HistoryInv

(* Every step keeps the rows and the trades consistent. *)
LEMMA HistoryStep == HistoryInv /\ [Next]_vars => HistoryInv'
<1> SUFFICES ASSUME HistoryInv, [Next]_vars PROVE HistoryInv'
  OBVIOUS
<1>1. TypeInv /\ TypeInv'
  BY TypeStep DEF HistoryInv
<1>2. ASSUME NEW a \in Deposits, Deposit(a) PROVE HistoryInv'
  BY <1>1, <1>2, MatchedStays DEF HistoryInv, Deposit, OrdersSane, rows
<1> QED BY <1>1, <1>2, StepKinds, HistoryInsert, HistoryFill, HistoryMove, HistoryReset

(* An empty account. *)
LEMMA HistoryInit == Init => HistoryInv
<1> SUFFICES ASSUME Init PROVE HistoryInv
  OBVIOUS
<1>1. OrdersSane
  BY DEF Init, OrdersSane, Active
<1>2. \A o \in Orders : FilledOnce(o)
  BY DEF Init, FilledOnce
<1> QED BY <1>1, <1>2, TypeInit, ExecutedOnceMeans DEF HistoryInv, Init

(* However calls race, retry and stop, an order fills at most once and     *)
(* every fill is paid for.                                                 *)
THEOREM OrdersFillOnce == Spec => []FilledOnceAndPaid
<1>1. HistoryInv /\ FundsCovered => FilledOnceAndPaid
  BY DEF HistoryInv, FilledOnceAndPaid
<1>2. Spec => []HistoryInv
  BY HistoryInit, HistoryStep, PTL DEF Spec
<1> QED BY <1>1, <1>2, FundsAlwaysCovered, PTL

-----------------------------------------------------------------------------
(* What a trade adds to the position of a book, and what it adds to the    *)
(* cash as an option premium; trades before the last reset add nothing.    *)
Signed(b) ==
  [i \in 1..Len(trades) |->
     IF i > resetAt
     THEN IF order[trades[i].order].book = b
          THEN Delta(order[trades[i].order].side, trades[i].qty) ELSE 0
     ELSE 0]
Premium ==
  [i \in 1..Len(trades) |->
     IF i > resetAt
     THEN IF order[trades[i].order].book = "OPTION"
          THEN -Delta(order[trades[i].order].side, trades[i].qty * trades[i].price) ELSE 0
     ELSE 0]

NetOf(b) == PartialSum(Signed(b), Len(trades))
Premiums == PartialSum(Premium, Len(trades))

(* The engine's property of positions, with the sum named. *)
LEMMA NetTradesMeans == PositionIsNetTrades <=> \A b \in Books : position[b].qty = NetOf(b)
BY DEF PositionIsNetTrades, TradeSum, NetOf, Signed

(* The engine's property of money, with the sum named. *)
LEMMA MoneyMeans ==
  MoneyConserved <=>
    cash + position["DELIVERY"].cost =
      capital + position["DELIVERY"].realized + position["INTRADAY"].realized
        + position["FUTURE"].realized + Premiums
BY DEF MoneyConserved, TradeSum, Premiums, Premium

(* The two say the same after a step. *)
LEMMA NetTradesMeansNext ==
  PositionIsNetTrades' <=> (\A b \in Books : position[b].qty = NetOf(b))'
BY NetTradesMeans, PTL

(* So do these two. *)
LEMMA MoneyMeansNext ==
  MoneyConserved' <=>
    (cash + position["DELIVERY"].cost =
      capital + position["DELIVERY"].realized + position["INTRADAY"].realized
        + position["FUTURE"].realized + Premiums)'
BY MoneyMeans, PTL

(* Every term is an amount, and so are the sums. *)
LEMMA SumsType ==
  ASSUME HistoryInv
  PROVE  /\ \A b \in Books : NetOf(b) \in Int
         /\ Premiums \in Int
<1>1. Len(trades) \in Nat
  BY DEF HistoryInv, TypeInv, TypeOK
<1>2. ASSUME NEW i \in 1..Len(trades)
      PROVE  trades[i].qty \in Nat /\ trades[i].price \in Nat
  BY TradesType DEF Trades
<1>3. ASSUME NEW b \in Books PROVE NetOf(b) \in Int
  <2>1. \A i \in 1..Len(trades) : Signed(b)[i] \in Int
    BY <1>2 DEF Signed, Delta
  <2>2. Signed(b) \in [1..Len(trades) -> Int]
    BY <2>1 DEF Signed
  <2> QED BY <1>1, <2>2, PartialSumInt DEF NetOf
<1>4. Premiums \in Int
  <2>1. ASSUME NEW i \in 1..Len(trades) PROVE Premium[i] \in Int
    <3>1. trades[i].qty * trades[i].price \in Nat
      BY <1>2, TimesNat
    <3> QED BY <3>1 DEF Premium, Delta
  <2>2. Premium \in [1..Len(trades) -> Int]
    BY <2>1 DEF Premium
  <2> QED BY <1>1, <2>2, PartialSumInt DEF Premiums
<1> QED BY <1>3, <1>4

(* The sums depend on the trades and on the rows of executed orders. *)
LEMMA SumsStay ==
  ASSUME HistoryInv, trades' = trades, resetAt' = resetAt,
         \A o \in Orders : status[o] = "EXECUTED" => order'[o] = order[o]
  PROVE  /\ \A b \in Books : NetOf(b)' = NetOf(b)
         /\ Premiums' = Premiums
<1>1. \A i \in 1..Len(trades) : order'[trades[i].order] = order[trades[i].order]
  BY TradesType
<1>2. \A b \in Books : Signed(b)' = Signed(b)
  BY <1>1 DEF Signed
<1>3. Premium' = Premium
  BY <1>1 DEF Premium
<1> QED BY <1>2, <1>3 DEF NetOf, Premiums

(* A trade adds its own term and changes no other. *)
LEMMA SumsTraded ==
  ASSUME HistoryInv, NEW o, NEW n, NEW price, Traded(o, n, price)
  PROVE  /\ \A b \in Books :
              NetOf(b)' = NetOf(b) + IF order'[o].book = b THEN Delta(order'[o].side, n) ELSE 0
         /\ Premiums' = Premiums + IF order'[o].book = "OPTION"
                                   THEN -Delta(order'[o].side, n * price) ELSE 0
<1> DEFINE m == Len(trades)
           t == [order |-> o, qty |-> n, price |-> price]
<1>1. /\ o \in Orders /\ status[o] # "EXECUTED"
      /\ trades' = Append(trades, t) /\ resetAt' = resetAt
      /\ \A q \in Orders : q # o => order'[q] = order[q]
  BY DEF Traded
<1>2. trades \in Seq(Trades) /\ resetAt \in Nat /\ resetAt <= m
  BY DEF HistoryInv, TypeInv, TypeOK
<1>3. /\ m \in Nat /\ Len(trades') = m + 1 /\ trades'[m + 1] = t
      /\ \A i \in 1..m : trades'[i] = trades[i]
  BY <1>1, <1>2
<1>4. \A i \in 1..m : order'[trades[i].order] = order[trades[i].order]
  BY <1>1, <1>2, TradesType
<1>5. m + 1 \in 1..Len(trades') /\ 1..m \subseteq 1..Len(trades')
  BY <1>3
<1>6. ASSUME NEW b \in Books
      PROVE  NetOf(b)' = NetOf(b) + IF order'[o].book = b THEN Delta(order'[o].side, n) ELSE 0
  <2> DEFINE f == Signed(b)
             g == Signed(b)'
  <2>1. \A i \in 1..m : g[i] = f[i]
    BY <1>1, <1>3, <1>4, <1>5 DEF Signed
  <2>2. g[m + 1] = IF order'[o].book = b THEN Delta(order'[o].side, n) ELSE 0
    BY <1>1, <1>2, <1>3, <1>5 DEF Signed
  <2> HIDE DEF f, g
  <2>3. PartialSum(g, m + 1) = PartialSum(f, m) + g[m + 1]
    BY <1>3, <2>1, PartialSumAppend
  <2> QED BY <1>3, <2>2, <2>3 DEF NetOf, f, g
<1>7. Premiums' = Premiums + IF order'[o].book = "OPTION"
                             THEN -Delta(order'[o].side, n * price) ELSE 0
  <2> DEFINE f == Premium
             g == Premium'
  <2>1. \A i \in 1..m : g[i] = f[i]
    BY <1>1, <1>3, <1>4, <1>5 DEF Premium
  <2>2. g[m + 1] = IF order'[o].book = "OPTION" THEN -Delta(order'[o].side, n * price) ELSE 0
    BY <1>1, <1>2, <1>3, <1>5 DEF Premium
  <2> HIDE DEF f, g
  <2>3. PartialSum(g, m + 1) = PartialSum(f, m) + g[m + 1]
    BY <1>3, <2>1, PartialSumAppend
  <2> QED BY <1>3, <2>2, <2>3 DEF Premiums, f, g
<1> QED BY <1>6, <1>7

(* A fill is a trade of its order's book and side. *)
LEMMA SumsFill ==
  ASSUME HistoryInv, NEW o, NEW price, NEW new, Fill(o, price, new)
  PROVE  /\ \A b \in Books :
              NetOf(b)' = NetOf(b) + IF order[o].book = b
                                     THEN Delta(order[o].side, FilledQty(o)) ELSE 0
         /\ Premiums' = Premiums + IF order[o].book = "OPTION"
                                   THEN -Delta(order[o].side, FilledQty(o) * price) ELSE 0
<1> DEFINE n == FilledQty(o)
<1>1. /\ Traded(o, n, price)
      /\ order'[o].book = order[o].book /\ order'[o].side = order[o].side
  BY FillTrades DEF HistoryInv
<1> HIDE DEF n
<1> QED BY <1>1, SumsTraded DEF n

(* After a reset no trade counts. *)
LEMMA SumsReset ==
  ASSUME HistoryInv, ResetCurrentState
  PROVE  /\ \A b \in Books : NetOf(b)' = 0
         /\ Premiums' = 0
<1>1. trades' = trades /\ resetAt' = Len(trades) /\ Len(trades) \in Nat
  BY DEF ResetCurrentState, HistoryInv, TypeInv, TypeOK
<1>2. ASSUME NEW b \in Books PROVE NetOf(b)' = 0
  <2> DEFINE g == Signed(b)'
  <2>1. \A i \in 1..Len(trades) : g[i] = 0
    BY <1>1 DEF Signed
  <2> HIDE DEF g
  <2>2. PartialSum(g, Len(trades)) = 0
    BY <1>1, <2>1, PartialSumZero
  <2> QED BY <1>1, <2>2 DEF NetOf, g
<1>3. Premiums' = 0
  <2> DEFINE g == Premium'
  <2>1. \A i \in 1..Len(trades) : g[i] = 0
    BY <1>1 DEF Premium
  <2> HIDE DEF g
  <2>2. PartialSum(g, Len(trades)) = 0
    BY <1>1, <2>1, PartialSumZero
  <2> QED BY <1>1, <2>2 DEF Premiums, g
<1> QED BY <1>2, <1>3

-----------------------------------------------------------------------------
LedgerInv == HistoryInv /\ DeliveryNeverShort /\ PositionIsNetTrades /\ MoneyConserved

(* What a delivery settlement moves: shares and their cost against cash.   *)
(* A purchase adds what it pays; a sale takes a part of the cost, all of   *)
(* it with the last share and not before.                                  *)
LEMMA DeliveryMoves ==
  ASSUME HistoryInv, DeliveryNeverShort, NEW w \in Workers, SettleDelivery(w)
  PROVE  LET o == call[w].order
             qty == FilledQty(o)
             total == qty * FillPrice(order[o], call[w].price)
             p == position["DELIVERY"]
             q == position'["DELIVERY"]
         IN  /\ qty \in Nat \ {0} /\ total \in Nat \ {0} /\ order[o].book = "DELIVERY"
             /\ \A b \in MarginBooks : position'[b] = position[b]
             /\ cash' = cash - Delta(order[o].side, total)
             /\ order[o].side = "BUY" =>
                  q.qty = p.qty + qty /\ q.cost = p.cost + total /\ q.realized = p.realized
             /\ order[o].side # "BUY" =>
                  /\ q.qty = p.qty - qty /\ qty <= p.qty
                  /\ \E sold \in 0..p.cost :
                       /\ q.cost = p.cost - sold /\ q.realized = p.realized + (total - sold)
                       /\ qty = p.qty => sold = p.cost
                       /\ qty < p.qty => sold < p.cost
<1> DEFINE o == call[w].order
           price == FillPrice(order[o], call[w].price)
           qty == FilledQty(o)
           total == qty * price
           p == position["DELIVERY"]
           sold == ProportionalCostBasis(Invested(p), qty, p.qty)
           newQty == TransitionQty(p.qty, qty, order[o].side)
           newCost == IF order[o].side = "BUY" THEN Invested(p) + total ELSE Invested(p) - sold
           newRealized == p.realized + IF order[o].side = "BUY" THEN 0 ELSE total - sold
           new == [exists |-> TRUE, qty |-> newQty, cost |-> newCost, margin |-> p.margin,
                   avg |-> IF newQty = 0 THEN 0 ELSE newCost \div newQty,
                   realized |-> newRealized, rev |-> p.rev + 1]
<1>1. /\ call[w].pc = "settle" /\ order[o].book = "DELIVERY"
      /\ status[o] \in Active /\ ~ Obsolete(o) /\ DeliveryCovered(o, price)
      /\ cash' = cash - Delta(order[o].side, total)
      /\ position' = [position EXCEPT !["DELIVERY"] = new]
  BY DEF SettleDelivery, Admissible
<1>2. /\ o \in Orders /\ qty \in Nat /\ price \in Nat \ {0} /\ order[o] \in OrderRows
  BY <1>1, SettlementOperands DEF HistoryInv
<1>3. /\ position'["DELIVERY"].qty = newQty /\ position'["DELIVERY"].cost = newCost
      /\ position'["DELIVERY"].realized = newRealized
      /\ \A b \in MarginBooks : position'[b] = position[b]
  <2> HIDE DEF newQty, newCost, newRealized
  <2> QED BY <1>1 DEF HistoryInv, TypeInv, TypeOK, Books, MarginBooks
<1>4. p \in PositionRows
  BY DEF HistoryInv, TypeInv, TypeOK, Books
<1>5. /\ p.qty \in Nat /\ p.cost \in Nat /\ (p.qty = 0 <=> p.cost = 0) /\ p.realized \in Int
  BY <1>4 DEF DeliveryNeverShort, PositionRows
<1>6. Invested(p) = p.cost
  BY <1>5 DEF Invested
<1>7. qty # 0
  <2>1. order[o].qty \in Nat /\ order[o].qty > 0
    BY <1>1, <1>2 DEF HistoryInv, OrdersSane, OrderRows
  <2>2. CASE order[o].reason = "SQUARE_OFF" /\ order[o].side = "SELL"
    <3>1. p.qty > 0
      BY <1>1, <1>5, <2>2 DEF Obsolete, NothingToClose
    <3>2. qty = Smaller(order[o].qty, Magnitude(p.qty))
      BY <1>1, <2>2 DEF FilledQty
    <3> HIDE DEF qty, p
    <3> QED BY <1>5, <2>1, <3>1, <3>2 DEF Smaller, Magnitude
  <2>3. CASE ~ (order[o].reason = "SQUARE_OFF" /\ order[o].side = "SELL")
    <3>1. order[o].book = "DELIVERY"
      BY <1>1
    <3>2. qty = order[o].qty
      BY <2>3, <3>1 DEF FilledQty, MarginBooks
    <3> HIDE DEF qty, o
    <3> QED BY <2>1, <3>2
  <2> QED BY <2>2, <2>3
<1>8. total \in Nat \ {0}
  <2> HIDE DEF qty, price
  <2> QED BY <1>2, <1>7
<1>9. CASE order[o].side = "BUY"
  <2>1. newQty = p.qty + qty /\ newCost = p.cost + total /\ newRealized = p.realized
    BY <1>5, <1>6, <1>9 DEF TransitionQty, Delta
  <2> HIDE DEF newQty, newCost, newRealized
  <2> QED BY <1>1, <1>2, <1>3, <1>7, <1>8, <1>9, <2>1
<1>10. CASE order[o].side # "BUY"
  <2>1. qty <= p.qty
    BY <1>1, <1>10 DEF DeliveryCovered
  <2>2. /\ sold \in 0..p.cost
        /\ qty = p.qty => sold = p.cost
        /\ qty < p.qty => sold < p.cost
    <3> HIDE DEF qty, p
    <3>1. sold \in 0..p.cost
      BY <1>2, <1>5, <1>6, <2>1, ProportionalCostBasisBound
    <3>2. qty = p.qty => sold = p.cost
      BY <1>6 DEF ProportionalCostBasis
    <3>3. qty < p.qty => p.cost \in Nat \ {0}
      BY <1>2, <1>5
    <3>4. qty < p.qty => sold < p.cost
      BY <1>2, <1>5, <1>6, <3>3, ProportionalCostBasisPartial
    <3> QED BY <3>1, <3>2, <3>4
  <2>3. newQty = p.qty - qty /\ newCost = p.cost - sold
        /\ newRealized = p.realized + (total - sold)
    <3> HIDE DEF qty, p, sold, total
    <3> QED BY <1>2, <1>5, <1>6, <1>8, <1>10, <2>2 DEF TransitionQty, Delta
  <2> HIDE DEF newQty, newCost, newRealized, sold
  <2> QED BY <1>1, <1>2, <1>3, <1>7, <1>8, <1>10, <2>1, <2>2, <2>3
<1> QED BY <1>9, <1>10

(* What a margin settlement moves: the profit of what it closes goes to    *)
(* the cash, except for options, whose premium does.                       *)
LEMMA MarginMoves ==
  ASSUME HistoryInv, NEW w \in Workers, SettleMargin(w)
  PROVE  LET o == call[w].order
             b == order[o].book
             total == FilledQty(o) * FillPrice(order[o], call[w].price)
             change == cash' - cash
         IN  /\ b \in MarginBooks /\ total \in Nat /\ change \in Int
             /\ \A c \in Books : c # b => position'[c] = position[c]
             /\ b # "OPTION" => position'[b].realized = position[b].realized + change
             /\ b = "OPTION" => change = -Delta(order[o].side, total)
<1> DEFINE o == call[w].order
           b == order[o].book
           price == FillPrice(order[o], call[w].price)
           qty == FilledQty(o)
           total == qty * price
           p == position[b]
           gain == TransitionRealized(p.qty, p.avg, qty, price, order[o].side)
<1>1. /\ call[w].pc = "settle" /\ b \in MarginBooks
      /\ cash' = cash + CashChange(o, price)
  BY DEF SettleMargin
<1>2. /\ o \in Orders /\ qty \in Nat /\ price \in Nat /\ order[o] \in OrderRows
      /\ b \in Books
  BY <1>1, SettlementOperands DEF HistoryInv
<1>3. gain \in Int /\ CashChange(o, price) \in Int
  BY <1>1, MarginOperands DEF HistoryInv
<1>4. total \in Nat
  BY <1>2, TimesNat
<1>5. PICK qt, avg, cost, margin :
        position' = [position EXCEPT ![b] =
          [exists |-> TRUE, qty |-> qt, avg |-> avg, cost |-> cost, margin |-> margin,
           realized |-> position[b].realized + gain, rev |-> position[b].rev + 1]]
  BY DEF SettleMargin
<1>6. DOMAIN position = Books
  BY DEF HistoryInv, TypeInv, TypeOK
<1>7. /\ \A c \in Books : c # b => position'[c] = position[c]
      /\ position'[b].realized = position[b].realized + gain
  BY <1>2, <1>5, <1>6
<1>8. CashChange(o, price) = IF b = "OPTION" THEN -Delta(order[o].side, total) ELSE gain
  <2>1. order[o].side \in {"BUY", "SELL"}
    BY <1>2 DEF OrderRows, Sides
  <2> HIDE DEF total
  <2> QED BY <1>4, <2>1 DEF CashChange, Delta, total
<1>9. cash \in Int
  BY DEF HistoryInv, TypeInv, TypeOK
<1> HIDE DEF total, gain, price, qty
<1>10. cash' - cash = CashChange(o, price)
  BY <1>1, <1>3, <1>9
<1> QED BY <1>1, <1>3, <1>4, <1>7, <1>8, <1>10 DEF total, price, qty

(* Deliveries are not sold short, and their cost leaves with the last one. *)
LEMMA SharesHeldStep ==
  ASSUME HistoryInv, DeliveryNeverShort, [Next]_vars
  PROVE  DeliveryNeverShort'
<1>1. TypeInv
  BY DEF HistoryInv
<1>2. CASE UNCHANGED position
  BY <1>2 DEF DeliveryNeverShort
<1>3. ASSUME NEW o, NEW st, NEW row, Insert(o, st, row) PROVE DeliveryNeverShort'
  BY <1>2, <1>3 DEF Insert
<1>4. CASE Move
  BY <1>2, <1>4 DEF Move
<1>5. ASSUME NEW a \in Deposits, Deposit(a) PROVE DeliveryNeverShort'
  BY <1>2, <1>5 DEF Deposit
<1>6. CASE ResetCurrentState
  <2>1. position'["DELIVERY"] = ClosedPosition(position["DELIVERY"].rev)
    BY <1>6 DEF ResetCurrentState, Books
  <2> QED BY <2>1 DEF DeliveryNeverShort, ClosedPosition
<1>7. ASSUME NEW w \in Workers, SettleMargin(w) PROVE DeliveryNeverShort'
  <2>1. position'["DELIVERY"] = position["DELIVERY"]
    BY <1>7, MarginMoves DEF MarginBooks, Books
  <2> QED BY <2>1 DEF DeliveryNeverShort
<1>8. ASSUME NEW w \in Workers, SettleDelivery(w) PROVE DeliveryNeverShort'
  <2> DEFINE o == call[w].order
             qty == FilledQty(o)
             total == qty * FillPrice(order[o], call[w].price)
             p == position["DELIVERY"]
             q == position'["DELIVERY"]
  <2>1. p.qty \in Nat /\ p.cost \in Nat /\ (p.qty = 0 <=> p.cost = 0)
    BY DEF DeliveryNeverShort, HistoryInv, TypeInv, TypeOK, PositionRows, Books
  <2>2. qty \in Nat \ {0} /\ total \in Nat \ {0}
    BY <1>8, DeliveryMoves
  <2>3. CASE order[o].side = "BUY"
    <3>1. q.qty = p.qty + qty /\ q.cost = p.cost + total
      BY <1>8, <2>3, DeliveryMoves
    <3> HIDE DEF qty, total, p
    <3> QED BY <2>1, <2>2, <3>1 DEF DeliveryNeverShort
  <2>4. CASE order[o].side # "BUY"
    <3>1. PICK sold \in 0..p.cost :
            /\ q.qty = p.qty - qty /\ qty <= p.qty /\ q.cost = p.cost - sold
            /\ qty = p.qty => sold = p.cost
            /\ qty < p.qty => sold < p.cost
      BY <1>8, <2>4, DeliveryMoves
    <3> HIDE DEF qty, total, p
    <3> QED BY <2>1, <2>2, <3>1 DEF DeliveryNeverShort
  <2> QED BY <2>3, <2>4
<1> QED BY <1>1, <1>3, <1>4, <1>5, <1>6, <1>7, <1>8, StepKinds

(* A fill moves its position by its trade, and no other. *)
LEMMA NetFill ==
  ASSUME HistoryInv, PositionIsNetTrades, NEW o, NEW price, NEW new, Fill(o, price, new)
  PROVE  PositionIsNetTrades'
<1>1. /\ order[o].book \in Books
      /\ new.qty = position[order[o].book].qty + Delta(order[o].side, FilledQty(o))
      /\ position' = [position EXCEPT ![order[o].book] = new]
      /\ FilledQty(o) \in Nat
  BY DEF Fill, TransitionQty
<1>2. DOMAIN position = Books /\ \A b \in Books : position[b].qty = NetOf(b)
  BY NetTradesMeans DEF HistoryInv, TypeInv, TypeOK
<1>3. ASSUME NEW b \in Books PROVE position'[b].qty = NetOf(b)'
  <2>1. NetOf(b)' = NetOf(b) + IF order[o].book = b
                               THEN Delta(order[o].side, FilledQty(o)) ELSE 0
    BY SumsFill
  <2>2. NetOf(b) \in Int
    BY SumsType
  <2>3. CASE order[o].book = b
    BY <1>1, <1>2, <2>1, <2>3
  <2>4. CASE order[o].book # b
    BY <1>1, <1>2, <2>1, <2>2, <2>4
  <2> QED BY <2>3, <2>4
<1> QED BY <1>3, NetTradesMeansNext

(* A fill moves cash, cost, profit and premiums by the same amount: a      *)
(* delivery swaps cash for cost, a margin settlement pays out its profit,  *)
(* an option its premium.                                                  *)
LEMMA MoneyFill ==
  ASSUME HistoryInv, DeliveryNeverShort, MoneyConserved, NEW w \in Workers,
         SettleDelivery(w) \/ SettleMargin(w),
         Fill(call[w].order, FillPrice(order[call[w].order], call[w].price),
              position'[order[call[w].order].book])
  PROVE  MoneyConserved'
<1> DEFINE o == call[w].order
           total == FilledQty(o) * FillPrice(order[o], call[w].price)
           p == position["DELIVERY"]
           q == position'["DELIVERY"]
<1>1. /\ cash \in Int /\ capital \in Nat /\ p.cost \in Nat /\ p.realized \in Int
      /\ position["INTRADAY"].realized \in Int /\ position["FUTURE"].realized \in Int
  BY DEF HistoryInv, TypeInv, TypeOK, Books, MarginBooks, PositionRows
<1>2. Premiums \in Int
  BY SumsType
<1>3. capital' = capital
  BY DEF Fill, history
<1>4. Premiums' = Premiums + IF order[o].book = "OPTION"
                             THEN -Delta(order[o].side, total) ELSE 0
  <2> HIDE DEF o
  <2> QED BY SumsFill DEF o
<1>5. cash + p.cost = capital + p.realized + position["INTRADAY"].realized
                        + position["FUTURE"].realized + Premiums
  BY MoneyMeans
<1>6. SUFFICES cash' + q.cost = capital + q.realized + position'["INTRADAY"].realized
                                  + position'["FUTURE"].realized + Premiums'
  BY <1>3, MoneyMeansNext
<1>7. CASE SettleDelivery(w)
  <2>1. /\ order[o].book = "DELIVERY" /\ total \in Nat
        /\ position'["INTRADAY"] = position["INTRADAY"]
        /\ position'["FUTURE"] = position["FUTURE"]
        /\ cash' = cash - Delta(order[o].side, total)
    BY <1>7, DeliveryMoves DEF MarginBooks
  <2>2. Premiums' = Premiums
    BY <1>2, <1>4, <2>1
  <2>3. CASE order[o].side = "BUY"
    <3>1. q.cost = p.cost + total /\ q.realized = p.realized
      BY <1>7, <2>3, DeliveryMoves
    <3> HIDE DEF total, o
    <3> QED BY <1>1, <1>2, <1>5, <2>1, <2>2, <2>3, <3>1 DEF Delta
  <2>4. CASE order[o].side # "BUY"
    <3>1. PICK sold \in 0..p.cost : q.cost = p.cost - sold /\ q.realized = p.realized + (total - sold)
      BY <1>7, <2>4, DeliveryMoves
    <3> HIDE DEF total, o
    <3> QED BY <1>1, <1>2, <1>5, <2>1, <2>2, <2>4, <3>1 DEF Delta
  <2> QED BY <2>3, <2>4
<1>8. CASE SettleMargin(w)
  <2> DEFINE change == cash' - cash
             b == order[o].book
  <2>1. /\ b \in MarginBooks /\ total \in Nat /\ change \in Int
        /\ \A c \in Books : c # b => position'[c] = position[c]
        /\ b # "OPTION" => position'[b].realized = position[b].realized + change
        /\ b = "OPTION" => change = -Delta(order[o].side, total)
    BY <1>8, MarginMoves
  <2>2. cash' = cash + change
    <3>1. cash' \in Int
      <4>1. TypeInv'
        BY <1>8, TypeSettleMargin DEF HistoryInv
      <4> QED BY <4>1 DEF TypeInv, TypeOK
    <3> QED BY <1>1, <3>1
  <2>3. q = p
    BY <2>1 DEF MarginBooks, Books
  <2>4. Premiums' = Premiums + IF b = "OPTION" THEN change ELSE 0
    BY <1>4, <2>1
  <2> HIDE DEF change, b, total, o
  <2>5. CASE b = "INTRADAY"
    <3>1. position'["FUTURE"] = position["FUTURE"]
      BY <2>1, <2>5 DEF Books, MarginBooks
    <3> QED BY <1>1, <1>2, <1>5, <2>1, <2>2, <2>3, <2>4, <2>5, <3>1
  <2>6. CASE b = "FUTURE"
    <3>1. position'["INTRADAY"] = position["INTRADAY"]
      BY <2>1, <2>6 DEF Books, MarginBooks
    <3> QED BY <1>1, <1>2, <1>5, <2>1, <2>2, <2>3, <2>4, <2>6, <3>1
  <2>7. CASE b = "OPTION"
    <3>1. position'["INTRADAY"] = position["INTRADAY"] /\ position'["FUTURE"] = position["FUTURE"]
      BY <2>1, <2>7 DEF Books, MarginBooks
    <3> QED BY <1>1, <1>2, <1>5, <2>1, <2>2, <2>3, <2>4, <2>7, <3>1
  <2> QED BY <2>1, <2>5, <2>6, <2>7 DEF MarginBooks
<1> QED BY <1>7, <1>8

SameHolding(b) ==
  /\ position'[b].qty = position[b].qty /\ position'[b].cost = position[b].cost
  /\ position'[b].realized = position[b].realized

(* A step that leaves the positions' holdings, the executed orders and the *)
(* trades alone, and pays in what it adds to the cash, keeps the ledger.   *)
LEMMA LedgerFrame ==
  ASSUME LedgerInv, UNCHANGED <<trades, resetAt>>, \A b \in Books : SameHolding(b),
         cash' - cash = capital' - capital, cash' \in Int, capital' \in Int,
         \A o \in Orders : status[o] = "EXECUTED" => order'[o] = order[o]
  PROVE  PositionIsNetTrades' /\ MoneyConserved'
<1> USE DEF LedgerInv
<1>1. (\A b \in Books : NetOf(b)' = NetOf(b)) /\ Premiums' = Premiums
  BY SumsStay
<1>2. PositionIsNetTrades'
  BY <1>1, NetTradesMeans, NetTradesMeansNext DEF SameHolding
<1>3. /\ cash \in Int /\ capital \in Nat /\ position["DELIVERY"].cost \in Nat
      /\ position["DELIVERY"].realized \in Int
      /\ position["INTRADAY"].realized \in Int /\ position["FUTURE"].realized \in Int
      /\ Premiums \in Int
  BY SumsType DEF HistoryInv, TypeInv, TypeOK, Books, MarginBooks, PositionRows
<1>4. cash + position["DELIVERY"].cost =
        capital + position["DELIVERY"].realized + position["INTRADAY"].realized
          + position["FUTURE"].realized + Premiums
  BY MoneyMeans
<1>5. cash' + position["DELIVERY"].cost =
        capital' + position["DELIVERY"].realized + position["INTRADAY"].realized
          + position["FUTURE"].realized + Premiums
  BY <1>3, <1>4
<1>6. MoneyConserved'
  BY <1>1, <1>5, MoneyMeansNext DEF SameHolding, Books, MarginBooks
<1> QED BY <1>2, <1>6

(* A reset starts a new ledger. *)
LEMMA LedgerReset ==
  ASSUME LedgerInv, ResetCurrentState
  PROVE  PositionIsNetTrades' /\ MoneyConserved'
<1>1. (\A b \in Books : NetOf(b)' = 0) /\ Premiums' = 0
  BY SumsReset DEF LedgerInv
<1>2. /\ cash' = InitialCash /\ capital' = InitialCash /\ InitialCash \in Nat
      /\ position' = [b \in Books |-> ClosedPosition(position[b].rev)]
  BY EngineAssumption DEF ResetCurrentState
<1>3. \A b \in Books : position'[b].qty = 0 /\ position'[b].cost = 0 /\ position'[b].realized = 0
  BY <1>2 DEF ClosedPosition
<1>4. PositionIsNetTrades'
  BY <1>1, <1>3, NetTradesMeansNext
<1>5. MoneyConserved'
  <2>1. /\ position'["DELIVERY"].cost = 0 /\ position'["DELIVERY"].realized = 0
        /\ position'["INTRADAY"].realized = 0 /\ position'["FUTURE"].realized = 0
    BY <1>3 DEF Books, MarginBooks
  <2> QED BY <1>1, <1>2, <2>1, MoneyMeansNext
<1> QED BY <1>4, <1>5

(* Every step keeps the ledger. *)
LEMMA LedgerStep == LedgerInv /\ [Next]_vars => LedgerInv'
<1> SUFFICES ASSUME LedgerInv, [Next]_vars PROVE PositionIsNetTrades' /\ MoneyConserved'
  BY HistoryStep, SharesHeldStep DEF LedgerInv
<1>1. TypeInv /\ HistoryInv /\ DeliveryNeverShort /\ PositionIsNetTrades /\ MoneyConserved
  BY DEF LedgerInv, HistoryInv
<1>2. cash \in Int /\ capital \in Nat /\ DOMAIN order = Orders
  BY <1>1 DEF TypeInv, TypeOK
<1>3. ASSUME NEW o \in Orders, NEW st, NEW row, Insert(o, st, row)
      PROVE  PositionIsNetTrades' /\ MoneyConserved'
  <2>1. /\ UNCHANGED <<position, trades, resetAt>> /\ cash' = cash /\ capital' = capital
        /\ status[o] = "NONE" /\ order' = [order EXCEPT ![o] = row]
    BY <1>3 DEF Insert, history
  <2>2. \A q \in Orders : status[q] = "EXECUTED" => order'[q] = order[q]
    BY <1>2, <2>1
  <2> QED BY <1>2, <2>1, <2>2, LedgerFrame DEF SameHolding
<1>4. CASE Move
  <2>1. UNCHANGED <<position, trades, resetAt>> /\ UNCHANGED <<cash, capital, order>>
    BY <1>4 DEF Move, history
  <2> QED BY <1>2, <2>1, LedgerFrame DEF SameHolding
<1>5. ASSUME NEW a \in Deposits, Deposit(a) PROVE PositionIsNetTrades' /\ MoneyConserved'
  <2>1. /\ UNCHANGED <<position, trades, resetAt>> /\ order' = order
        /\ cash' = cash + a /\ capital' = capital + a
    BY <1>5 DEF Deposit, rows
  <2>2. a \in Nat
    BY EngineAssumption
  <2> QED BY <1>2, <2>1, <2>2, LedgerFrame DEF SameHolding
<1>6. ASSUME NEW w \in Workers, SettleDelivery(w) \/ SettleMargin(w),
             Fill(call[w].order, FillPrice(order[call[w].order], call[w].price),
                  position'[order[call[w].order].book])
      PROVE  PositionIsNetTrades' /\ MoneyConserved'
  BY <1>1, <1>6, NetFill, MoneyFill
<1> QED BY <1>1, <1>3, <1>4, <1>5, <1>6, LedgerReset, StepKinds

(* The ledger starts empty. *)
LEMMA LedgerInit == Init => LedgerInv
<1> SUFFICES ASSUME Init PROVE LedgerInv
  OBVIOUS
<1>1. /\ position = [b \in Books |-> ClosedPosition(0)] /\ trades = <<>>
      /\ cash = InitialCash /\ capital = InitialCash /\ InitialCash \in Nat
  BY EngineAssumption DEF Init
<1>2. \A b \in Books : position[b].qty = 0 /\ position[b].cost = 0 /\ position[b].realized = 0
  BY <1>1 DEF ClosedPosition
<1>3. DeliveryNeverShort
  BY <1>2 DEF DeliveryNeverShort, Books
<1>4. (\A b \in Books : NetOf(b) = 0) /\ Premiums = 0
  BY <1>1, PartialSumZero DEF NetOf, Premiums
<1>5. PositionIsNetTrades
  BY <1>2, <1>4, NetTradesMeans
<1>6. MoneyConserved
  <2>1. /\ position["DELIVERY"].cost = 0 /\ position["DELIVERY"].realized = 0
        /\ position["INTRADAY"].realized = 0 /\ position["FUTURE"].realized = 0
    BY <1>2 DEF Books, MarginBooks
  <2> QED BY <1>1, <1>4, <2>1, MoneyMeans
<1> QED BY <1>3, <1>5, <1>6, HistoryInit DEF LedgerInv

(* The whole ledger, from which the three properties follow. *)
THEOREM LedgerInvariant == Spec => []LedgerInv
BY LedgerInit, LedgerStep, PTL DEF Spec

(* A position holds what was bought less what was sold since the last      *)
(* reset.                                                                  *)
THEOREM PositionsAreNetTrades == Spec => []PositionIsNetTrades
<1>1. LedgerInv => PositionIsNetTrades
  BY DEF LedgerInv
<1> QED BY <1>1, LedgerInvariant, PTL

(* No paise appears or disappears, and deliveries are never sold short and *)
(* take their cost with them, whatever settles, rounds or resets.          *)
THEOREM DeliveryBooksHold == Spec => []DeliveryBooks
<1>1. LedgerInv => DeliveryBooks
  BY DEF LedgerInv, DeliveryBooks
<1> QED BY <1>1, LedgerInvariant, PTL

-----------------------------------------------------------------------------
(* The orders that are stored keep their keys, and a key is stored once. *)
KeysInv == HistoryInv /\ OneOrderPerKey

(* A step that inserts no order keeps the rows' keys. *)
LEMMA KeysFrame ==
  ASSUME OneOrderPerKey,
         \A o \in Orders : order'[o].key = order[o].key /\ order'[o].exit = order[o].exit
  PROVE  OneOrderPerKey'
BY DEF OneOrderPerKey

(* Storing an order is the only use of a key, and the key is new. *)
LEMMA KeysStep == KeysInv /\ [Next]_vars => KeysInv'
<1> SUFFICES ASSUME KeysInv, [Next]_vars PROVE OneOrderPerKey'
  BY HistoryStep DEF KeysInv
<1>1. TypeInv /\ HistoryInv /\ OneOrderPerKey
  BY DEF KeysInv, HistoryInv
<1>2. DOMAIN order = Orders /\ \A q \in Orders : order[q] \in OrderRows
  BY <1>1 DEF TypeInv, TypeOK
<1>3. ASSUME order' = order PROVE OneOrderPerKey'
  BY <1>1, <1>3, KeysFrame
<1>4. ASSUME NEW o \in Orders, NEW st, NEW row, Insert(o, st, row) PROVE OneOrderPerKey'
  <2>1. /\ order' = [order EXCEPT ![o] = row]
        /\ row.key # NoKey => \A q \in Orders : order[q].key # row.key
        /\ row.exit.key # NoKey => \A q \in Orders : order[q].exit.key # row.exit.key
    BY <1>4 DEF Insert
  <2>2. order'[o] = row /\ \A q \in Orders : q # o => order'[q] = order[q]
    BY <1>2, <2>1
  <2> QED BY <1>1, <2>1, <2>2 DEF OneOrderPerKey
<1>5. ASSUME NEW o, NEW price, NEW new, Fill(o, price, new) PROVE OneOrderPerKey'
  <2>1. o \in Orders /\ order' = [order EXCEPT ![o].qty = FilledQty(o)]
    BY <1>5 DEF Fill
  <2>2. \A q \in Orders : order'[q].key = order[q].key /\ order'[q].exit = order[q].exit
    BY <1>2, <2>1 DEF OrderRows
  <2> QED BY <1>1, <2>2, KeysFrame
<1>6. CASE Move
  BY <1>3, <1>6 DEF Move
<1>7. CASE \E a \in Deposits : Deposit(a)
  BY <1>3, <1>7 DEF Deposit, rows
<1>8. CASE ResetCurrentState
  BY <1>3, <1>8 DEF ResetCurrentState
<1> QED BY <1>1, <1>4, <1>5, <1>6, <1>7, <1>8, StepKinds

(* A key names at most one order, however requests race, retry and crash. *)
THEOREM KeysNameOneOrder == Spec => []OneOrderPerKey
<1>1. Init => KeysInv
  BY HistoryInit DEF KeysInv, Init, OneOrderPerKey, NoOrder, OrderRow, NoExit
<1>2. KeysInv => OneOrderPerKey
  BY DEF KeysInv
<1> QED BY <1>1, <1>2, KeysStep, PTL DEF Spec

-----------------------------------------------------------------------------
(* What an active exit recorded of its position is still so, unless the    *)
(* position's row has been saved or the account reset since.               *)
ExitsRecorded ==
  \A o \in Orders : status[o] \in Active /\ order[o].exit.key # NoKey =>
    LET e == order[o].exit
        p == position[order[o].book]
    IN  /\ e.epoch <= epoch
        /\ e.epoch = epoch => e.rev <= p.rev
        /\ e.epoch = epoch /\ e.rev = p.rev => Closes(order[o])

ExitsInv == HistoryInv /\ ExitsRecorded

(* The records survive a step that keeps the rows, the positions and the   *)
(* epoch and activates no order.                                           *)
LEMMA ExitsFrame ==
  ASSUME ExitsRecorded, UNCHANGED <<order, position, epoch>>,
         \A o \in Orders : status'[o] \in Active => status[o] \in Active
  PROVE  ExitsRecorded'
BY DEF ExitsRecorded, Closes

(* A new exit records its position as it is. *)
LEMMA ExitsInsert ==
  ASSUME ExitsInv, NEW o \in Orders, NEW st, NEW row, Insert(o, st, row)
  PROVE  ExitsRecorded'
<1>1. /\ status' = [status EXCEPT ![o] = st] /\ order' = [order EXCEPT ![o] = row]
      /\ row.exit.key # NoKey => Closes(row)
      /\ position' = position /\ epoch' = epoch /\ row \in OrderRows
  BY DEF Insert, history
<1>2. /\ DOMAIN order = Orders /\ DOMAIN status = Orders
      /\ epoch \in Nat /\ position[row.book] \in PositionRows
  BY <1>1 DEF ExitsInv, HistoryInv, TypeInv, TypeOK, OrderRows
<1>3. ASSUME NEW q \in Orders, q # o, status'[q] \in Active, order'[q].exit.key # NoKey
      PROVE  LET e == order'[q].exit
                 p == position'[order'[q].book]
             IN  /\ e.epoch <= epoch'
                 /\ e.epoch = epoch' => e.rev <= p.rev
                 /\ e.epoch = epoch' /\ e.rev = p.rev => Closes(order[q])'
  <2>1. status[q] \in Active /\ order'[q] = order[q]
    BY <1>1, <1>2, <1>3
  <2> QED BY <1>1, <1>3, <2>1 DEF ExitsInv, ExitsRecorded, Closes
<1>4. ASSUME order'[o].exit.key # NoKey
      PROVE  LET e == order'[o].exit
                 p == position'[order'[o].book]
             IN  /\ e.epoch <= epoch'
                 /\ e.epoch = epoch' => e.rev <= p.rev
                 /\ e.epoch = epoch' /\ e.rev = p.rev => Closes(order[o])'
  <2>1. order'[o] = row /\ Closes(row)
    BY <1>1, <1>2, <1>4
  <2>2. row.exit.epoch = epoch /\ row.exit.rev = position[row.book].rev
    BY <2>1 DEF Closes
  <2>3. position[row.book].rev \in Nat
    BY <1>2 DEF PositionRows
  <2>4. Closes(order[o])'
    BY <1>1, <2>1 DEF Closes
  <2> QED BY <1>1, <1>2, <2>1, <2>2, <2>3, <2>4
<1> QED BY <1>3, <1>4 DEF ExitsRecorded

(* A fill saves its position's row, which outdates the exits that recorded *)
(* it.                                                                     *)
LEMMA ExitsFill ==
  ASSUME ExitsInv, NEW o, NEW price, NEW new, Fill(o, price, new)
  PROVE  ExitsRecorded'
<1> DEFINE b == order[o].book
<1>1. /\ o \in Orders /\ b \in Books /\ new.rev = position[b].rev + 1
      /\ position' = [position EXCEPT ![b] = new]
      /\ order' = [order EXCEPT ![o].qty = FilledQty(o)]
      /\ status' = [status EXCEPT ![o] = "EXECUTED"] /\ epoch' = epoch
  BY DEF Fill, history
<1>2. /\ DOMAIN order = Orders /\ DOMAIN status = Orders /\ DOMAIN position = Books
      /\ epoch \in Nat /\ \A q \in Orders : order[q] \in OrderRows
      /\ \A c \in Books : position[c] \in PositionRows
  BY DEF ExitsInv, HistoryInv, TypeInv, TypeOK
<1>3. ASSUME NEW q \in Orders, status'[q] \in Active, order'[q].exit.key # NoKey
      PROVE  LET e == order'[q].exit
                 p == position'[order'[q].book]
             IN  /\ e.epoch <= epoch'
                 /\ e.epoch = epoch' => e.rev <= p.rev
                 /\ e.epoch = epoch' /\ e.rev = p.rev => Closes(order[q])'
  <2>1. q # o
    BY <1>1, <1>2, <1>3 DEF Active
  <2>2. status[q] \in Active /\ order'[q] = order[q] /\ order[q].book \in Books
    BY <1>1, <1>2, <1>3, <2>1 DEF OrderRows
  <2> DEFINE e == order[q].exit
             p == position[order[q].book]
  <2>3. /\ e.epoch <= epoch
        /\ e.epoch = epoch => e.rev <= p.rev
        /\ e.epoch = epoch /\ e.rev = p.rev => Closes(order[q])
    BY <1>3, <2>2 DEF ExitsInv, ExitsRecorded
  <2>4. e.rev \in Nat /\ p.rev \in Nat
    BY <1>2, <2>2 DEF OrderRows, Exits, PositionRows
  <2>5. CASE order[q].book = b
    <3>1. position'[order[q].book].rev = p.rev + 1
      BY <1>1, <1>2, <2>5
    <3> QED BY <1>1, <2>2, <2>3, <2>4, <3>1
  <2>6. CASE order[q].book # b
    <3>1. position'[order[q].book] = p
      BY <1>1, <1>2, <2>2, <2>6
    <3> QED BY <1>1, <2>2, <2>3, <3>1 DEF Closes
  <2> QED BY <2>5, <2>6
<1> QED BY <1>3 DEF ExitsRecorded

(* Every step keeps the exits' records. *)
LEMMA ExitsStep == ExitsInv /\ [Next]_vars => ExitsInv'
<1> SUFFICES ASSUME ExitsInv, [Next]_vars PROVE ExitsRecorded'
  BY HistoryStep DEF ExitsInv
<1>1. TypeInv /\ ExitsRecorded
  BY DEF ExitsInv, HistoryInv
<1>2. CASE Move
  BY <1>1, <1>2, ExitsFrame DEF Move, history
<1>3. CASE \E a \in Deposits : Deposit(a)
  BY <1>1, <1>3, ExitsFrame DEF Deposit, rows
<1>4. CASE ResetCurrentState
  <2>1. /\ epoch' = epoch + 1 /\ order' = order
        /\ \A o \in Orders : status'[o] \in Active => status[o] \in Active
    BY <1>4 DEF ResetCurrentState, Active
  <2>2. \A o \in Orders : order[o].exit.epoch \in Nat
    BY <1>1 DEF TypeInv, TypeOK, OrderRows, Exits
  <2>3. epoch \in Nat
    BY <1>1 DEF TypeInv, TypeOK
  <2>4. \A o \in Orders : status'[o] \in Active /\ order'[o].exit.key # NoKey =>
          order'[o].exit.epoch <= epoch
    BY <1>1, <2>1 DEF ExitsRecorded
  <2> QED BY <2>1, <2>2, <2>3, <2>4 DEF ExitsRecorded
<1> QED BY <1>1, <1>2, <1>3, <1>4, ExitsInsert, ExitsFill, StepKinds

(* The fill of an exit finds the position it recorded and closes all of it. *)
LEMMA ExitCloses ==
  ASSUME ExitsInv, NEW o, NEW price, NEW new, Fill(o, price, new), order[o].exit.key # NoKey
  PROVE  /\ position'[order[o].book].qty = 0
         /\ order[o].exit.epoch = epoch
         /\ Magnitude(position[order[o].book].qty) = order[o].qty
<1> DEFINE b == order[o].book
           p == position[b]
<1>1. /\ o \in Orders /\ status[o] \in Active /\ b \in Books /\ ~ Obsolete(o)
      /\ new.qty = TransitionQty(p.qty, FilledQty(o), order[o].side)
      /\ position' = [position EXCEPT ![b] = new]
  BY DEF Fill
<1>2. order[o].exit.epoch = epoch /\ order[o].exit.rev = p.rev
  BY <1>1 DEF Obsolete, StaleExit
<1>3. Closes(order[o])
  BY <1>1, <1>2 DEF ExitsInv, ExitsRecorded
<1>4. /\ order[o].reason = "SQUARE_OFF" /\ order[o].qty = Magnitude(p.qty)
      /\ order[o].side = IF p.qty < 0 THEN "BUY" ELSE "SELL"
  BY <1>3 DEF Closes
<1>5. p \in PositionRows /\ DOMAIN position = Books
  BY <1>1 DEF ExitsInv, HistoryInv, TypeInv, TypeOK
<1>6. p.qty \in Int /\ (b = "DELIVERY" => p.qty >= 0)
  BY <1>5 DEF PositionRows, ExitsInv, HistoryInv, TypeInv
<1>7. b \in MarginBooks \/ order[o].side = "SELL"
  BY <1>1, <1>4, <1>6 DEF Books
<1>8. FilledQty(o) = Smaller(order[o].qty, Magnitude(p.qty))
  BY <1>4, <1>7 DEF FilledQty
<1>9. FilledQty(o) = Magnitude(p.qty)
  BY <1>4, <1>8 DEF Smaller
<1>10. new.qty = 0
  <2> HIDE DEF p
  <2> QED BY <1>1, <1>4, <1>6, <1>9 DEF TransitionQty, Delta, Magnitude
<1> QED BY <1>1, <1>2, <1>4, <1>5, <1>10

(* What the run's ExitFlattens says of one order. *)
Flattens(o) ==
  status'[o] = "EXECUTED" /\ status[o] # "EXECUTED" /\ order[o].exit.key # NoKey =>
    LET b == order[o].book
    IN  /\ position'[b].qty = 0
        /\ order[o].exit.epoch = epoch
        /\ Magnitude(position[b].qty) = order[o].qty

(* The engine executes an exit by a fill only. *)
LEMMA EngineFlattens ==
  ASSUME ExitsInv, [Next]_vars, NEW o \in Orders
  PROVE  Flattens(o)
<1> SUFFICES ASSUME status'[o] = "EXECUTED", status[o] # "EXECUTED", order[o].exit.key # NoKey
             PROVE  /\ position'[order[o].book].qty = 0
                    /\ order[o].exit.epoch = epoch
                    /\ Magnitude(position[order[o].book].qty) = order[o].qty
  BY DEF Flattens
<1>1. TypeInv /\ DOMAIN status = Orders
  BY DEF ExitsInv, HistoryInv, TypeInv, TypeOK
<1>2. ASSUME NEW q \in Orders, NEW st, NEW row, Insert(q, st, row) PROVE FALSE
  BY <1>1, <1>2 DEF Insert, Active
<1>3. ~ Move
  BY <1>1 DEF Move
<1>4. ~ \E a \in Deposits : Deposit(a)
  BY DEF Deposit, rows
<1>5. ~ ResetCurrentState
  BY DEF ResetCurrentState
<1>6. ASSUME NEW q, NEW price, NEW new, Fill(q, price, new) PROVE q = o
  BY <1>1, <1>6 DEF Fill
<1> QED BY <1>1, <1>2, <1>3, <1>4, <1>5, <1>6, ExitCloses, StepKinds

(* A square-off closes the very position its intent recorded, completely:  *)
(* it never opens, reverses or trims one that changed or reopened between  *)
(* the intent and the fill.                                                *)
THEOREM ExitsFlatten == Spec => ExitFlattens
<1>1. Init => ExitsInv
  BY HistoryInit DEF ExitsInv, Init, ExitsRecorded, Active
<1>2. Spec => []ExitsInv
  BY <1>1, ExitsStep, PTL DEF Spec
<1>3. ExitsInv /\ [Next]_vars => [\A o \in Orders : Flattens(o)]_vars
  BY EngineFlattens
<1>4. Spec => [][\A o \in Orders : Flattens(o)]_vars
  BY <1>2, <1>3, PTL DEF Spec
<1> QED BY <1>4 DEF ExitFlattens, Flattens

-----------------------------------------------------------------------------
(* Where a reset meets no stop, it leaves no sale active. *)
NoStopWaits == MaxResets > 0 => \A o \in Orders : status[o] # "TRIGGER_PENDING"

SharesInv == HistoryInv /\ NoStopWaits /\ SharesCommitted

(* The shares an order offers, if it is an active sale and no exit, and    *)
(* the shares it commits, if it is an active sale.                         *)
Sale(o) == status[o] \in Active /\ order[o].book = "DELIVERY" /\ order[o].side = "SELL"
Committed == [o \in Orders |-> IF Sale(o) THEN order[o].qty ELSE 0]
Offered == [o \in Orders |-> IF Sale(o) /\ order[o].exit.key = NoKey THEN order[o].qty ELSE 0]

(* OfferedShares, as a sum of a named function of the orders. *)
LEMMA OfferedMeans == OfferedShares = PartialSum(Offered, MaxOrders)
<1>1. Offered = [o \in Orders |->
                   IF /\ status[o] \in Active /\ order[o].exit.key = NoKey
                      /\ order[o].book = "DELIVERY" /\ order[o].side = "SELL"
                   THEN order[o].qty ELSE 0]
  BY DEF Offered, Sale
<1> QED BY <1>1 DEF OfferedShares

(* The same after a step. *)
LEMMA OfferedMeansNext == OfferedShares' = PartialSum(Offered', MaxOrders)
<1>1. Offered' = [o \in Orders |->
                   IF /\ status'[o] \in Active /\ order'[o].exit.key = NoKey
                      /\ order'[o].book = "DELIVERY" /\ order'[o].side = "SELL"
                   THEN order'[o].qty ELSE 0]
  BY DEF Offered, Sale
<1> QED BY <1>1 DEF OfferedShares

(* Offers are amounts. *)
LEMMA OfferedType ==
  ASSUME TypeOK
  PROVE  /\ Offered \in [1..MaxOrders -> Nat] /\ Offered \in [1..MaxOrders -> Int]
         /\ PartialSum(Offered, MaxOrders) \in Nat /\ MaxOrders \in Nat
<1>1. MaxOrders \in Nat
  BY EngineAssumption
<1>2. \A o \in Orders : order[o].qty \in Nat
  BY DEF TypeOK, OrderRows
<1>3. Offered \in [1..MaxOrders -> Nat] /\ Offered \in [1..MaxOrders -> Int]
  BY <1>2 DEF Offered, Orders
<1> QED BY <1>1, <1>3, PartialSumNat

(* What is offered is committed: an order that finds its shares free of    *)
(* commitments finds them free of offers.                                  *)
LEMMA OfferedBound == ASSUME TypeOK PROVE OfferedShares <= CommittedShares
<1>1. /\ Offered \in [1..MaxOrders -> Int] /\ MaxOrders \in Nat
  BY OfferedType
<1>2. \A o \in Orders : order[o].qty \in Nat
  BY DEF TypeOK, OrderRows
<1>3. Committed \in [1..MaxOrders -> Int]
  BY <1>2 DEF Committed, Orders
<1>4. \A o \in 1..MaxOrders : Offered[o] <= Committed[o]
  BY <1>2 DEF Offered, Committed, Orders
<1>5. PartialSum(Offered, MaxOrders) <= PartialSum(Committed, MaxOrders)
  <2> HIDE DEF Offered, Committed
  <2> QED BY <1>1, <1>3, <1>4, PartialSumMono
<1>6. Committed = [o \in Orders |->
                     IF /\ status[o] \in Active
                        /\ order[o].book = "DELIVERY" /\ order[o].side = "SELL"
                     THEN order[o].qty ELSE 0]
  BY DEF Committed, Sale
<1>7. CommittedShares = PartialSum(Committed, MaxOrders)
  BY <1>6 DEF CommittedShares
<1> QED BY <1>5, <1>7, OfferedMeans

(* A step that changes one order moves the sum by that order's change. *)
LEMMA OfferedStep ==
  ASSUME TypeOK, TypeOK', NEW o \in Orders,
         \A q \in Orders : q # o => status'[q] = status[q] /\ order'[q] = order[q]
  PROVE  OfferedShares' = OfferedShares - Offered[o] + Offered'[o]
<1>1. /\ Offered \in [1..MaxOrders -> Int] /\ MaxOrders \in Nat
  BY OfferedType
<1>2. \A q \in Orders : order'[q].qty \in Nat
  BY DEF TypeOK, OrderRows
<1>3. Offered' \in [1..MaxOrders -> Int]
  BY <1>2 DEF Offered, Orders
<1>4. \A q \in 1..MaxOrders : q # o => Offered'[q] = Offered[q]
  BY DEF Offered, Sale, Orders
<1>5. o \in 1..MaxOrders
  BY DEF Orders
<1> HIDE DEF Offered
<1>6. PartialSum(Offered', MaxOrders) = PartialSum(Offered, MaxOrders) - Offered[o] + Offered'[o]
  BY <1>1, <1>3, <1>4, <1>5, PartialSumUpdate
<1> QED BY <1>6, OfferedMeans, OfferedMeansNext

(* An exit of the present epoch that took the whole delivery position. *)
ExitTaken ==
  \E o \in Orders : /\ status[o] = "EXECUTED" /\ order[o].book = "DELIVERY"
                    /\ order[o].exit.key # NoKey /\ order[o].exit.epoch = epoch

(* An order once taken by an exit stays so until a reset. *)
LEMMA TakenStays ==
  ASSUME ExitTaken, epoch' = epoch,
         \A o \in Orders : status[o] = "EXECUTED" =>
           status'[o] = "EXECUTED" /\ order'[o] = order[o]
  PROVE  ExitTaken'
BY DEF ExitTaken

(* A new sale offers shares that are free. *)
LEMMA SharesInsert ==
  ASSUME SharesInv, TypeOK', NEW o \in Orders, NEW st, NEW row, Insert(o, st, row)
  PROVE  SharesCommitted'
<1>1. /\ status[o] = "NONE" /\ status' = [status EXCEPT ![o] = st]
      /\ order' = [order EXCEPT ![o] = row] /\ row \in OrderRows
      /\ row.exit.key = NoKey /\ row.book = "DELIVERY" /\ row.side = "SELL" =>
           row.qty <= position["DELIVERY"].qty - CommittedShares
      /\ position' = position /\ epoch' = epoch
  BY DEF Insert, history
<1>2. TypeOK /\ DOMAIN status = Orders /\ DOMAIN order = Orders
  BY DEF SharesInv, HistoryInv, TypeInv, TypeOK
<1>3. CASE ExitTaken
  <2>1. ExitTaken'
    BY <1>1, <1>2, <1>3, TakenStays
  <2> QED BY <2>1 DEF SharesCommitted, ExitTaken
<1>4. CASE ~ ExitTaken
  <2>1. OfferedShares <= position["DELIVERY"].qty
    BY <1>4 DEF SharesInv, SharesCommitted, ExitTaken
  <2>2. OfferedShares' = OfferedShares - Offered[o] + Offered'[o]
    BY <1>1, <1>2, OfferedStep
  <2>3. Offered[o] = 0
    BY <1>1 DEF Offered, Sale, Active
  <2>4. /\ Offered'[o] = 0 \/ Offered'[o] = row.qty
        /\ Offered'[o] # 0 => row.qty <= position["DELIVERY"].qty - CommittedShares
    BY <1>1, <1>2 DEF Offered, Sale
  <2>5. /\ OfferedShares \in Nat /\ OfferedShares <= CommittedShares
        /\ position["DELIVERY"].qty \in Int /\ row.qty \in Nat
    BY <1>1, <1>2, OfferedType, OfferedMeans, OfferedBound DEF TypeOK, PositionRows, Books, OrderRows
  <2>6. CommittedShares \in Int
    <3>1. \A q \in Orders : order[q].qty \in Nat
      BY <1>2 DEF TypeOK, OrderRows
    <3>2. [q \in Orders |-> IF /\ status[q] \in Active
                               /\ order[q].book = "DELIVERY" /\ order[q].side = "SELL"
                            THEN order[q].qty ELSE 0] \in [1..MaxOrders -> Int]
      BY <3>1 DEF Orders
    <3>3. MaxOrders \in Nat
      BY EngineAssumption
    <3> QED BY <3>2, <3>3, PartialSumInt DEF CommittedShares
  <2>7. OfferedShares' <= position["DELIVERY"].qty
    BY <2>1, <2>2, <2>3, <2>4, <2>5, <2>6
  <2> QED BY <1>1, <2>7 DEF SharesCommitted
<1> QED BY <1>3, <1>4

(* A fill gives up at least what it takes from the position; an exit takes *)
(* it all and says so.                                                     *)
LEMMA SharesFill ==
  ASSUME SharesInv, TypeOK', NEW o, NEW price, NEW new, Fill(o, price, new)
  PROVE  SharesCommitted'
<1> DEFINE b == order[o].book
           qty == FilledQty(o)
<1>1. /\ o \in Orders /\ status[o] \in Active /\ b \in Books /\ ~ Obsolete(o)
      /\ qty \in Nat /\ qty <= order[o].qty
      /\ new.qty = TransitionQty(position[b].qty, qty, order[o].side)
      /\ position' = [position EXCEPT ![b] = new]
      /\ order' = [order EXCEPT ![o].qty = qty]
      /\ status' = [status EXCEPT ![o] = "EXECUTED"] /\ epoch' = epoch
  BY DEF Fill, history
<1>2. /\ TypeOK /\ DOMAIN status = Orders /\ DOMAIN order = Orders /\ DOMAIN position = Books
      /\ order[o] \in OrderRows /\ position[b] \in PositionRows /\ "DELIVERY" \in Books
      /\ position["DELIVERY"] \in PositionRows
  BY <1>1 DEF SharesInv, HistoryInv, TypeInv, TypeOK, Books
<1>3. \A q \in Orders : q # o => order'[q] = order[q] /\ status'[q] = status[q]
  BY <1>1, <1>2
<1>4. CASE ExitTaken
  <2>1. ExitTaken'
    BY <1>1, <1>2, <1>3, <1>4, TakenStays DEF Active
  <2> QED BY <2>1 DEF SharesCommitted, ExitTaken
<1>5. CASE ~ ExitTaken /\ order[o].exit.key # NoKey /\ b = "DELIVERY"
  <2>1. order[o].exit.epoch = epoch
    BY <1>1, <1>5 DEF Obsolete, StaleExit
  <2>2. /\ status'[o] = "EXECUTED" /\ order'[o].book = "DELIVERY"
        /\ order'[o].exit = order[o].exit
    BY <1>1, <1>2, <1>5 DEF OrderRows
  <2> QED BY <1>1, <1>5, <2>1, <2>2 DEF SharesCommitted
<1>6. CASE ~ ExitTaken /\ ~ (order[o].exit.key # NoKey /\ b = "DELIVERY")
  <2>1. OfferedShares <= position["DELIVERY"].qty
    BY <1>6 DEF SharesInv, SharesCommitted, ExitTaken
  <2>2. OfferedShares' = OfferedShares - Offered[o] + Offered'[o]
    BY <1>1, <1>2, <1>3, OfferedStep
  <2>3. Offered'[o] = 0
    BY <1>1, <1>2 DEF Offered, Sale, Active
  <2>4. Offered[o] = IF b = "DELIVERY" /\ order[o].side = "SELL" THEN order[o].qty ELSE 0
    BY <1>1, <1>6 DEF Offered, Sale
  <2>5. /\ OfferedShares \in Nat /\ position["DELIVERY"].qty \in Int
        /\ order[o].qty \in Nat
    BY <1>2, OfferedType, OfferedMeans DEF PositionRows, OrderRows
  <2>6. CASE b # "DELIVERY"
    <3>1. position'["DELIVERY"] = position["DELIVERY"]
      BY <1>1, <1>2, <2>6
    <3>2. OfferedShares' = OfferedShares
      BY <2>2, <2>3, <2>4, <2>5, <2>6
    <3> QED BY <2>1, <3>1, <3>2 DEF SharesCommitted
  <2>7. CASE b = "DELIVERY"
    <3>1. position'["DELIVERY"].qty = position["DELIVERY"].qty + Delta(order[o].side, qty)
      BY <1>1, <1>2, <2>7 DEF TransitionQty
    <3>2. order[o].side \in {"BUY", "SELL"}
      BY <1>2 DEF OrderRows, Sides
    <3> HIDE DEF qty, b
    <3>3. OfferedShares' <= position'["DELIVERY"].qty
      BY <1>1, <2>1, <2>2, <2>3, <2>4, <2>5, <2>7, <3>1, <3>2 DEF Delta
    <3> QED BY <3>3 DEF SharesCommitted
  <2> QED BY <2>6, <2>7
<1> QED BY <1>4, <1>5, <1>6

(* A status move offers no more than before. *)
LEMMA SharesMove ==
  ASSUME SharesInv, TypeOK', UNCHANGED <<order, position, epoch>>,
         \A o \in Orders : status'[o] # status[o] => status[o] \in Active /\ status'[o] # "EXECUTED"
  PROVE  SharesCommitted'
<1>1. TypeOK
  BY DEF SharesInv, HistoryInv, TypeInv
<1>2. \A o \in Orders : order[o].qty \in Nat /\ order'[o] = order[o]
  BY <1>1 DEF TypeOK, OrderRows
<1>3. Offered \in [1..MaxOrders -> Int] /\ MaxOrders \in Nat /\ OfferedShares \in Nat
  BY <1>1, OfferedType, OfferedMeans
<1>4. Offered' \in [1..MaxOrders -> Int]
  BY <1>2 DEF Offered, Orders
<1>5. \A o \in 1..MaxOrders : Offered'[o] <= Offered[o]
  BY <1>2 DEF Offered, Sale, Orders
<1>6. PartialSum(Offered', MaxOrders) <= PartialSum(Offered, MaxOrders)
  <2> HIDE DEF Offered
  <2> QED BY <1>3, <1>4, <1>5, PartialSumMono
<1>7. PartialSum(Offered', MaxOrders) \in Int
  <2> HIDE DEF Offered
  <2> QED BY <1>3, <1>4, PartialSumInt
<1>8. OfferedShares' <= OfferedShares /\ OfferedShares' \in Int
  BY <1>6, <1>7, OfferedMeans, OfferedMeansNext
<1>9. CASE ExitTaken
  <2>1. ExitTaken'
    BY <1>9, TakenStays DEF Active
  <2> QED BY <2>1 DEF SharesCommitted, ExitTaken
<1>10. CASE ~ ExitTaken
  <2>1. OfferedShares <= position["DELIVERY"].qty
    BY <1>10 DEF SharesInv, SharesCommitted, ExitTaken
  <2>2. position["DELIVERY"].qty \in Int
    BY <1>1 DEF TypeOK, PositionRows, Books
  <2>3. OfferedShares' <= position["DELIVERY"].qty
    BY <1>3, <1>8, <2>1, <2>2
  <2> QED BY <2>3 DEF SharesCommitted
<1> QED BY <1>9, <1>10

(* A reset cancels every sale. *)
LEMMA SharesReset ==
  ASSUME SharesInv, ResetCurrentState
  PROVE  SharesCommitted'
<1>1. /\ status' = [o \in Orders |-> IF o \in OpenAtReset THEN "CANCELLED" ELSE status[o]]
      /\ epoch < MaxResets
      /\ position' = [b \in Books |-> ClosedPosition(position[b].rev)]
  BY DEF ResetCurrentState
<1>2. MaxResets > 0 /\ MaxOrders \in Nat
  BY <1>1, EngineAssumption DEF SharesInv, HistoryInv, TypeInv, TypeOK
<1>3. \A o \in Orders : status'[o] \notin Active
  BY <1>1, <1>2 DEF SharesInv, NoStopWaits, OpenAtReset, Active
<1>4. \A o \in 1..MaxOrders : Offered'[o] = 0
  BY <1>3 DEF Offered, Sale, Orders
<1>5. OfferedShares' = 0
  <2> HIDE DEF Offered
  <2> QED BY <1>2, <1>4, PartialSumZero, OfferedMeansNext
<1>6. position'["DELIVERY"].qty = 0
  BY <1>1 DEF Books, ClosedPosition
<1> QED BY <1>5, <1>6 DEF SharesCommitted

(* No stop is stored or comes into being where a reset may happen. *)
LEMMA NoStopStep ==
  ASSUME NoStopMeetsReset, HistoryInv, NoStopWaits, [Next]_vars
  PROVE  NoStopWaits'
<1>1. TypeInv /\ DOMAIN status = Orders
  BY DEF HistoryInv, TypeInv, TypeOK
<1>2. ASSUME NEW o \in Orders, NEW st, NEW row, Insert(o, st, row) PROVE NoStopWaits'
  <2>1. MaxResets > 0 => st # "TRIGGER_PENDING"
    BY <1>2, EngineAssumption DEF Insert, NoStopMeetsReset
  <2> QED BY <1>1, <1>2, <2>1 DEF Insert, NoStopWaits
<1>3. ASSUME NEW o, NEW price, NEW new, Fill(o, price, new) PROVE NoStopWaits'
  BY <1>1, <1>3 DEF Fill, NoStopWaits
<1>4. CASE Move
  BY <1>4 DEF Move, NoStopWaits
<1>5. CASE \E a \in Deposits : Deposit(a)
  BY <1>5 DEF Deposit, rows, NoStopWaits
<1>6. CASE ResetCurrentState
  BY <1>6 DEF ResetCurrentState, NoStopWaits
<1> QED BY <1>1, <1>2, <1>3, <1>4, <1>5, <1>6, StepKinds

(* Every step keeps the offers covered. *)
LEMMA SharesStep ==
  ASSUME NoStopMeetsReset
  PROVE  SharesInv /\ [Next]_vars => SharesInv'
<1> SUFFICES ASSUME SharesInv, [Next]_vars PROVE SharesCommitted'
  BY HistoryStep, NoStopStep DEF SharesInv
<1>1. TypeInv /\ TypeOK'
  BY TypeStep DEF SharesInv, HistoryInv, TypeInv
<1>2. CASE Move
  <2>1. UNCHANGED <<order, position, epoch>>
    BY <1>2 DEF Move, history
  <2>2. \A o \in Orders : status'[o] # status[o] => status[o] \in Active /\ status'[o] # "EXECUTED"
    BY <1>2 DEF Move
  <2> QED BY <1>1, <2>1, <2>2, SharesMove
<1>3. CASE \E a \in Deposits : Deposit(a)
  BY <1>1, <1>3, SharesMove DEF Deposit, rows
<1> QED BY <1>1, <1>2, <1>3, SharesInsert, SharesFill, SharesReset, StepKinds

(* What open sales offer is held, unless a square-off took the position,   *)
(* in an instance whose resets meet no stop: a stop that outlives its      *)
(* reset offers shares that are gone.                                      *)
THEOREM SharesStayCommitted ==
  ASSUME NoStopMeetsReset
  PROVE  Spec => []SharesCommitted
<1>1. Init => SharesInv
  <2> SUFFICES ASSUME Init PROVE NoStopWaits /\ SharesCommitted
    BY HistoryInit DEF SharesInv
  <2>1. \A o \in 1..MaxOrders : Offered[o] = 0
    BY DEF Init, Offered, Sale, Active, Orders
  <2>2. OfferedShares = 0
    <3> HIDE DEF Offered
    <3> QED BY <2>1, EngineAssumption, PartialSumZero, OfferedMeans
  <2>3. position["DELIVERY"].qty = 0
    BY DEF Init, ClosedPosition, Books
  <2> QED BY <2>2, <2>3 DEF Init, NoStopWaits, SharesCommitted
<1>2. SharesInv /\ [Next]_vars => SharesInv'
  BY SharesStep
<1>3. SharesInv => SharesCommitted
  BY DEF SharesInv
<1> QED BY <1>1, <1>2, <1>3, PTL DEF Spec

-----------------------------------------------------------------------------
(* An active market order a client created, which some call owes an end. *)
Owed(o) == status[o] \in Active /\ order[o].type = "MARKET" /\ order[o].exit.key = NoKey

(* A call that has created nothing yet owns nothing. *)
OwnersAtWork == \A w \in Workers : call[w].pc \in {"idle", "create"} => ~ call[w].creating

OwnerInv == TypeInv /\ OwnersAtWork /\ MarketOrderHasOwner

(* What a call turns into when it makes a step. *)
Turns(w, c) ==
  /\ call' = [call EXCEPT ![w] = c]
  /\ c.pc \in {"idle", "create"} => ~ c.creating

(* A call that goes on with its order, or ends it, and takes in charge the *)
(* order it creates, leaves no market order without an owner.              *)
LEMMA OwnerFrame ==
  ASSUME OwnerInv, NEW w \in Workers, NEW c, Turns(w, c), crashes' = crashes,
         \A o \in Orders : Owed(o)' => Owed(o) \/ (c.order = o /\ c.creating),
         \A o \in Orders : call[w].creating /\ call[w].order = o /\ Owed(o)' =>
           c.order = o /\ c.creating
  PROVE  OwnersAtWork' /\ MarketOrderHasOwner'
<1>1. DOMAIN call = Workers
  BY DEF OwnerInv, TypeInv, TypeOK
<1>2. call'[w] = c /\ \A x \in Workers : x # w => call'[x] = call[x]
  BY <1>1 DEF Turns
<1>3. OwnersAtWork'
  BY <1>2 DEF OwnerInv, OwnersAtWork, Turns
<1>4. ASSUME crashes' = 0, NEW o \in Orders, Owed(o)'
      PROVE  \E x \in Workers : call'[x].order = o /\ call'[x].creating
  <2>1. CASE c.order = o /\ c.creating
    BY <1>2, <2>1
  <2>2. CASE ~ (c.order = o /\ c.creating)
    <3>1. Owed(o)
      BY <1>4, <2>2
    <3>2. PICK x \in Workers : call[x].order = o /\ call[x].creating
      BY <1>4, <3>1 DEF OwnerInv, MarketOrderHasOwner, Owed
    <3>3. x # w
      BY <1>4, <2>2, <3>2
    <3> QED BY <1>2, <3>2, <3>3
  <2> QED BY <2>1, <2>2
<1>5. MarketOrderHasOwner'
  BY <1>4 DEF MarketOrderHasOwner, Owed
<1> QED BY <1>3, <1>5

(* Nobody is missed when the calls stay and no order becomes owed. *)
LEMMA OwnerStays ==
  ASSUME OwnerInv, call' = call, crashes' = crashes, \A o \in Orders : Owed(o)' => Owed(o)
  PROVE  OwnersAtWork' /\ MarketOrderHasOwner'
BY DEF OwnerInv, OwnersAtWork, MarketOrderHasOwner, Owed

(* An idle call, and one that executes somebody's order. *)
LEMMA PlainCalls ==
  /\ Idle.pc = "idle" /\ Idle.creating = FALSE
  /\ \A o, c : Executing(o, c).pc = "execute" /\ Executing(o, c).order = o
               /\ Executing(o, c).creating = c
BY DEF Idle, Executing, Working

(* The steps that change no row. *)
LEMMA OwnerCalls ==
  ASSUME OwnerInv, NEW w \in Workers,
         \/ \E k \in Keys, r \in Requests : SubmitOrder(w, k, r)
         \/ JoinIntent(w) \/ RefuseOrder(w) \/ Unavailable(w) \/ RefuseSettlement(w)
         \/ \E o \in Orders : BeginExecute(w, o)
  PROVE  OwnersAtWork' /\ MarketOrderHasOwner'
<1>1. SUFFICES ASSUME UNCHANGED account, crashes' = crashes, NEW c, Turns(w, c),
                      ~ call[w].creating \/ (c.order = call[w].order /\ c.creating)
               PROVE  OwnersAtWork' /\ MarketOrderHasOwner'
  <2>1. call[w].pc \in {"idle", "create"} => ~ call[w].creating
    BY DEF OwnerInv, OwnersAtWork
  <2>2. \A o, type, st : FinishCreated(o, type, st).pc \in {"idle", "create"}
                           => ~ FinishCreated(o, type, st).creating
    BY PlainCalls DEF FinishCreated
  <2>3. ASSUME NEW k \in Keys, NEW r \in Requests, SubmitOrder(w, k, r)
        PROVE  OwnersAtWork' /\ MarketOrderHasOwner'
    <3>1. ~ call[w].creating /\ UNCHANGED account /\ crashes' = crashes
      BY <2>1, <2>3, PlainCalls DEF SubmitOrder
    <3>2. CASE call' = [call EXCEPT ![w] = Creating(k, r)]
      <4>1. Turns(w, Creating(k, r))
        BY <3>2 DEF Turns, Creating
      <4> QED BY <1>1, <3>1, <4>1
    <3>3. CASE \E o \in Orders :
                 call' = [call EXCEPT ![w] = FinishCreated(o, r.type, status[o])]
      <4>1. PICK o \in Orders :
              call' = [call EXCEPT ![w] = FinishCreated(o, r.type, status[o])]
        BY <3>3
      <4>2. Turns(w, FinishCreated(o, r.type, status[o]))
        BY <2>2, <4>1 DEF Turns
      <4> QED BY <1>1, <3>1, <4>2
    <3> QED BY <2>3, <3>2, <3>3 DEF SubmitOrder
  <2>4. CASE JoinIntent(w)
    <3>1. ~ call[w].creating /\ UNCHANGED account /\ crashes' = crashes
      BY <2>1, <2>4 DEF JoinIntent
    <3>2. PICK o \in Orders :
            call' = [call EXCEPT ![w] =
                       IF order[o] = OrderRow(call[w].req, call[w].key, NoExit)
                       THEN FinishCreated(o, call[w].req.type, status[o]) ELSE Idle]
      BY <2>4 DEF JoinIntent
    <3> DEFINE c == FinishCreated(o, call[w].req.type, status[o])
    <3>3. c.pc \in {"idle", "create"} => ~ c.creating
      BY <2>2
    <3> HIDE DEF c
    <3>4. Turns(w, c) \/ Turns(w, Idle)
      <4>1. call' = [call EXCEPT ![w] = c] \/ call' = [call EXCEPT ![w] = Idle]
        BY <3>2 DEF c
      <4> QED BY <3>3, <4>1, PlainCalls DEF Turns
    <3> QED BY <1>1, <3>1, <3>4
  <2>5. CASE RefuseOrder(w)
    <3>1. ~ call[w].creating /\ UNCHANGED account /\ crashes' = crashes /\ Turns(w, Idle)
      BY <2>1, <2>5, PlainCalls DEF RefuseOrder, Turns
    <3> QED BY <1>1, <3>1
  <2>6. CASE Unavailable(w) \/ RefuseSettlement(w)
    <3>1. UNCHANGED account /\ crashes' = crashes /\ call' = Fails(w)
      BY <2>6 DEF Unavailable, RefuseSettlement
    <3>2. DOMAIN call = Workers
      BY DEF OwnerInv, TypeInv, TypeOK
    <3>3. CASE call[w].creating
      <4>1. call' = [call EXCEPT ![w] = Working("reject", call[w].order, 0, TRUE)]
        BY <3>1, <3>2, <3>3 DEF Fails
      <4>2. /\ Turns(w, Working("reject", call[w].order, 0, TRUE))
            /\ Working("reject", call[w].order, 0, TRUE).order = call[w].order
            /\ Working("reject", call[w].order, 0, TRUE).creating
        BY <4>1 DEF Turns, Working
      <4> QED BY <1>1, <3>1, <4>2
    <3>4. CASE ~ call[w].creating
      <4>1. Turns(w, Idle)
        BY <3>1, <3>2, <3>4, PlainCalls DEF Fails, Turns
      <4> QED BY <1>1, <3>1, <3>4, <4>1
    <3> QED BY <3>3, <3>4
  <2>7. ASSUME NEW o \in Orders, BeginExecute(w, o)
        PROVE  OwnersAtWork' /\ MarketOrderHasOwner'
    <3>1. /\ ~ call[w].creating /\ UNCHANGED account /\ crashes' = crashes
          /\ Turns(w, Executing(o, FALSE))
      BY <2>1, <2>7, PlainCalls DEF BeginExecute, Turns
    <3> QED BY <1>1, <3>1
  <2> QED BY <2>3, <2>4, <2>5, <2>6, <2>7
<1>2. \A o \in Orders : Owed(o)' => Owed(o)
  BY <1>1 DEF Owed, account, rows
<1> QED BY <1>1, <1>2, OwnerFrame

(* The call that creates a market order goes on to execute it. *)
LEMMA OwnerCreate ==
  ASSUME OwnerInv, NEW w \in Workers, CreateIntent(w)
  PROVE  OwnersAtWork' /\ MarketOrderHasOwner'
<1> DEFINE k == call[w].key
           r == call[w].req
<1>1. PICK o \in Orders :
        /\ status' = [status EXCEPT ![o] = InitialStatus(r)]
        /\ order' = [order EXCEPT ![o] = OrderRow(r, k, NoExit)]
        /\ call' = [call EXCEPT ![w] = FinishCreated(o, r.type, InitialStatus(r))]
  BY DEF CreateIntent
<1>2. call[w].pc = "create" /\ crashes' = crashes
  BY DEF CreateIntent
<1>3. ~ call[w].creating
  BY <1>2 DEF OwnerInv, OwnersAtWork
<1>4. DOMAIN status = Orders /\ DOMAIN order = Orders
  BY DEF OwnerInv, TypeInv, TypeOK
<1> DEFINE c == FinishCreated(o, r.type, InitialStatus(r))
<1>5. Turns(w, c)
  BY <1>1, PlainCalls DEF Turns, FinishCreated
<1>6. r.type = "MARKET" => c = Executing(o, TRUE)
  BY DEF FinishCreated, InitialStatus, Active
<1>7. \A q \in Orders : Owed(q)' => Owed(q) \/ (c.order = q /\ c.creating)
  <2> SUFFICES ASSUME NEW q \in Orders, Owed(q)' PROVE Owed(q) \/ (c.order = q /\ c.creating)
    OBVIOUS
  <2>1. CASE q = o
    <3>1. order'[q].type = r.type
      BY <1>1, <1>4, <2>1 DEF OrderRow
    <3>2. r.type = "MARKET"
      BY <3>1 DEF Owed
    <3>3. c = Executing(o, TRUE)
      BY <1>6, <3>2
    <3> HIDE DEF c
    <3> QED BY <2>1, <3>3 DEF Executing, Working
  <2>2. CASE q # o
    BY <1>1, <1>4, <2>2 DEF Owed
  <2> QED BY <2>1, <2>2
<1> HIDE DEF c
<1> QED BY <1>2, <1>3, <1>5, <1>7, OwnerFrame

(* An exit is nobody's market order: its retry executes it. *)
LEMMA OwnerSquareOff ==
  ASSUME OwnerInv, NEW w \in Workers, NEW b \in Books, NEW k \in ExitKeys,
         SquareOffPosition(w, b, k)
  PROVE  OwnersAtWork' /\ MarketOrderHasOwner'
<1>1. call[w] = Idle /\ crashes' = crashes /\ k # NoKey
  BY EngineAssumption DEF SquareOffPosition
<1>2. PICK o, r, ref :
        /\ o \in Orders /\ ref.key = k
        /\ status' = [status EXCEPT ![o] = "PENDING"]
        /\ order' = [order EXCEPT ![o] = OrderRow(r, NoKey, ref)]
        /\ call' = [call EXCEPT ![w] = Executing(o, FALSE)]
  <2> DEFINE p == position[b]
             ref == [key |-> k, epoch |-> epoch, rev |-> p.rev]
             r == [book |-> b, side |-> IF p.qty < 0 THEN "BUY" ELSE "SELL",
                   type |-> "MARKET", qty |-> Magnitude(p.qty), price |-> 0,
                   trigger |-> 0, reason |-> "SQUARE_OFF"]
  <2>1. ref.key = k
    OBVIOUS
  <2>2. \E o :
          /\ o \in Orders
          /\ status' = [status EXCEPT ![o] = "PENDING"]
          /\ order' = [order EXCEPT ![o] = OrderRow(r, NoKey, ref)]
          /\ call' = [call EXCEPT ![w] = Executing(o, FALSE)]
    BY DEF SquareOffPosition
  <2> HIDE DEF ref, r
  <2> QED BY <2>1, <2>2
<1>3. DOMAIN status = Orders /\ DOMAIN order = Orders
  BY DEF OwnerInv, TypeInv, TypeOK
<1>4. Turns(w, Executing(o, FALSE))
  BY <1>2, PlainCalls DEF Turns
<1>5. order'[o].exit.key = k
  BY <1>2, <1>3 DEF OrderRow
<1>6. \A q \in Orders : Owed(q)' => Owed(q)
  BY <1>1, <1>2, <1>3, <1>5 DEF Owed
<1>7. ~ call[w].creating
  BY <1>1, PlainCalls
<1> QED BY <1>1, <1>4, <1>6, <1>7, OwnerFrame

(* A call that takes its order to the settlement stays its owner. *)
LEMMA OwnerActivate ==
  ASSUME OwnerInv, NEW w \in Workers, NEW ltp \in Prices, ActivateStop(w, ltp)
  PROVE  OwnersAtWork' /\ MarketOrderHasOwner'
<1> DEFINE o == call[w].order
<1>1. /\ crashes' = crashes /\ order' = order
      /\ \/ call' = Fails(w) /\ status' = status
         \/ /\ call' = [call EXCEPT ![w] = Working("settle", o, ltp, @.creating)]
            /\ status' = [status EXCEPT ![o] = IF @ = "TRIGGER_PENDING" THEN "OPEN" ELSE @]
  BY DEF ActivateStop
<1>2. DOMAIN status = Orders /\ DOMAIN call = Workers
  BY DEF OwnerInv, TypeInv, TypeOK
<1>3. \A q \in Orders : Owed(q)' => Owed(q)
  BY <1>1, <1>2 DEF Owed, Active
<1>4. \E c : Turns(w, c) /\ (call[w].creating => c.order = o /\ c.creating)
  <2>1. CASE call' = Fails(w) /\ call[w].creating
    <3>1. call' = [call EXCEPT ![w] = Working("reject", o, 0, TRUE)]
      BY <1>2, <2>1 DEF Fails
    <3>2. /\ Turns(w, Working("reject", o, 0, TRUE))
          /\ Working("reject", o, 0, TRUE).order = o /\ Working("reject", o, 0, TRUE).creating
      BY <3>1 DEF Turns, Working
    <3> QED BY <3>2
  <2>2. CASE call' = Fails(w) /\ ~ call[w].creating
    <3>1. Turns(w, Idle)
      BY <1>2, <2>2, PlainCalls DEF Fails, Turns
    <3> QED BY <2>2, <3>1
  <2>3. CASE call' = [call EXCEPT ![w] = Working("settle", o, ltp, @.creating)]
    <3>1. call' = [call EXCEPT ![w] = Working("settle", o, ltp, call[w].creating)]
      BY <1>2, <2>3
    <3>2. /\ Turns(w, Working("settle", o, ltp, call[w].creating))
          /\ Working("settle", o, ltp, call[w].creating).order = o
          /\ Working("settle", o, ltp, call[w].creating).creating = call[w].creating
      BY <3>1 DEF Turns, Working
    <3> QED BY <3>2
  <2> QED BY <1>1, <2>1, <2>2, <2>3
<1> QED BY <1>1, <1>3, <1>4, OwnerFrame

(* A call that ends its order has nothing left to own. *)
LEMMA OwnerEnds ==
  ASSUME OwnerInv, NEW w \in Workers,
         SettleDelivery(w) \/ SettleMargin(w) \/ CancelObsolete(w) \/ Reject(w)
  PROVE  OwnersAtWork' /\ MarketOrderHasOwner'
<1> DEFINE o == call[w].order
<1>1. /\ DOMAIN status = Orders /\ DOMAIN order = Orders
      /\ \A q \in Orders : order[q] \in OrderRows
      /\ call[w].pc \in {"settle", "reject"} => o \in Orders
  BY DEF OwnerInv, TypeInv, TypeOK, CallOK
<1>2. /\ o \in Orders /\ crashes' = crashes /\ call' = [call EXCEPT ![w] = Idle]
      /\ status'[o] \notin Active
      /\ \A q \in Orders : status'[q] = status[q] \/ status'[q] \notin Active
      /\ \A q \in Orders : order'[q].type = order[q].type /\ order'[q].exit = order[q].exit
  <2>1. ASSUME NEW price, Record(w, o, price), o \in Orders
        PROVE  /\ crashes' = crashes /\ call' = [call EXCEPT ![w] = Idle]
               /\ status'[o] \notin Active
               /\ \A q \in Orders : status'[q] = status[q] \/ status'[q] \notin Active
               /\ \A q \in Orders : order'[q].type = order[q].type /\ order'[q].exit = order[q].exit
    BY <1>1, <2>1 DEF Record, Active, OrderRows
  <2>2. CASE SettleDelivery(w)
    BY <1>1, <2>1, <2>2 DEF SettleDelivery
  <2>3. CASE SettleMargin(w)
    BY <1>1, <2>1, <2>3 DEF SettleMargin
  <2>4. CASE CancelObsolete(w)
    BY <1>1, <2>4 DEF CancelObsolete, Active
  <2>5. CASE Reject(w)
    BY <1>1, <2>5 DEF Reject, Active
  <2> QED BY <2>2, <2>3, <2>4, <2>5
<1>3. Turns(w, Idle)
  BY <1>2, PlainCalls DEF Turns
<1>4. \A q \in Orders : Owed(q)' => Owed(q) /\ q # o
  BY <1>2 DEF Owed
<1> QED BY <1>2, <1>3, <1>4, OwnerFrame

(* Every step leaves active market orders owned, until a call crashes. *)
LEMMA OwnerStep == OwnerInv /\ [Next]_vars => OwnerInv'
<1> SUFFICES ASSUME OwnerInv, [Next]_vars PROVE OwnersAtWork' /\ MarketOrderHasOwner'
  BY TypeStep DEF OwnerInv
<1>1. CASE UNCHANGED vars
  BY <1>1, OwnerStays DEF vars, Owed
<1>2. ASSUME NEW w \in Workers, Crash(w) PROVE OwnersAtWork' /\ MarketOrderHasOwner'
  <2>1. crashes' = crashes + 1 /\ crashes \in Nat /\ call' = [call EXCEPT ![w] = Idle]
    BY <1>2 DEF Crash, OwnerInv, TypeInv, TypeOK
  <2>2. OwnersAtWork'
    BY <2>1, PlainCalls DEF OwnerInv, OwnersAtWork, TypeInv, TypeOK
  <2> QED BY <2>1, <2>2 DEF MarketOrderHasOwner
<1>3. DOMAIN status = Orders
  BY DEF OwnerInv, TypeInv, TypeOK
<1>4. ASSUME NEW o \in Orders, Cancel(o) PROVE OwnersAtWork' /\ MarketOrderHasOwner'
  <2>1. /\ call' = call /\ crashes' = crashes /\ order' = order
        /\ status' = [status EXCEPT ![o] = "CANCELLED"]
    BY <1>4 DEF Cancel
  <2>2. \A q \in Orders : Owed(q)' => Owed(q)
    BY <1>3, <2>1 DEF Owed, Active
  <2> QED BY <2>1, <2>2, OwnerStays
<1>5. ASSUME NEW a \in Deposits, Deposit(a) PROVE OwnersAtWork' /\ MarketOrderHasOwner'
  BY <1>5, OwnerStays DEF Deposit, rows, Owed
<1>6. CASE ResetCurrentState
  <2>1. /\ call' = call /\ crashes' = crashes /\ order' = order
        /\ \A q \in Orders : status'[q] \in Active => status'[q] = status[q]
    BY <1>6 DEF ResetCurrentState, Active
  <2>2. \A q \in Orders : Owed(q)' => Owed(q)
    BY <2>1 DEF Owed
  <2> QED BY <2>1, <2>2, OwnerStays
<1>7. ASSUME NEW w \in Workers, Progress(w) PROVE OwnersAtWork' /\ MarketOrderHasOwner'
  BY <1>7, OwnerCalls, OwnerCreate, OwnerActivate, OwnerEnds DEF Progress
<1>8. ASSUME NEW w \in Workers,
             \/ \E k \in Keys, r \in Requests : SubmitOrder(w, k, r)
             \/ \E b \in Books, k \in ExitKeys : SquareOffPosition(w, b, k)
             \/ \E o \in Orders : BeginExecute(w, o)
      PROVE  OwnersAtWork' /\ MarketOrderHasOwner'
  BY <1>8, OwnerCalls, OwnerSquareOff
<1>9. CASE Next
  BY <1>2, <1>4, <1>5, <1>6, <1>7, <1>8, <1>9 DEF Next
<1> QED BY <1>1, <1>9

(* As long as no call stops half-way, the call that created an active      *)
(* market order is there to execute or reject it.                          *)
THEOREM MarketOrdersHaveOwners == Spec => []MarketOrderHasOwner
<1>1. Init => OwnerInv
  BY TypeInit, PlainCalls DEF Init, OwnerInv, OwnersAtWork, MarketOrderHasOwner, Active
<1>2. OwnerInv => MarketOrderHasOwner
  BY DEF OwnerInv
<1> QED BY <1>1, <1>2, OwnerStep, PTL DEF Spec

-----------------------------------------------------------------------------
(* The engine implements the ledger of OrderLedger.                         *)

(* An empty account is an empty ledger. *)
LEMMA LedgerStarts == Init => Ledger!Init
<1> SUFFICES ASSUME Init PROVE Ledger!Init
  OBVIOUS
<1>1. OrderPhase = [o \in Orders |-> "none"]
  <2>1. Phase("NONE") = "none"
    BY DEF Phase, Active
  <2> QED BY <2>1 DEF Init, OrderPhase
<1>2. OrderTicket \in [Orders -> [book : Books, side : Sides, qty : {0}]]
  BY DEF Init, OrderTicket, NoOrder, OrderRow, NoRequest, Books, Sides
<1>3. Holding = [b \in Books |-> 0]
  BY DEF Init, Holding, ClosedPosition
<1> QED BY <1>1, <1>2, <1>3 DEF Ledger!Init, Init, Ledger!Books, Ledger!MarginBooks,
        Ledger!Sides, Books, MarginBooks, Sides

(* Storing an order places it. *)
LEMMA InsertPlaces ==
  ASSUME HistoryInv, NEW o \in Orders, NEW st, NEW row, Insert(o, st, row)
  PROVE  Ledger!Place(o)
<1>1. /\ status[o] = "NONE" /\ st \in Active /\ row \in OrderRows /\ row.qty > 0
      /\ status' = [status EXCEPT ![o] = st] /\ order' = [order EXCEPT ![o] = row]
      /\ UNCHANGED <<cash, position>>
  BY DEF Insert
<1>2. DOMAIN status = Orders /\ DOMAIN order = Orders
  BY DEF HistoryInv, TypeInv, TypeOK
<1>3. OrderPhase[o] = "none" /\ OrderPhase' = [OrderPhase EXCEPT ![o] = "open"]
  BY <1>1, <1>2 DEF OrderPhase, Phase, Active
<1>4. OrderTicket'[o] = [book |-> row.book, side |-> row.side, qty |-> row.qty]
  BY <1>1, <1>2 DEF OrderTicket
<1>5. OrderTicket' = [OrderTicket EXCEPT ![o] = OrderTicket'[o]]
  BY <1>1, <1>2, <1>4 DEF OrderTicket
<1>6. OrderTicket'[o] \in Ledger!Tickets
  BY <1>1, <1>4 DEF OrderRows, Ledger!Tickets, Ledger!Books, Ledger!Sides, Ledger!MarginBooks,
     Books, Sides, MarginBooks
<1>7. Holding' = Holding /\ cash' = cash
  BY <1>1 DEF Holding
<1> QED BY <1>3, <1>5, <1>6, <1>7 DEF Ledger!Place

(* A fill is of at least one unit: an order asks for some, and a square-off *)
(* without a position left to trim it to is not filled.                     *)
LEMMA FillsSome ==
  ASSUME HistoryInv, NEW o, NEW price, NEW new, Fill(o, price, new)
  PROVE  FilledQty(o) \in 1..order[o].qty
<1> DEFINE p == position[order[o].book]
<1>1. /\ o \in Orders /\ status[o] \in Active /\ order[o].book \in Books
      /\ FilledQty(o) \in Nat /\ FilledQty(o) <= order[o].qty /\ ~ Obsolete(o)
  BY DEF Fill
<1>2. order[o].qty \in Nat \ {0} /\ order[o].book \in Books /\ p.qty \in Int
  BY <1>1 DEF HistoryInv, OrdersSane, TypeInv, TypeOK, OrderRows, PositionRows
<1>3. CASE /\ order[o].reason = "SQUARE_OFF"
           /\ order[o].book \in MarginBooks \/ order[o].side = "SELL"
  <2>1. FilledQty(o) = Smaller(order[o].qty, Magnitude(p.qty))
    BY <1>3 DEF FilledQty
  <2>2. p.qty # 0
    BY <1>1, <1>2, <1>3 DEF Obsolete, NothingToClose, MarginBooks
  <2> HIDE DEF p
  <2>3. Magnitude(p.qty) \in Nat \ {0}
    BY <1>2, <2>2 DEF Magnitude
  <2> QED BY <1>1, <1>2, <2>1, <2>3 DEF Smaller
<1>4. CASE ~ (/\ order[o].reason = "SQUARE_OFF"
              /\ order[o].book \in MarginBooks \/ order[o].side = "SELL")
  BY <1>2, <1>4 DEF FilledQty
<1> QED BY <1>3, <1>4

(* Shares are paid for when bought and paid out when sold. *)
LEMMA FillPaysShares ==
  ASSUME HistoryInv, DeliveryNeverShort, NEW w \in Workers,
         SettleDelivery(w) \/ SettleMargin(w),
         order[call[w].order].book = "DELIVERY"
  PROVE  IF order[call[w].order].side = "BUY" THEN cash' < cash ELSE cash' > cash
<1> DEFINE total == FilledQty(call[w].order)
                      * FillPrice(order[call[w].order], call[w].price)
<1>1. SettleDelivery(w)
  BY DEF SettleMargin, MarginBooks
<1>2. total \in Nat \ {0} /\ cash' = cash - Delta(order[call[w].order].side, total)
  BY <1>1, DeliveryMoves
<1>3. cash \in Int
  BY DEF HistoryInv, TypeInv, TypeOK
<1> HIDE DEF total
<1> QED BY <1>2, <1>3 DEF Delta

(* A settlement fills its order in the ledger. *)
LEMMA SettlementFills ==
  ASSUME LedgerInv, LedgerInv', FundsCovered', NEW w \in Workers,
         SettleDelivery(w) \/ SettleMargin(w),
         NEW o, o = call[w].order, NEW price, NEW new, Fill(o, price, new)
  PROVE  Ledger!Fill(o)
<1> DEFINE q == FilledQty(o)
<1>0. HistoryInv /\ DeliveryNeverShort /\ DeliveryNeverShort' /\ TypeInv'
  BY DEF LedgerInv, HistoryInv
<1>1. /\ o \in Orders /\ status[o] \in Active /\ order[o].book \in Books
      /\ new.qty = position[order[o].book].qty + Delta(order[o].side, q)
      /\ position' = [position EXCEPT ![order[o].book] = new]
      /\ order' = [order EXCEPT ![o].qty = q]
      /\ status' = [status EXCEPT ![o] = "EXECUTED"]
  BY DEF Fill, TransitionQty
<1>2. /\ DOMAIN status = Orders /\ DOMAIN order = Orders /\ DOMAIN position = Books
      /\ \A r \in Orders : order[r] \in OrderRows
  BY <1>0 DEF HistoryInv, TypeInv, TypeOK
<1>3. q \in 1..order[o].qty
  BY <1>0, FillsSome
<1> HIDE DEF q
<1>4. OrderPhase[o] = "open" /\ OrderPhase' = [OrderPhase EXCEPT ![o] = "filled"]
  BY <1>1, <1>2 DEF OrderPhase, Phase, Active
<1>5. /\ OrderTicket[o] =
           [book |-> order[o].book, side |-> order[o].side, qty |-> order[o].qty]
      /\ OrderTicket'[o].qty = q /\ OrderTicket' = [OrderTicket EXCEPT ![o].qty = q]
  <2>1. /\ \A r \in Orders : /\ order'[r].book = order[r].book /\ order'[r].side = order[r].side
                            /\ order'[r].qty = IF r = o THEN q ELSE order[r].qty
    BY <1>1, <1>2 DEF OrderRows
  <2>2. OrderTicket' = [r \in Orders |-> [OrderTicket[r] EXCEPT !.qty =
                                            IF r = o THEN q ELSE order[r].qty]]
    BY <2>1 DEF OrderTicket
  <2>3. OrderTicket[o] =
          [book |-> order[o].book, side |-> order[o].side, qty |-> order[o].qty]
    BY <1>1 DEF OrderTicket
  <2>4. OrderTicket' = [OrderTicket EXCEPT ![o].qty = q]
    <3>1. \A r \in Orders : r # o =>
            [OrderTicket[r] EXCEPT !.qty = order[r].qty] = OrderTicket[r]
      BY DEF OrderTicket
    <3>2. OrderTicket = [r \in Orders |-> OrderTicket[r]]
      BY DEF OrderTicket
    <3> QED BY <1>1, <2>2, <3>1, <3>2
  <2> QED BY <1>1, <2>2, <2>3, <2>4
<1>6. Holding' =
        [Holding EXCEPT ![OrderTicket[o].book] = @ + Ledger!Delta(OrderTicket[o].side, q)]
  BY <1>1, <1>2, <1>5 DEF Holding, Ledger!Delta, Delta
<1>7. Holding'["DELIVERY"] >= 0
  BY <1>0 DEF Holding, DeliveryNeverShort, Books
<1>8. cash' >= 0
  BY <1>0 DEF FundsCovered, TypeInv, TypeOK
<1>9. order[o].book = "DELIVERY" =>
        IF order[o].side = "BUY" THEN cash' < cash ELSE cash' > cash
  BY <1>0, FillPaysShares
<1>10. Ledger!Paid(OrderTicket[o])
  BY <1>5, <1>8, <1>9 DEF Ledger!Paid
<1>11. q \in 1..OrderTicket[o].qty
  BY <1>3, <1>5
<1> QED BY <1>4, <1>5, <1>6, <1>7, <1>10, <1>11 DEF Ledger!Fill

(* What moves a status without a fill drops an order, or is not seen. *)
LEMMA MoveDrops ==
  ASSUME HistoryInv, Move
  PROVE  \/ \E o \in Orders : Ledger!Drop(o)
         \/ UNCHANGED <<OrderPhase, OrderTicket, Holding, cash>>
<1>1. /\ \A q \in Orders : status'[q] # status[q] =>
           status[q] \in Active /\ status'[q] \in {"OPEN", "CANCELLED", "REJECTED"}
      /\ \A o, q \in Orders : status'[o] # status[o] /\ status'[q] # status[q] => o = q
      /\ UNCHANGED <<cash, OrderTicket, Holding>>
  BY DEF Move, OrderTicket, Holding
<1>2. ASSUME NEW o \in Orders, status'[o] # status[o], status'[o] # "OPEN"
      PROVE  Ledger!Drop(o)
  <2>1. \A q \in Orders : q # o => status'[q] = status[q]
    BY <1>1, <1>2
  <2>2. Phase(status[o]) = "open" /\ Phase(status'[o]) = "dropped"
    BY <1>1, <1>2 DEF Phase, Active
  <2>3. OrderPhase[o] = "open" /\ OrderPhase' = [OrderPhase EXCEPT ![o] = "dropped"]
    BY <2>1, <2>2 DEF OrderPhase
  <2> QED BY <1>1, <2>3 DEF Ledger!Drop
<1>3. CASE \A o \in Orders : status'[o] = status[o] \/ status'[o] = "OPEN"
  <2>1. \A o \in Orders : Phase(status'[o]) = Phase(status[o])
    BY <1>1, <1>3 DEF Phase, Active
  <2>2. OrderPhase' = OrderPhase
    BY <2>1 DEF OrderPhase
  <2> QED BY <1>1, <2>2
<1> QED BY <1>2, <1>3

(* A reset drops the orders its UPDATE lists and starts over. *)
LEMMA ResetResets ==
  ASSUME HistoryInv, ResetCurrentState
  PROVE  Ledger!Reset
<1>1. /\ status' = [o \in Orders |-> IF o \in OpenAtReset THEN "CANCELLED" ELSE status[o]]
      /\ cash' = InitialCash /\ order' = order
      /\ position' = [b \in Books |-> ClosedPosition(position[b].rev)]
  BY DEF ResetCurrentState
<1>2. \A o \in OpenAtReset : Phase(status[o]) = "open"
  BY DEF OpenAtReset, Phase, Active
<1>3. OpenAtReset \in SUBSET {o \in Orders : OrderPhase[o] = "open"}
  BY <1>2 DEF OpenAtReset, OrderPhase
<1>4. Phase("CANCELLED") = "dropped"
  BY DEF Phase, Active
<1>5. OrderPhase' =
        [o \in Orders |-> IF o \in OpenAtReset THEN "dropped" ELSE OrderPhase[o]]
  BY <1>1, <1>4 DEF OrderPhase
<1>6. Holding' = [b \in Ledger!Books |-> 0]
  BY <1>1 DEF Holding, ClosedPosition, Books, MarginBooks, Ledger!Books, Ledger!MarginBooks
<1>7. OrderTicket' = OrderTicket
  BY <1>1 DEF OrderTicket
<1> QED BY <1>1, <1>3, <1>5, <1>6, <1>7 DEF Ledger!Reset

(* Every step of the engine is a step of the ledger, or is not seen. *)
LEMMA LedgerSteps ==
  ASSUME LedgerInv, LedgerInv', FundsCovered', [Next]_vars
  PROVE  [Ledger!Next]_<<OrderPhase, OrderTicket, Holding, cash>>
<1>0. HistoryInv /\ TypeInv
  BY DEF LedgerInv, HistoryInv
<1>1. ASSUME NEW o \in Orders, NEW st, NEW row, Insert(o, st, row) PROVE Ledger!Next
  BY <1>0, <1>1, InsertPlaces DEF Ledger!Next
<1>2. ASSUME NEW w \in Workers, SettleDelivery(w) \/ SettleMargin(w),
             Fill(call[w].order, FillPrice(order[call[w].order], call[w].price),
                  position'[order[call[w].order].book])
      PROVE  Ledger!Next
  <2>1. call[w].order \in Orders
    BY <1>2 DEF Fill
  <2> QED BY <1>2, <2>1, SettlementFills DEF Ledger!Next
<1>3. ASSUME NEW a \in Deposits, Deposit(a) PROVE Ledger!Next
  <2>1. a \in Nat \ {0} /\ cash \in Int
    BY <1>0, EngineAssumption DEF TypeInv, TypeOK
  <2>2. cash' > cash /\ UNCHANGED <<OrderPhase, OrderTicket, Holding>>
    BY <1>3, <2>1 DEF Deposit, rows, OrderPhase, OrderTicket, Holding
  <2> QED BY <2>2 DEF Ledger!Next, Ledger!Deposit
<1>4. CASE ResetCurrentState
  BY <1>0, <1>4, ResetResets DEF Ledger!Next
<1>5. CASE Move
  BY <1>0, <1>5, MoveDrops DEF Ledger!Next
<1> QED BY <1>0, <1>1, <1>2, <1>3, <1>4, <1>5, StepKinds

(* However calls race, retry and crash, the account is a ledger of orders   *)
(* that are placed once and then filled once or dropped for good, and only  *)
(* a fill that is paid for moves a holding.                                 *)
THEOREM EngineKeepsLedger == Spec => KeepsLedger
<1>1. LedgerInv /\ LedgerInv' /\ FundsCovered' /\ [Next]_vars
        => [Ledger!Next]_<<OrderPhase, OrderTicket, Holding, cash>>
  BY LedgerSteps
<1> QED
  BY <1>1, LedgerStarts, LedgerInvariant, FundsAlwaysCovered, PTL
  DEF Spec, KeepsLedger, Ledger!Spec
=============================================================================
