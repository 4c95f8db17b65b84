-------------------------- MODULE FNOExpiry_proofs --------------------------
(***************************************************************************)
(* Theorems about the end of a contract, for every number of orders and    *)
(* calls, every set of requests, quotes and closing prices.                *)
(*                                                                         *)
(* Most steps under the clock are steps of the engine and keep what those  *)
(* keep.  Four are not: a settlement pays out, a call leaves its exit      *)
(* unsettled, a row is marked, the process stops (ExpiryKinds).            *)
(***************************************************************************)
EXTENDS FNOExpiry, OrderTrades_proofs

-----------------------------------------------------------------------------
(* The invariant.                                                          *)

PositionRefs == [book : Contracts, epoch : Nat]

(* The pass looks at rows of contracts, and settles at a price it has. *)
PassOK ==
  /\ pass \in [pc : {"rest", "next", "settle", "mark", "record"}, todo : SUBSET PositionRefs,
               row : PositionRefs, price : Nat \cup {NoPrice}]
  /\ pass.price # NoPrice <=> pass.pc = "settle"

(* A call holds a price of an expired contract whose exit it executes. *)
HoldsExit(w) ==
  LET o == call[w].order
  IN  /\ expired /\ quoted[w] \in Nat
      /\ call[w].pc = "execute"
      /\ order[o].exit.key # NoKey /\ order[o].book \in Contracts

QuotesOK ==
  /\ quoted \in [Workers -> Nat \cup {NoPrice}]
  /\ \A w \in Workers : quoted[w] # NoPrice => HoldsExit(w)

RecordsOK ==
  /\ expired \in BOOLEAN
  /\ settlement \in [Contracts -> {"NONE", "PENDING", "COMPLETED"}]
  /\ event \in [Contracts -> {"NONE", "PENDING", "RESOLVED"}]

ExpiryInv == TypeInv /\ RecordsOK /\ PassOK /\ QuotesOK

(* The invariant holds what the runs check of types. *)
LEMMA ExpiryInvMeans == ExpiryInv => ExpiryTypeOK
BY DEF ExpiryInv, TypeInv, RecordsOK, PassOK, QuotesOK, HoldsExit, ExpiryTypeOK

(* Before the expiry nobody settles anything. *)
LEMMA ExpiryStarts == ExpiryInit => ExpiryInv
<1> SUFFICES ASSUME ExpiryInit PROVE ExpiryInv
  OBVIOUS
<1>1. TypeInv
  BY TypeInit DEF ExpiryInit
<1>2. PassOK
  BY DEF ExpiryInit, PassOK, Resting, At, NoRow, PositionRefs, Contracts
<1> QED BY <1>1, <1>2 DEF ExpiryInit, ExpiryInv, RecordsOK, QuotesOK

(* Closing prices are amounts. *)
LEMMA ExpiryPricesNat ==
  ASSUME NEW b
  PROVE  ExpiryPrices(b) \subseteq Nat
<1>1. ASSUME NEW u \in ClosingPrices PROVE u \in Nat /\ Intrinsic(u) \in Nat
  BY ExpiryAssumption DEF Intrinsic
<1> QED BY <1>1 DEF ExpiryPrices

(* A contract has a book, and margin. *)
LEMMA ContractBooks == Contracts \subseteq Books /\ Contracts \subseteq MarginBooks
BY DEF Contracts, Books, MarginBooks

-----------------------------------------------------------------------------
(* The four steps that are none of the engine's.                           *)

(* Order o, new or an exit that may still run, closes b's position.        *)
Pays(b, price, o, row) ==
  /\ b \in Contracts /\ price \in Nat /\ o \in Orders
  /\ PayOut(b, price, o, row)
  /\ position[b].qty # 0
  /\ row \in OrderRows
  /\ row.book = b /\ row.side = ClosingSide(b) /\ row.qty = Magnitude(position[b].qty)
  /\ \/ status[o] = "NONE" /\ row.exit = NoExit /\ row.key = NoKey
     \/ /\ Executable(o) /\ ~ StaleExit(o) /\ reserved[o] = 0
        /\ order[o].exit.key # NoKey /\ order[o].book = b
        /\ row.exit = order[o].exit /\ row.key = order[o].key
  /\ \/ call' = call
     \/ \E w \in Workers : call' = [call EXCEPT ![w] = Idle]

(* A call ends without a payment; its exit is cancelled or stays. *)
Leaves(w) ==
  LET o == call[w].order IN
  /\ w \in Workers /\ HoldsExit(w)
  /\ \/ status' = status
     \/ Executable(o) /\ status' = [status EXCEPT ![o] = "CANCELLED"]
  /\ call' = [call EXCEPT ![w] = Idle]
  /\ UNCHANGED <<wallet, reserved, order, position, trades, history, crashes>>

(* A contract's row is saved with another settlement state. *)
Marked(b) ==
  /\ b \in Contracts
  /\ position' = [position EXCEPT ![b].rev = Touched(b)]
  /\ UNCHANGED <<wallet, rows, trades, history, call, crashes>>

(* The process stops, and every call with it. *)
AllStop ==
  /\ crashes' = crashes + 1
  /\ call' = [w \in Workers |-> Idle]
  /\ UNCHANGED account

ExpiryKinds ==
  \/ [Next]_vars
  \/ \E b, price, o, row : Pays(b, price, o, row)
  \/ \E w \in Workers : Leaves(w)
  \/ \E b \in Contracts : Marked(b)
  \/ AllStop

(* What SettleExit does to an exit whose price the call holds. *)
LEMMA SettleExitKinds ==
  ASSUME ExpiryInv, NEW w \in Workers, SettleExit(w)
  PROVE  \/ \E b, price, o, row : Pays(b, price, o, row)
         \/ Leaves(w)
<1> DEFINE o == call[w].order
           b == order[o].book
           closing == [order[o] EXCEPT !.side = ClosingSide(b), !.qty = Magnitude(position[b].qty)]
<1>1. /\ quoted[w] # NoPrice /\ HoldsExit(w)
      /\ call' = [call EXCEPT ![w] = Idle]
  BY DEF SettleExit, ExpiryInv, QuotesOK
<1>2. /\ o \in Orders /\ order[o] \in OrderRows /\ b \in Contracts /\ quoted[w] \in Nat
      /\ order[o].exit.key # NoKey /\ DOMAIN status = Orders
  BY <1>1 DEF HoldsExit, ExpiryInv, TypeInv, TypeOK, CallOK
<1>3. status = [status EXCEPT ![o] = status[o]]
  BY <1>2 DEF ExpiryInv, TypeInv, TypeOK
<1> DEFINE Left(outcome) ==
             /\ status' = [status EXCEPT ![o] = outcome]
             /\ UNCHANGED <<wallet, reserved, order, position, trades, history, crashes, records>>
           Pay == /\ ~ Settled(b) /\ Executable(o) /\ ~ StaleExit(o) /\ reserved[o] = 0
                  /\ PayOut(b, quoted[w], o, closing)
<1>4. \/ Left(status[o])
      \/ Executable(o) /\ Left("CANCELLED")
      \/ Pay
  BY DEF SettleExit, Executable
<1>5. CASE Left(status[o]) \/ (Executable(o) /\ Left("CANCELLED"))
  BY <1>1, <1>2, <1>3, <1>5 DEF Leaves
<1>6. CASE Pay
  <2>1. position[b].qty \in Int /\ position[b].qty # 0
    BY <1>2, <1>6, ContractBooks DEF Settled, ExpiryInv, TypeInv, TypeOK, PositionRows
  <2>2. Magnitude(position[b].qty) \in Nat /\ ClosingSide(b) \in Sides
    BY <2>1 DEF Magnitude, ClosingSide, Sides
  <2>3. /\ closing \in OrderRows /\ closing.book = b /\ closing.side = ClosingSide(b)
        /\ closing.qty = Magnitude(position[b].qty)
        /\ closing.exit = order[o].exit /\ closing.key = order[o].key
    BY <1>2, <2>2 DEF OrderRows
  <2> HIDE DEF closing
  <2>4. Pays(b, quoted[w], o, closing)
    BY <1>1, <1>2, <1>6, <2>1, <2>3 DEF Pays
  <2> QED BY <2>4
<1> QED BY <1>4, <1>5, <1>6

(* What the scheduler's settlement does to the row at hand. *)
LEMMA SettlePositionKinds ==
  ASSUME ExpiryInv, SettlePosition
  PROVE  \/ \E b, price, o, row : Pays(b, price, o, row)
         \/ UNCHANGED engine
<1> DEFINE b == pass.row.book
           r == [book |-> b, side |-> ClosingSide(b), type |-> "MARKET",
                 qty |-> Magnitude(position[b].qty), price |-> 0, trigger |-> 0,
                 reason |-> "NONE"]
           row == OrderRow(r, NoKey, NoExit)
<1>1. /\ b \in Contracts /\ pass.price \in Nat
  BY DEF SettlePosition, ExpiryInv, PassOK, PositionRefs
<1>2. \/ UNCHANGED <<engine, records>>
      \/ /\ ~ Settled(b) /\ call' = call
         /\ \E o \in Orders : NextOrder(o) /\ PayOut(b, pass.price, o, row)
  BY DEF SettlePosition
<1>3. CASE /\ ~ Settled(b) /\ call' = call
           /\ \E o \in Orders : NextOrder(o) /\ PayOut(b, pass.price, o, row)
  <2>1. PICK o \in Orders : NextOrder(o) /\ PayOut(b, pass.price, o, row)
    BY <1>3
  <2>2. position[b].qty \in Int /\ position[b].qty # 0
    BY <1>1, <1>3, ContractBooks DEF Settled, ExpiryInv, TypeInv, TypeOK, PositionRows
  <2>3. r \in [book : Books, side : Sides, type : Types, qty : Nat, price : Nat, trigger : Nat,
               reason : {"NONE", "SQUARE_OFF"}]
    BY <1>1, <2>2, ContractBooks DEF Magnitude, ClosingSide, Sides, Types
  <2>4. /\ row.book = b /\ row.side = ClosingSide(b) /\ row.qty = Magnitude(position[b].qty)
        /\ row.exit = NoExit /\ row.key = NoKey
    BY DEF OrderRow
  <2>5. row \in OrderRows
    <3> HIDE DEF r
    <3> QED BY <2>3, NoExitType, OrderRowType
  <2>6. status[o] = "NONE"
    BY <2>1 DEF NextOrder
  <2> HIDE DEF row
  <2>7. Pays(b, pass.price, o, row)
    BY <1>1, <1>3, <2>1, <2>2, <2>4, <2>5, <2>6 DEF Pays
  <2> QED BY <2>7
<1> QED BY <1>2, <1>3

(* Every step under the clock is of one of the kinds. *)
LEMMA ExpiryStepKinds ==
  ASSUME ExpiryInv, [ExpiryNext]_expiryVars
  PROVE  ExpiryKinds
<1> USE DEF ExpiryKinds
<1>1. CASE UNCHANGED engine
  BY <1>1 DEF engine
<1>2. CASE Expire \/ BeginPass \/ EndPass \/ FetchPrice \/ FailToFetch \/ RecordRisk
  BY <1>1, <1>2 DEF Expire, BeginPass, EndPass, FetchPrice, FailToFetch, TakeRow, RecordRisk
<1>3. CASE ClientStep \/ Reset
  BY <1>3 DEF ClientStep, Reset, Next
<1>4. ASSUME NEW w \in Workers, Request(w) PROVE Next
  BY <1>4, ContractBooks DEF Request, Next
<1>5. ASSUME NEW w \in Workers, HandlerStep(w) PROVE Next
  BY <1>5 DEF HandlerStep, Progress, Next
<1>6. ASSUME NEW w \in Workers, FetchExpiryPrice(w) PROVE UNCHANGED engine
  BY <1>6 DEF FetchExpiryPrice
<1>7. CASE MarkPosition
  <2>1. pass.row.book \in Contracts
    BY DEF ExpiryInv, PassOK, PositionRefs
  <2>2. Marked(pass.row.book) \/ UNCHANGED engine
    BY <1>7, <2>1 DEF MarkPosition, Marked, engine, vars, wallet, rows, history
  <2> QED BY <1>1, <2>1, <2>2
<1>8. CASE Stop
  BY <1>8 DEF Stop, AllStop
<1>9. CASE SettlePosition
  BY <1>1, <1>9, SettlePositionKinds
<1>10. ASSUME NEW w \in Workers, SettleExit(w) PROVE ExpiryKinds
  BY <1>10, SettleExitKinds
<1>11. CASE ExpiryNext
  <2>1. CASE Expire \/ ClientStep \/ Reset \/ Stop \/ BeginPass \/ PassStep
    BY <1>2, <1>3, <1>7, <1>8, <1>9, <2>1 DEF PassStep
  <2>2. CASE \E w \in Workers :
               Request(w) \/ HandlerStep(w) \/ FetchExpiryPrice(w) \/ SettleExit(w)
    BY <1>1, <1>4, <1>5, <1>6, <1>10, <2>2
  <2> QED BY <1>11, <2>1, <2>2 DEF ExpiryNext
<1> QED BY <1>1, <1>11 DEF expiryVars

-----------------------------------------------------------------------------
(* Types.                                                                  *)

(* The amounts of a payment. *)
LEMMA PaymentAmounts ==
  ASSUME TypeInv, NEW b \in Books, NEW price \in Nat
  PROVE  /\ ExpiryPnl(b, price) \in Int /\ ExpiryCash(b, price) \in Int
         /\ Magnitude(position[b].qty) \in Nat
         /\ Magnitude(position[b].qty) * price \in Nat
         /\ position[b] \in PositionRows
<1> DEFINE p == position[b]
           m == Magnitude(p.qty)
<1>1. p \in PositionRows
  BY DEF TypeInv, TypeOK
<1>2. p.qty \in Int /\ p.avg \in Nat /\ m \in Nat
  BY <1>1 DEF PositionRows, Magnitude
<1>3. m * price \in Nat /\ m * p.avg \in Nat
  BY <1>2, TimesNat
<1>4. p.qty * price \in Int
  BY <1>2
<1>5. ExpiryPnl(b, price) = IF p.qty < 0 THEN -(m * price - m * p.avg) ELSE m * price - m * p.avg
  BY DEF ExpiryPnl
<1> HIDE DEF m
<1>6. ExpiryPnl(b, price) \in Int
  BY <1>3, <1>5
<1> QED BY <1>1, <1>2, <1>3, <1>4, <1>6 DEF ExpiryCash, m

(* A payment executes its order, and cancels others that could run. *)
CancelledElse(o) ==
  \A q \in Orders : q # o =>
    \/ status'[q] = status[q]
    \/ status[q] \in {"PENDING", "OPEN"} /\ status'[q] = "CANCELLED" /\ reserved[q] = 0

(* What a payment writes in the orders and trades ... *)
OrderPaid(price, o, row) ==
  /\ o \in Orders /\ order' = [order EXCEPT ![o] = row] /\ order'[o] = row
  /\ status'[o] = "EXECUTED" /\ status[o] \in {"NONE", "PENDING", "OPEN"}
  /\ CancelledElse(o) /\ status' \in [Orders -> Statuses]
  /\ trades' = Append(trades, [order |-> o, qty |-> row.qty, price |-> price])
  /\ UNCHANGED <<reserved, epoch, resetAt, capital, crashes>>

(* ... and in the wallet and the positions. *)
PositionPaid(b, price) ==
  /\ b \in Contracts /\ b \in Books /\ b \in MarginBooks
  /\ cash' = cash + ExpiryCash(b, price) /\ blocked' = blocked - position[b].margin
  /\ \A c \in Books : c # b => position'[c] = position[c]
  /\ position' = [position EXCEPT ![b] = position'[b]]
  /\ position'[b] \in PositionRows
  /\ position'[b].qty = 0 /\ position'[b].cost = 0 /\ position'[b].margin = 0
  /\ position'[b].rev = position[b].rev + 1
  /\ position'[b].realized = position[b].realized + ExpiryPnl(b, price)

(* A payment writes these rows. *)
LEMMA PaymentWrites ==
  ASSUME TypeInv, NEW b, NEW price, NEW o, NEW row, Pays(b, price, o, row)
  PROVE  OrderPaid(price, o, row) /\ PositionPaid(b, price)
<1> DEFINE gain == ExpiryPnl(b, price)
           new == [exists |-> TRUE, qty |-> 0, avg |-> 0, cost |-> 0, margin |-> 0,
                   realized |-> position[b].realized + gain, rev |-> position[b].rev + 1]
<1>1. /\ b \in Contracts /\ o \in Orders /\ PayOut(b, price, o, row)
      /\ status[o] \in {"NONE", "PENDING", "OPEN"}
  BY DEF Pays, Executable
<1>2. /\ DOMAIN status = Orders /\ DOMAIN order = Orders /\ DOMAIN position = Books
      /\ \A q \in Orders : status[q] \in Statuses
  BY DEF TypeInv, TypeOK
<1>3. b \in Books /\ b \in MarginBooks
  BY <1>1, ContractBooks
<1>4. /\ cash' = cash + ExpiryCash(b, price) /\ blocked' = blocked - position[b].margin
      /\ UNCHANGED <<reserved, epoch, resetAt, capital, crashes>>
      /\ order' = [order EXCEPT ![o] = row]
      /\ trades' = Append(trades, [order |-> o, qty |-> row.qty, price |-> price])
  BY <1>1 DEF PayOut, Released, history
<1>5. status' = [q \in Orders |-> IF q = o THEN "EXECUTED"
                                 ELSE IF q \in OtherExits(b, o) THEN "CANCELLED"
                                 ELSE status[q]]
  BY <1>1 DEF PayOut
<1>6. \A q \in OtherExits(b, o) : reserved[q] = 0 /\ status[q] \in {"PENDING", "OPEN"}
  BY DEF OtherExits
<1>7. /\ status'[o] = "EXECUTED" /\ status' \in [Orders -> Statuses]
      /\ CancelledElse(o)
  BY <1>1, <1>2, <1>5, <1>6 DEF Statuses, Terminal, CancelledElse
<1>8. position' = [position EXCEPT ![b] = new]
  BY <1>1 DEF PayOut
<1>9. position'[b] = new /\ \A c \in Books : c # b => position'[c] = position[c]
  BY <1>2, <1>3, <1>8
<1>10. order'[o] = row
  BY <1>1, <1>2, <1>4
<1>11. price \in Nat
  BY DEF Pays
<1>12. position[b] \in PositionRows /\ ExpiryPnl(b, price) \in Int
  BY <1>3, <1>11, PaymentAmounts
<1>13. new \in PositionRows
  <2>1. position[b].realized \in Int /\ position[b].rev \in Nat /\ gain \in Int
    BY <1>12 DEF PositionRows
  <2> HIDE DEF gain
  <2> QED BY <2>1 DEF PositionRows
<1>14. /\ new.qty = 0 /\ new.cost = 0 /\ new.margin = 0 /\ new.rev = position[b].rev + 1
       /\ new.realized = position[b].realized + gain
  OBVIOUS
<1>15. OrderPaid(price, o, row)
  BY <1>1, <1>4, <1>7, <1>10 DEF OrderPaid
<1> HIDE DEF new
<1>16. PositionPaid(b, price)
  BY <1>1, <1>3, <1>4, <1>8, <1>9, <1>13, <1>14 DEF PositionPaid
<1> QED BY <1>15, <1>16

(* Calls that stop, or have stopped, stay sound. *)
LEMMA CallsEnd ==
  ASSUME TypeInv, \A q \in Orders : status[q] # "NONE" => status'[q] # "NONE",
         \/ call' = call
         \/ \E w \in Workers : call' = [call EXCEPT ![w] = Idle]
         \/ call' = [w \in Workers |-> Idle]
  PROVE  call' \in [Workers -> Calls] /\ CallOK'
<1> USE DEF TypeInv
<1>1. CASE call' = call
  BY <1>1 DEF TypeOK, CallOK
<1>2. CASE \E w \in Workers : call' = [call EXCEPT ![w] = Idle]
  BY <1>2, IdleSound, CallStep
<1>3. CASE call' = [w \in Workers |-> Idle]
  BY <1>3, IdleType DEF CallOK
<1> QED BY <1>1, <1>2, <1>3

(* A payment leaves a closed row of the right shape. *)
LEMMA TypePays ==
  ASSUME TypeInv, NEW b, NEW price, NEW o, NEW row, Pays(b, price, o, row)
  PROVE  TypeInv'
<1>0. OrderPaid(price, o, row) /\ PositionPaid(b, price)
  BY PaymentWrites
<1>1. /\ row \in OrderRows /\ row.qty = Magnitude(position[b].qty) /\ price \in Nat
      /\ call' = call \/ \E w \in Workers : call' = [call EXCEPT ![w] = Idle]
  BY DEF Pays
<1>2. /\ b \in Books /\ b \in MarginBooks /\ o \in Orders
      /\ cash' = cash + ExpiryCash(b, price) /\ blocked' = blocked - position[b].margin
      /\ UNCHANGED <<reserved, epoch, resetAt, capital, crashes>>
      /\ order' = [order EXCEPT ![o] = row]
      /\ status' \in [Orders -> Statuses]
  BY <1>0 DEF OrderPaid, PositionPaid
<1>3. /\ trades' = Append(trades, [order |-> o, qty |-> row.qty, price |-> price])
      /\ position' = [position EXCEPT ![b] = position'[b]]
      /\ position'[b] \in PositionRows
  BY <1>0 DEF OrderPaid, PositionPaid
<1>4. /\ ExpiryPnl(b, price) \in Int /\ ExpiryCash(b, price) \in Int
      /\ Magnitude(position[b].qty) \in Nat /\ position[b] \in PositionRows
  BY <1>1, <1>2, PaymentAmounts
<1>5. position' \in [Books -> PositionRows] /\ position'["DELIVERY"].qty >= 0
  <2>1. "DELIVERY" \in Books /\ b # "DELIVERY"
    BY <1>2 DEF Books, MarginBooks
  <2> QED BY <1>2, <1>3, <2>1 DEF TypeInv, TypeOK
<1>6. cash' \in Int /\ blocked' \in Int
  <2>1. position[b].margin \in Nat
    BY <1>4 DEF PositionRows
  <2> QED BY <1>2, <1>4, <2>1 DEF TypeInv, TypeOK
<1>7. trades' \in Seq(Trades)
  <2>1. [order |-> o, qty |-> row.qty, price |-> price] \in Trades
    BY <1>1, <1>2, <1>4 DEF Trades
  <2> QED BY <1>3, <2>1 DEF TypeInv, TypeOK
<1>8. order' \in [Orders -> OrderRows]
  BY <1>1, <1>2 DEF TypeInv, TypeOK
<1>9. \A q \in Orders : status[q] # "NONE" => status'[q] # "NONE"
  <2>1. CancelledElse(o) /\ status'[o] = "EXECUTED"
    BY PaymentWrites DEF OrderPaid
  <2> QED BY <2>1 DEF CancelledElse
<1>10. call' \in [Workers -> Calls] /\ CallOK'
  BY <1>1, <1>9, CallsEnd
<1> QED BY <1>2, <1>5, <1>6, <1>7, <1>8, <1>10 DEF TypeInv, TypeOK

(* Leaving an exit touches its status and the call. *)
LEMMA TypeLeaves ==
  ASSUME TypeInv, NEW w, Leaves(w)
  PROVE  TypeInv'
<1> DEFINE o == call[w].order
<1>1. /\ w \in Workers /\ call' = [call EXCEPT ![w] = Idle]
      /\ status' = status \/ status' = [status EXCEPT ![o] = "CANCELLED"]
      /\ UNCHANGED <<cash, blocked, reserved, order, position, trades, epoch, resetAt, capital,
                     crashes>>
  BY DEF Leaves, wallet, history
<1>2. /\ status' \in [Orders -> Statuses]
      /\ \A q \in Orders : status[q] # "NONE" => status'[q] # "NONE"
  BY <1>1 DEF TypeInv, TypeOK, Statuses, Terminal
<1>3. call' \in [Workers -> Calls] /\ CallOK'
  BY <1>1, <1>2, CallsEnd
<1> QED BY <1>1, <1>2, <1>3 DEF TypeInv, TypeOK

(* A mark changes when its row was saved, and nothing the row says. *)
LEMMA MarkedRow ==
  ASSUME TypeInv, NEW b, Marked(b)
  PROVE  /\ position' \in [Books -> PositionRows]
         /\ b \in Books
         /\ position'[b].rev = Touched(b)
         /\ \A c \in Books : c # b => position'[c] = position[c]
         /\ \A c \in Books :
              /\ position'[c].qty = position[c].qty /\ position'[c].cost = position[c].cost
              /\ position'[c].margin = position[c].margin
              /\ position'[c].realized = position[c].realized
<1>1. /\ b \in Books /\ position' = [position EXCEPT ![b].rev = Touched(b)]
  BY ContractBooks DEF Marked
<1>2. position \in [Books -> PositionRows]
  BY DEF TypeInv, TypeOK
<1>3. position[b].rev \in Nat
  BY <1>1, <1>2 DEF PositionRows
<1>4. Touched(b) \in Nat
  BY <1>3 DEF Touched
<1> HIDE DEF Touched
<1> QED BY <1>1, <1>2, <1>4 DEF PositionRows

(* Every step under the clock keeps the engine's types. *)
LEMMA ExpiryTypeStep ==
  ASSUME ExpiryInv, [ExpiryNext]_expiryVars
  PROVE  TypeInv'
<1>1. TypeInv /\ ExpiryKinds
  BY ExpiryStepKinds DEF ExpiryInv
<1>2. ASSUME NEW b, Marked(b) PROVE TypeInv'
  <2>1. /\ UNCHANGED <<cash, blocked, status, reserved, order, trades, epoch, resetAt, capital,
                       call, crashes>>
    BY <1>2 DEF Marked, wallet, rows, history
  <2>2. "DELIVERY" \in Books
    BY DEF Books
  <2> QED BY <1>1, <1>2, <2>1, <2>2, MarkedRow DEF TypeInv, TypeOK, CallOK
<1>3. CASE AllStop
  <2>1. /\ UNCHANGED <<cash, blocked, status, reserved, order, position, trades, epoch, resetAt,
                       capital>>
        /\ crashes' = crashes + 1
    BY <1>3 DEF AllStop, account, wallet, rows, history
  <2>2. call' \in [Workers -> Calls] /\ CallOK'
    BY <1>1, <1>3, <2>1, CallsEnd DEF AllStop
  <2> QED BY <1>1, <2>1, <2>2 DEF TypeInv, TypeOK
<1> QED BY <1>1, <1>2, <1>3, TypeStep, TypePays, TypeLeaves DEF ExpiryKinds

-----------------------------------------------------------------------------
(* The scheduler's pass and the prices the calls hold.                     *)

(* A stored order stays with its book and its exit. *)
ExitsKept ==
  \A o \in Orders : status[o] # "NONE" =>
    order'[o].book = order[o].book /\ order'[o].exit = order[o].exit

(* No step under the clock moves an order to another book or position. *)
LEMMA ExpiryExitsKept ==
  ASSUME ExpiryInv, [ExpiryNext]_expiryVars
  PROVE  ExitsKept
<1> USE DEF ExitsKept
<1>1. TypeInv /\ ExpiryKinds
  BY ExpiryStepKinds DEF ExpiryInv
<1>2. CASE [Next]_vars
  BY <1>1, <1>2, RowsStay DEF RowsKept
<1>3. ASSUME NEW b, NEW price, NEW o, NEW row, Pays(b, price, o, row) PROVE ExitsKept
  <2>1. OrderPaid(price, o, row)
    BY <1>1, <1>3, PaymentWrites
  <2>2. status[o] # "NONE" => row.book = order[o].book /\ row.exit = order[o].exit
    BY <1>3 DEF Pays
  <2> QED BY <1>1, <2>1, <2>2 DEF OrderPaid, TypeInv, TypeOK
<1>4. CASE (\E w \in Workers : Leaves(w)) \/ (\E b \in Contracts : Marked(b)) \/ AllStop
  <2>1. order' = order
    BY <1>4 DEF Leaves, Marked, AllStop, rows, account
  <2> QED BY <2>1
<1> QED BY <1>1, <1>2, <1>3, <1>4 DEF ExpiryKinds

(* A call that keeps its price keeps at its exit. *)
LEMMA QuotesKept ==
  ASSUME ExpiryInv, ExitsKept, expired => expired',
         quoted' \in [Workers -> Nat \cup {NoPrice}],
         \A w \in Workers :
           quoted'[w] # NoPrice => quoted'[w] = quoted[w] /\ call'[w] = call[w]
  PROVE  QuotesOK'
<1> SUFFICES ASSUME NEW w \in Workers, quoted'[w] # NoPrice PROVE HoldsExit(w)'
  BY DEF QuotesOK
<1>1. quoted'[w] = quoted[w] /\ call'[w] = call[w] /\ HoldsExit(w)
  BY DEF ExpiryInv, QuotesOK
<1>2. call[w].order \in Orders /\ status[call[w].order] # "NONE"
  BY <1>1 DEF HoldsExit, ExpiryInv, TypeInv, CallOK
<1> QED BY <1>1, <1>2 DEF HoldsExit, ExitsKept

(* A call that holds a price does not take another turn. *)
LEMMA QuotedCallsWait ==
  ASSUME ExpiryInv, NEW v \in Workers, Request(v) \/ HandlerStep(v)
  PROVE  /\ quoted[v] = NoPrice
         /\ \A w \in Workers : w # v => call'[w] = call[w]
<1>1. quoted[v] # NoPrice => /\ call[v].pc = "execute" /\ call[v] # Idle
                            /\ Ended(order[call[v].order].book)
  BY IdleType DEF ExpiryInv, QuotesOK, HoldsExit, Ended
<1>2. CASE Request(v)
  <2>1. call[v] = Idle
    BY <1>2 DEF Request, SubmitOrder, SquareOffPosition, BeginExecute
  <2>2. \/ \E k \in Keys, r \in Requests : SubmitOrder(v, k, r)
        \/ \E b \in Books, k \in ExitKeys : SquareOffPosition(v, b, k)
        \/ \E o \in Orders : BeginExecute(v, o)
    BY <1>2, ContractBooks DEF Request
  <2> QED BY <1>1, <2>1, <2>2, OneCallMoves DEF ExpiryInv
<1>3. CASE HandlerStep(v)
  <2>1. Progress(v)
    BY <1>3 DEF HandlerStep, Progress
  <2>2. CASE \/ Unavailable(v) /\ quoted[v] = NoPrice
            \/ \E ltp \in Prices : ActivateStop(v, ltp) /\ ~ Ended(order[call[v].order].book)
    BY <1>1, <2>1, <2>2, OneCallMoves DEF ExpiryInv
  <2>3. CASE CreateIntent(v) \/ JoinIntent(v) \/ RefuseOrder(v) \/ Reject(v)
    <3>1. call[v].pc \in {"create", "reject"}
      BY <2>3 DEF CreateIntent, JoinIntent, RefuseOrder, Reject
    <3> QED BY <1>1, <2>1, <3>1, OneCallMoves DEF ExpiryInv
  <2>4. CASE SettleDelivery(v) \/ SettleMargin(v) \/ CancelObsolete(v) \/ RefuseSettlement(v)
    <3>1. call[v].pc = "settle"
      BY <2>4 DEF SettleDelivery, SettleMargin, CancelObsolete, RefuseSettlement
    <3> QED BY <1>1, <2>1, <3>1, OneCallMoves DEF ExpiryInv
  <2> QED BY <1>3, <2>2, <2>3, <2>4 DEF HandlerStep
<1> QED BY <1>2, <1>3

(* What a pass does next keeps it at rows of contracts. *)
LEMMA PassMoves ==
  ASSUME ExpiryInv, BeginPass \/ PassStep
  PROVE  PassOK'
<1> USE DEF PassOK
<1>1. /\ PassOK /\ NoPrice \notin Nat /\ epoch \in Nat
  BY ExpiryAssumption DEF ExpiryInv, TypeInv, TypeOK
<1>2. CASE BeginPass
  <2>1. /\ pass = Resting
        /\ pass' = [pass EXCEPT !.pc = "next",
             !.todo = {[book |-> b, epoch |-> epoch] :
                         b \in {c \in Contracts : position[c].qty # 0 /\ ToSettle(c)}}]
    BY <1>2 DEF BeginPass
  <2>2. {[book |-> b, epoch |-> epoch] :
           b \in {c \in Contracts : position[c].qty # 0 /\ ToSettle(c)}} \subseteq PositionRefs
    BY <1>1 DEF PositionRefs
  <2> DEFINE found == {[book |-> b, epoch |-> epoch] :
                         b \in {c \in Contracts : position[c].qty # 0 /\ ToSettle(c)}}
  <2>3. found \in SUBSET PositionRefs /\ pass' = [pass EXCEPT !.pc = "next", !.todo = found]
    BY <2>1, <2>2
  <2>4. pass.price = NoPrice
    BY <2>1 DEF Resting, At
  <2> HIDE DEF found
  <2> QED BY <1>1, <2>3, <2>4
<1>3. CASE EndPass
  BY <1>3 DEF EndPass, Resting, At, NoRow, PositionRefs, Contracts
<1>4. ASSUME NEW row \in pass.todo, NEW pc, NEW price, TakeRow(row, pc, price),
             \/ pc = "settle" /\ price \in Nat
             \/ pc = "mark" /\ price = NoPrice
      PROVE  PassOK'
  BY <1>1, <1>4 DEF TakeRow, At
<1>5. CASE FetchPrice
  <2>1. PICK row \in pass.todo : \E p \in ExpiryPrices(row.book) : TakeRow(row, "settle", p)
    BY <1>5 DEF FetchPrice
  <2> QED BY <1>4, <2>1, ExpiryPricesNat
<1>6. CASE FailToFetch
  BY <1>4, <1>6 DEF FailToFetch
<1>7. CASE SettlePosition
  <2>1. \E pc \in {"next", "mark"} : pass' = At(pc, pass.todo, pass.row, NoPrice)
    BY <1>7 DEF SettlePosition
  <2> QED BY <1>1, <2>1 DEF At
<1>8. CASE MarkPosition
  BY <1>1, <1>8 DEF MarkPosition
<1>9. CASE RecordRisk
  BY <1>1, <1>9 DEF RecordRisk
<1> QED BY <1>2, <1>3, <1>5, <1>6, <1>7, <1>8, <1>9 DEF PassStep

(* A payment completes its contract and resolves its event. *)
LEMMA PaymentRecords ==
  ASSUME RecordsOK, NEW b, NEW price, NEW o, NEW row, PayOut(b, price, o, row)
  PROVE  /\ settlement' \in [Contracts -> {"NONE", "PENDING", "COMPLETED"}]
         /\ event' \in [Contracts -> {"NONE", "PENDING", "RESOLVED"}]
<1>1. /\ settlement' = [settlement EXCEPT ![b] = "COMPLETED"]
      /\ event' = [event EXCEPT ![b] = IF @ = "PENDING" THEN "RESOLVED" ELSE @]
  BY DEF PayOut
<1> QED BY <1>1 DEF RecordsOK

(* The clock runs one way, and states and events keep their values. *)
LEMMA RecordsStep ==
  ASSUME ExpiryInv, ExpiryNext
  PROVE  RecordsOK' /\ (expired => expired')
<1>1. RecordsOK
  BY DEF ExpiryInv
<1>2. CASE Expire \/ ClientStep \/ Reset \/ Stop
  BY <1>1, <1>2 DEF Expire, ClientStep, Reset, Stop, records, RecordsOK
<1>3. CASE BeginPass \/ EndPass \/ FetchPrice \/ FailToFetch
  BY <1>1, <1>3 DEF BeginPass, EndPass, FetchPrice, FailToFetch, TakeRow, records, RecordsOK
<1>4. CASE MarkPosition \/ RecordRisk
  BY <1>1, <1>4 DEF MarkPosition, RecordRisk, RecordsOK
<1>5. CASE SettlePosition
  <2>1. expired' = expired
    BY <1>5 DEF SettlePosition
  <2>2. \/ UNCHANGED records
        \/ \E o, b, price, row : PayOut(b, price, o, row)
    BY <1>5 DEF SettlePosition
  <2> QED BY <1>1, <2>1, <2>2, PaymentRecords DEF RecordsOK, records
<1>6. ASSUME NEW w \in Workers, Request(w) \/ HandlerStep(w) \/ FetchExpiryPrice(w)
      PROVE  RecordsOK' /\ (expired => expired')
  BY <1>1, <1>6 DEF Request, HandlerStep, FetchExpiryPrice, records, RecordsOK
<1>7. ASSUME NEW w \in Workers, SettleExit(w) PROVE RecordsOK' /\ (expired => expired')
  <2>1. expired' = expired
    BY <1>7 DEF SettleExit
  <2>2. \/ UNCHANGED records
        \/ \E o, b, price, row : PayOut(b, price, o, row)
    BY <1>7 DEF SettleExit
  <2> QED BY <1>1, <2>1, <2>2, PaymentRecords DEF RecordsOK, records
<1> QED BY <1>2, <1>3, <1>4, <1>5, <1>6, <1>7 DEF ExpiryNext, PassStep

(* Only a call at an exit of an expired contract gets a price. *)
LEMMA QuotesStep ==
  ASSUME ExpiryInv, ExpiryNext
  PROVE  QuotesOK'
<1>1. /\ quoted \in [Workers -> Nat \cup {NoPrice}] /\ DOMAIN call = Workers
      /\ \A w \in Workers : quoted[w] # NoPrice => call[w].pc = "execute"
  BY DEF ExpiryInv, QuotesOK, HoldsExit, TypeInv, TypeOK
<1>2. ExitsKept /\ (expired => expired')
  BY ExpiryExitsKept, RecordsStep
<1>3. CASE quoted' = quoted /\ call' = call
  BY <1>1, <1>2, <1>3, QuotesKept
<1>4. CASE Expire \/ BeginPass \/ PassStep
  BY <1>3, <1>4 DEF Expire, BeginPass, PassStep, EndPass, FetchPrice, FailToFetch, TakeRow,
                    SettlePosition, MarkPosition, RecordRisk, engine, vars
<1>5. CASE ClientStep \/ Reset
  BY <1>3, <1>5 DEF ClientStep, Reset, Cancel, Deposit, ResetCurrentState
<1>6. CASE Stop
  <2>1. \A w \in Workers : quoted'[w] = NoPrice
    BY <1>6 DEF Stop
  <2> QED BY <1>2, <1>6, <2>1, QuotesKept DEF Stop
<1>7. ASSUME NEW v \in Workers, Request(v) \/ HandlerStep(v) PROVE QuotesOK'
  <2>1. quoted' = quoted
    BY <1>7 DEF Request, HandlerStep
  <2> QED BY <1>1, <1>2, <1>7, <2>1, QuotedCallsWait, QuotesKept
<1>8. ASSUME NEW v \in Workers, SettleExit(v) PROVE QuotesOK'
  <2>1. /\ quoted' = [quoted EXCEPT ![v] = NoPrice]
        /\ call' = [call EXCEPT ![v] = Idle]
    BY <1>8 DEF SettleExit
  <2> QED BY <1>1, <1>2, <2>1, QuotesKept
<1>9. ASSUME NEW v \in Workers, FetchExpiryPrice(v) PROVE QuotesOK'
  <2>1. /\ call[v].pc = "execute" /\ Ended(order[call[v].order].book)
        /\ order[call[v].order].exit.key # NoKey
        /\ UNCHANGED <<call, order, expired>>
    BY <1>9 DEF FetchExpiryPrice, ExpiredExit, engine, vars
  <2>2. PICK p \in ExpiryPrices(order[call[v].order].book) : quoted' = [quoted EXCEPT ![v] = p]
    BY <1>9 DEF FetchExpiryPrice
  <2>3. p \in Nat
    BY ExpiryPricesNat
  <2>4. HoldsExit(v)'
    BY <1>1, <2>1, <2>2, <2>3 DEF HoldsExit, Ended
  <2>5. ASSUME NEW w \in Workers, w # v, quoted'[w] # NoPrice PROVE HoldsExit(w)'
    BY <1>1, <2>1, <2>2, <2>5 DEF HoldsExit, ExpiryInv, QuotesOK
  <2> QED BY <1>1, <2>2, <2>3, <2>4, <2>5 DEF QuotesOK
<1> QED BY <1>4, <1>5, <1>6, <1>7, <1>8, <1>9 DEF ExpiryNext

(* Every step under the clock keeps the invariant. *)
LEMMA ExpiryStep == ExpiryInv /\ [ExpiryNext]_expiryVars => ExpiryInv'
<1> SUFFICES ASSUME ExpiryInv, [ExpiryNext]_expiryVars PROVE ExpiryInv'
  OBVIOUS
<1>1. TypeInv'
  BY ExpiryTypeStep
<1>2. CASE ExpiryNext
  <2>1. PassOK'
    <3>1. CASE BeginPass \/ PassStep
      BY <3>1, PassMoves
    <3>2. CASE Stop
      BY <3>2 DEF Stop, PassOK, Resting, At, NoRow, PositionRefs, Contracts
    <3>3. CASE pass' = pass
      BY <3>3 DEF ExpiryInv, PassOK
    <3> QED BY <1>2, <3>1, <3>2, <3>3 DEF ExpiryNext, Expire, ClientStep, Reset, Request,
                                          HandlerStep, FetchExpiryPrice, SettleExit
  <2> QED BY <1>1, <1>2, <2>1, RecordsStep, QuotesStep DEF ExpiryInv
<1>3. CASE UNCHANGED expiryVars
  <2>1. UNCHANGED <<pass, quoted, expired, settlement, event, call, order>>
    BY <1>3 DEF expiryVars, engine, vars, records
  <2> QED BY <1>1, <2>1 DEF ExpiryInv, RecordsOK, PassOK, QuotesOK, HoldsExit
<1> QED BY <1>2, <1>3

(* Only what a call may really do happens before and after the expiry: the *)
(* types of the engine, the clock, the records, the pass and the prices.   *)
THEOREM ExpiryTypes == ExpirySpec => []ExpiryTypeOK
BY ExpiryStarts, ExpiryStep, ExpiryInvMeans, PTL DEF ExpirySpec

-----------------------------------------------------------------------------
(* The trades.                                                             *)

(* A payment trades what its position held, on the side that closes it. *)
LEMMA PaymentTrades ==
  ASSUME TypeInv, NEW b, NEW price, NEW o, NEW row, Pays(b, price, o, row)
  PROVE  /\ Traded(o, row.qty, price)
         /\ order'[o].book = b /\ order'[o].side = ClosingSide(b)
         /\ row.qty = Magnitude(position[b].qty)
<1>1. row.book = b /\ row.side = ClosingSide(b) /\ row.qty = Magnitude(position[b].qty)
  BY DEF Pays
<1>2. /\ o \in Orders /\ resetAt' = resetAt
      /\ order' = [order EXCEPT ![o] = row] /\ order'[o] = row
      /\ status'[o] = "EXECUTED" /\ status[o] \in {"NONE", "PENDING", "OPEN"}
      /\ trades' = Append(trades, [order |-> o, qty |-> row.qty, price |-> price])
  BY PaymentWrites DEF OrderPaid
<1>3. CancelledElse(o)
  BY PaymentWrites DEF OrderPaid
<1>4. \A q \in Orders : q # o =>
        order'[q] = order[q] /\ (status'[q] = "EXECUTED" <=> status[q] = "EXECUTED")
  BY <1>2, <1>3 DEF TypeInv, TypeOK, CancelledElse
<1> QED BY <1>1, <1>2, <1>4 DEF Traded

(* A payment adds the one trade of its order. *)
LEMMA HistoryPays ==
  ASSUME HistoryInv, TypeInv', NEW b, NEW price, NEW o, NEW row, Pays(b, price, o, row)
  PROVE  HistoryInv'
<1>1. Traded(o, row.qty, price)
  BY PaymentTrades DEF HistoryInv
<1>2. CancelledElse(o)
  BY PaymentWrites DEF HistoryInv, OrderPaid
<1>3. OrdersSane'
  BY <1>1, <1>2 DEF Traded, CancelledElse, HistoryInv, OrdersSane, Active
<1> QED BY <1>1, <1>3, MatchedTraded DEF HistoryInv

(* A step that writes no row and no trade, and at most cancels an order    *)
(* that could run, keeps the rows and the trades consistent.               *)
LEMMA HistoryLeft ==
  ASSUME HistoryInv, TypeInv', UNCHANGED <<order, trades, resetAt>>,
         \A q \in Orders : \/ status'[q] = status[q]
                           \/ status[q] \in {"PENDING", "OPEN"} /\ status'[q] = "CANCELLED"
  PROVE  HistoryInv'
<1>1. ExecutedOnce'
  BY MatchedStays
<1>2. OrdersSane'
  BY DEF HistoryInv, OrdersSane, Active
<1> QED BY <1>1, <1>2 DEF HistoryInv

(* What a step other than a payment and the engine's writes. *)
LEMMA OtherKinds ==
  ASSUME TypeInv,
         (\E w \in Workers : Leaves(w)) \/ (\E b \in Contracts : Marked(b)) \/ AllStop
  PROVE  /\ UNCHANGED <<order, trades, epoch, resetAt, cash, blocked, capital, reserved>>
         /\ \A q \in Orders : \/ status'[q] = status[q]
                              \/ status[q] \in {"PENDING", "OPEN"} /\ status'[q] = "CANCELLED"
         /\ \A c \in Books : SameHolding(c) /\ position'[c].margin = position[c].margin
<1>1. CASE \E w \in Workers : Leaves(w)
  <2>1. PICK w \in Workers : Leaves(w)
    BY <1>1
  <2>2. /\ UNCHANGED <<order, trades, epoch, resetAt, cash, blocked, capital, reserved, position>>
        /\ \/ status' = status
           \/ /\ status[call[w].order] \in {"PENDING", "OPEN"}
              /\ status' = [status EXCEPT ![call[w].order] = "CANCELLED"]
    BY <2>1 DEF Leaves, wallet, history, Executable
  <2> QED BY <2>2 DEF TypeInv, TypeOK, SameHolding
<1>2. CASE \E b \in Contracts : Marked(b)
  <2>1. PICK b \in Contracts : Marked(b)
    BY <1>2
  <2>2. UNCHANGED <<order, trades, epoch, resetAt, cash, blocked, capital, reserved, status>>
    BY <2>1 DEF Marked, wallet, rows, history
  <2> QED BY <2>1, <2>2, MarkedRow DEF SameHolding
<1>3. CASE AllStop
  BY <1>3 DEF AllStop, account, wallet, rows, history, SameHolding
<1> QED BY <1>1, <1>2, <1>3

-----------------------------------------------------------------------------
(* The ledger.                                                             *)

(* A payment takes its whole position off the net of the trades. *)
LEMMA NetPays ==
  ASSUME HistoryInv, PositionIsNetTrades, NEW b, NEW price, NEW o, NEW row,
         Pays(b, price, o, row)
  PROVE  PositionIsNetTrades'
<1>1. /\ TypeInv /\ b \in Books
      /\ position'[b].qty = 0 /\ \A c \in Books : c # b => position'[c] = position[c]
  BY PaymentWrites DEF HistoryInv, PositionPaid
<1>2. /\ Traded(o, row.qty, price)
      /\ order'[o].book = b /\ order'[o].side = ClosingSide(b)
      /\ row.qty = Magnitude(position[b].qty)
  BY <1>1, PaymentTrades
<1>3. position[b].qty \in Int
  BY <1>1 DEF TypeInv, TypeOK, PositionRows
<1>4. Delta(ClosingSide(b), row.qty) = -position[b].qty
  BY <1>2, <1>3 DEF Delta, ClosingSide, Magnitude
<1>5. \A c \in Books : position[c].qty = NetOf(c) /\ NetOf(c) \in Int
  BY NetTradesMeans, SumsType
<1>6. \A c \in Books : NetOf(c)' = NetOf(c) + IF b = c THEN -position[b].qty ELSE 0
  BY <1>2, <1>4, SumsTraded
<1>7. ASSUME NEW c \in Books PROVE position'[c].qty = NetOf(c)'
  <2>1. NetOf(c)' = IF b = c THEN 0 ELSE NetOf(c)
    BY <1>3, <1>5, <1>6
  <2> QED BY <1>1, <1>5, <2>1
<1> QED BY <1>7, NetTradesMeansNext

(* A payment adds to the cash what it adds to the profits, of a future, or *)
(* to the premiums, of an option.                                          *)
LEMMA MoneyPays ==
  ASSUME HistoryInv, MoneyConserved, NEW b, NEW price, NEW o, NEW row, Pays(b, price, o, row)
  PROVE  MoneyConserved'
<1> DEFINE p == position["DELIVERY"]
           gain == ExpiryPnl(b, price)
           q == position[b].qty
<1>0. OrderPaid(price, o, row) /\ PositionPaid(b, price)
  BY PaymentWrites DEF HistoryInv
<1>1. /\ TypeInv /\ b \in Contracts /\ b \in Books /\ capital' = capital
      /\ cash' = cash + ExpiryCash(b, price)
  BY <1>0 DEF HistoryInv, PositionPaid, OrderPaid
<1>2. /\ position'[b].realized = position[b].realized + gain
      /\ \A c \in Books : c # b => position'[c] = position[c]
  BY <1>0 DEF PositionPaid
<1>3. /\ Traded(o, row.qty, price)
      /\ order'[o].book = b /\ order'[o].side = ClosingSide(b)
      /\ row.qty = Magnitude(q)
  BY <1>1, PaymentTrades
<1>4. price \in Nat /\ q \in Int /\ gain \in Int
  BY <1>1, PaymentAmounts DEF Pays, TypeInv, TypeOK, PositionRows
<1>5. -Delta(ClosingSide(b), row.qty * price) = q * price
  <2>1. CASE q < 0
    <3>1. ClosingSide(b) = "BUY" /\ row.qty = -q
      BY <1>3, <2>1 DEF ClosingSide, Magnitude
    <3> HIDE DEF q
    <3> QED BY <1>4, <3>1 DEF Delta
  <2>2. CASE ~ q < 0
    <3>1. ClosingSide(b) = "SELL" /\ row.qty = q
      BY <1>3, <2>2 DEF ClosingSide, Magnitude
    <3> HIDE DEF q
    <3> QED BY <1>4, <3>1 DEF Delta
  <2> QED BY <2>1, <2>2
<1>6. Premiums' = Premiums + IF b = "OPTION" THEN q * price ELSE 0
  BY <1>3, <1>5, SumsTraded
<1>7. /\ cash \in Int /\ capital \in Nat /\ p.cost \in Nat /\ p.realized \in Int
      /\ position["INTRADAY"].realized \in Int /\ position["FUTURE"].realized \in Int
      /\ Premiums \in Int
  BY <1>1, SumsType DEF TypeInv, TypeOK, Books, MarginBooks, PositionRows
<1>8. cash + p.cost = capital + p.realized + position["INTRADAY"].realized
                        + position["FUTURE"].realized + Premiums
  BY MoneyMeans
<1>9. position'["DELIVERY"] = p /\ position'["INTRADAY"] = position["INTRADAY"]
  BY <1>1, <1>2 DEF Contracts, Books, MarginBooks
<1> SUFFICES cash' + p.cost = capital + p.realized + position["INTRADAY"].realized
                                + position'["FUTURE"].realized + Premiums'
  BY <1>1, <1>9, MoneyMeansNext
<1>10. CASE b = "FUTURE"
  <2>1. cash' = cash + gain /\ Premiums' = Premiums
    BY <1>1, <1>6, <1>7, <1>10 DEF ExpiryCash
  <2>2. position'["FUTURE"].realized = position["FUTURE"].realized + gain
    BY <1>2, <1>10
  <2> HIDE DEF gain, p
  <2> QED BY <1>4, <1>7, <1>8, <2>1, <2>2
<1>11. CASE b = "OPTION"
  <2> DEFINE premium == q * price
  <2>1. cash' = cash + premium /\ Premiums' = Premiums + premium
    BY <1>1, <1>6, <1>11 DEF ExpiryCash
  <2>2. position'["FUTURE"].realized = position["FUTURE"].realized
    BY <1>2, <1>11 DEF Books, MarginBooks
  <2>3. premium \in Int
    BY <1>4
  <2> HIDE DEF premium, p, gain, q
  <2>4. /\ cash \in Int /\ p.cost \in Nat /\ capital \in Nat /\ p.realized \in Int
        /\ position["INTRADAY"].realized \in Int /\ position["FUTURE"].realized \in Int
        /\ Premiums \in Int
    BY <1>7
  <2> QED BY <1>8, <2>1, <2>2, <2>3, <2>4
<1> QED BY <1>1, <1>10, <1>11 DEF Contracts

(* Every step under the clock keeps the ledger. *)
LEMMA ExpiryLedger ==
  ASSUME ExpiryInv, LedgerInv, [ExpiryNext]_expiryVars
  PROVE  LedgerInv'
<1> USE DEF LedgerInv
<1>1. TypeInv /\ TypeInv' /\ HistoryInv /\ ExpiryKinds
  BY ExpiryTypeStep, ExpiryStepKinds DEF HistoryInv
<1>2. CASE [Next]_vars
  BY <1>2, LedgerStep
<1>3. ASSUME NEW b, NEW price, NEW o, NEW row, Pays(b, price, o, row) PROVE LedgerInv'
  <2>1. position'["DELIVERY"] = position["DELIVERY"]
    <3>1. b \in Contracts /\ \A c \in Books : c # b => position'[c] = position[c]
      BY <1>1, <1>3, PaymentWrites DEF PositionPaid
    <3> QED BY <3>1 DEF Contracts, Books
  <2>2. DeliveryNeverShort'
    BY <2>1 DEF DeliveryNeverShort
  <2> QED BY <1>1, <1>3, <2>2, HistoryPays, NetPays, MoneyPays
<1>4. CASE (\E w \in Workers : Leaves(w)) \/ (\E b \in Contracts : Marked(b)) \/ AllStop
  <2>1. /\ UNCHANGED <<order, trades, resetAt, cash, capital>>
        /\ \A c \in Books : SameHolding(c)
    BY <1>1, <1>4, OtherKinds
  <2>2. HistoryInv'
    BY <1>1, <1>4, OtherKinds, HistoryLeft
  <2>3. cash \in Int /\ capital \in Int
    BY <1>1 DEF TypeInv, TypeOK
  <2>4. PositionIsNetTrades' /\ MoneyConserved'
    BY <2>1, <2>3, LedgerFrame
  <2>5. DeliveryNeverShort'
    BY <2>1 DEF DeliveryNeverShort, SameHolding, Books
  <2> QED BY <2>2, <2>4, <2>5
<1> QED BY <1>1, <1>2, <1>3, <1>4 DEF ExpiryKinds

-----------------------------------------------------------------------------
(* What is blocked.                                                        *)

(* The order of a payment reserves nothing. *)
LEMMA PaidReserveNothing ==
  ASSUME RowsInv, NEW b, NEW price, NEW o, NEW row, Pays(b, price, o, row)
  PROVE  reserved[o] = 0
BY DEF RowsInv, Pays

(* Orders whose reservation is zero may change as they like. *)
LEMMA NothingReserved ==
  ASSUME RowsInv, UNCHANGED reserved, order' \in [Orders -> OrderRows],
         \A q \in Orders : \/ status'[q] = status[q] /\ order'[q] = order[q]
                           \/ reserved[q] = 0 /\ status'[q] \in Terminal
  PROVE  RowsInv' /\ ActiveReserved' = ActiveReserved
<1>1. RowsInv'
  BY DEF RowsInv, Terminal
<1>2. ActiveReserved' = ActiveReserved
  BY DEF ActiveReserved
<1> QED BY <1>1, <1>2

(* A payment releases its position's margin. *)
LEMMA BalancePays ==
  ASSUME BalanceInv, TypeOK', NEW b, NEW price, NEW o, NEW row, Pays(b, price, o, row)
  PROVE  RowsInv' /\ BlockedBalance'
<1>0. TypeInv /\ TypeOK /\ RowsInv /\ BlockedBalance
  BY DEF BalanceInv, TypeInv
<1>1. OrderPaid(price, o, row) /\ PositionPaid(b, price) /\ reserved[o] = 0
  BY <1>0, PaymentWrites, PaidReserveNothing
<1>2. RowsInv' /\ ActiveReserved' = ActiveReserved
  <2>1. UNCHANGED reserved /\ order' \in [Orders -> OrderRows]
    BY <1>1 DEF OrderPaid, TypeOK
  <2>2. ASSUME NEW q \in Orders
        PROVE  \/ status'[q] = status[q] /\ order'[q] = order[q]
               \/ reserved[q] = 0 /\ status'[q] \in Terminal
    BY <1>0, <1>1 DEF OrderPaid, CancelledElse, Terminal, TypeOK
  <2> QED BY <1>0, <2>1, <2>2, NothingReserved
<1>3. /\ b \in Contracts /\ blocked' = blocked - position[b].margin
      /\ position'[b].margin = 0 /\ \A c \in Books : c # b => position'[c] = position[c]
  BY <1>1 DEF PositionPaid
<1>4. /\ position["INTRADAY"].margin \in Nat /\ position["FUTURE"].margin \in Nat
      /\ position["OPTION"].margin \in Nat
      /\ PartialSum(ActiveReserved, MaxOrders) \in Nat
  BY <1>0, ReservationsType
<1>5. TotalMargin' = TotalMargin - position[b].margin
  <2>1. CASE b = "FUTURE"
    BY <1>3, <1>4, <2>1 DEF TotalMargin, Books, MarginBooks
  <2>2. CASE b = "OPTION"
    BY <1>3, <1>4, <2>2 DEF TotalMargin, Books, MarginBooks
  <2> QED BY <1>3, <2>1, <2>2 DEF Contracts
<1>6. TotalMargin \in Nat /\ position[b].margin \in Nat
  BY <1>3, <1>4 DEF TotalMargin, Contracts
<1>7. blocked = PartialSum(ActiveReserved, MaxOrders) + TotalMargin
  BY <1>0 DEF BlockedBalance
<1>8. blocked' = PartialSum(ActiveReserved', MaxOrders) + TotalMargin'
  BY <1>2, <1>3, <1>4, <1>5, <1>6, <1>7
<1> QED BY <1>2, <1>8 DEF BlockedBalance

(* A call that leaves its exit, a mark and a stop move no amount. *)
LEMMA BalanceLeft ==
  ASSUME BalanceInv, ExpiryInv,
         (\E w \in Workers : Leaves(w)) \/ (\E b \in Contracts : Marked(b)) \/ AllStop
  PROVE  RowsInv' /\ BlockedBalance'
<1>0. TypeInv /\ TypeOK /\ RowsInv /\ BlockedBalance
  BY DEF BalanceInv, TypeInv
<1>1. /\ UNCHANGED <<order, blocked, reserved>>
      /\ \A c \in Books : position'[c].margin = position[c].margin
  BY <1>0, OtherKinds
<1>2. \A q \in Orders : status'[q] = status[q] \/ (reserved[q] = 0 /\ status'[q] \in Terminal)
  <2>1. CASE (\E b \in Contracts : Marked(b)) \/ AllStop
    BY <2>1 DEF Marked, AllStop, rows, account
  <2>2. ASSUME NEW w \in Workers, Leaves(w)
        PROVE  \A q \in Orders : \/ status'[q] = status[q]
                                 \/ reserved[q] = 0 /\ status'[q] \in Terminal
    <3>1. call[w].order \in Orders /\ order[call[w].order].exit.key # NoKey
      BY <1>0, <2>2 DEF Leaves, HoldsExit, TypeInv, CallOK
    <3>2. reserved[call[w].order] = 0
      BY <1>0, <3>1 DEF RowsInv
    <3>3. status' = status \/ status' = [status EXCEPT ![call[w].order] = "CANCELLED"]
      BY <2>2 DEF Leaves
    <3> QED BY <1>0, <3>2, <3>3 DEF TypeOK, Terminal
  <2> QED BY <2>1, <2>2
<1>3. RowsInv' /\ ActiveReserved' = ActiveReserved
  BY <1>0, <1>1, <1>2, NothingReserved DEF TypeOK
<1>4. TotalMargin' = TotalMargin
  BY <1>1 DEF TotalMargin, Books, MarginBooks
<1> QED BY <1>0, <1>1, <1>3, <1>4 DEF BlockedBalance

(* Every step under the clock keeps the balance. *)
LEMMA ExpiryBalance ==
  ASSUME NoStopMeetsReset, SquareOffsReserveNothing,
         ExpiryInv, BalanceInv, [ExpiryNext]_expiryVars
  PROVE  BalanceInv'
<1>1. TypeInv' /\ TypeOK' /\ ExpiryKinds
  BY ExpiryTypeStep, ExpiryStepKinds DEF TypeInv
<1>2. CASE [Next]_vars
  BY <1>2, BalanceStep
<1>3. ASSUME NEW b, NEW price, NEW o, NEW row, Pays(b, price, o, row) PROVE BalanceInv'
  BY <1>1, <1>3, BalancePays DEF BalanceInv
<1>4. CASE (\E w \in Workers : Leaves(w)) \/ (\E b \in Contracts : Marked(b)) \/ AllStop
  BY <1>1, <1>4, BalanceLeft DEF BalanceInv
<1> QED BY <1>1, <1>2, <1>3, <1>4 DEF ExpiryKinds

(* The expiry keeps the account's books: whoever settles a contract and    *)
(* whichever orders are in flight, every paisa, what is blocked, every     *)
(* position and every order are accounted for by exactly one settlement,   *)
(* in an instance where the balance holds without the expiry.              *)
THEOREM ExpiryKeepsAccount ==
  ASSUME NoStopMeetsReset, SquareOffsReserveNothing
  PROVE  ExpirySpec => []AccountKept
<1> DEFINE Inv == ExpiryInv /\ LedgerInv /\ BalanceInv
<1>1. ExpiryInit => Inv
  BY ExpiryStarts, LedgerInit, BalanceInit DEF ExpiryInit
<1>2. Inv /\ [ExpiryNext]_expiryVars => Inv'
  BY ExpiryStep, ExpiryLedger, ExpiryBalance
<1>3. Inv => AccountKept
  BY ExpiryInvMeans DEF LedgerInv, HistoryInv, BalanceInv, AccountKept
<1> QED BY <1>1, <1>2, <1>3, PTL DEF ExpirySpec

-----------------------------------------------------------------------------
(* The exits.                                                              *)

(* A step that saves book b's row, no older than any exit recorded it,     *)
(* and activates or rewrites no order keeps the exits' records.            *)
LEMMA ExitsRevised ==
  ASSUME ExitsRecorded, TypeInv, epoch' = epoch, NEW b \in Books, position'[b].rev \in Nat,
         \A c \in Books : c # b => position'[c] = position[c],
         \A q \in Orders : status'[q] \in Active =>
           status[q] \in Active /\ order'[q] = order[q],
         \A q \in Orders : /\ status[q] \in Active /\ order[q].exit.key # NoKey
                           /\ order[q].book = b /\ order[q].exit.epoch = epoch
                           => order[q].exit.rev < position'[b].rev
  PROVE  ExitsRecorded'
<1> SUFFICES ASSUME NEW q \in Orders, status'[q] \in Active, order'[q].exit.key # NoKey
             PROVE  LET e == order'[q].exit
                        p == position'[order'[q].book]
                    IN  /\ e.epoch <= epoch'
                        /\ e.epoch = epoch' => e.rev <= p.rev
                        /\ e.epoch = epoch' /\ e.rev = p.rev => Closes(order[q])'
  BY DEF ExitsRecorded
<1>1. /\ status[q] \in Active /\ order'[q] = order[q] /\ order[q].book \in Books
      /\ order[q].exit.key # NoKey /\ order[q].exit.rev \in Nat
  BY DEF TypeInv, TypeOK, OrderRows, Exits
<1> DEFINE e == order[q].exit
           p == position[order[q].book]
<1>2. /\ e.epoch <= epoch
      /\ e.epoch = epoch => e.rev <= p.rev
      /\ e.epoch = epoch /\ e.rev = p.rev => Closes(order[q])
  BY <1>1 DEF ExitsRecorded
<1>3. CASE order[q].book = b
  <2>1. e.epoch = epoch => e.rev < position'[b].rev
    BY <1>1, <1>3
  <2> QED BY <1>1, <1>2, <1>3, <2>1
<1>4. CASE order[q].book # b
  <2>1. position'[order[q].book] = p
    BY <1>1, <1>4
  <2> QED BY <1>1, <1>2, <2>1 DEF Closes
<1> QED BY <1>3, <1>4

(* A payment outdates the exits of its position. *)
LEMMA ExitsPays ==
  ASSUME ExitsInv, NEW b, NEW price, NEW o, NEW row, Pays(b, price, o, row)
  PROVE  ExitsRecorded'
<1>0. TypeInv /\ ExitsRecorded
  BY DEF ExitsInv, HistoryInv
<1>1. OrderPaid(price, o, row) /\ PositionPaid(b, price)
  BY <1>0, PaymentWrites
<1>2. /\ b \in Books /\ epoch' = epoch /\ \A c \in Books : c # b => position'[c] = position[c]
      /\ position'[b].rev = position[b].rev + 1 /\ position[b].rev \in Nat
  BY <1>0, <1>1 DEF OrderPaid, PositionPaid, TypeInv, TypeOK, PositionRows
<1>3. ASSUME NEW q \in Orders, status'[q] \in Active
      PROVE  status[q] \in Active /\ order'[q] = order[q]
  BY <1>0, <1>1, <1>3 DEF OrderPaid, CancelledElse, Active, TypeInv, TypeOK
<1>4. ASSUME NEW q \in Orders, status[q] \in Active, order[q].exit.key # NoKey,
             order[q].book = b, order[q].exit.epoch = epoch
      PROVE  order[q].exit.rev < position'[b].rev
  <2>1. order[q].exit.rev <= position[b].rev /\ order[q].exit.rev \in Nat
    BY <1>0, <1>4 DEF ExitsRecorded, TypeInv, TypeOK, OrderRows, Exits
  <2> QED BY <1>2, <2>1
<1> QED BY <1>0, <1>2, <1>3, <1>4, ExitsRevised

(* A mark outdates them too. *)
LEMMA ExitsMarked ==
  ASSUME ExitsInv, NEW b \in Contracts, Marked(b)
  PROVE  ExitsRecorded'
<1>0. TypeInv /\ ExitsRecorded /\ b \in Books
  BY ContractBooks DEF ExitsInv, HistoryInv
<1>1. /\ epoch' = epoch /\ status' = status /\ order' = order
      /\ \A c \in Books : c # b => position'[c] = position[c]
      /\ position'[b].rev = Touched(b)
  BY <1>0, MarkedRow DEF Marked, rows, history
<1>2. position[b].rev \in Nat
  BY <1>0 DEF TypeInv, TypeOK, PositionRows
<1>3. position'[b].rev \in Nat
  BY <1>1, <1>2 DEF Touched
<1>4. ASSUME NEW q \in Orders, status[q] \in Active, order[q].exit.key # NoKey,
             order[q].book = b, order[q].exit.epoch = epoch
      PROVE  order[q].exit.rev < position'[b].rev
  <2>1. order[q].exit.rev <= position[b].rev /\ order[q].exit.rev \in Nat
    BY <1>0, <1>4 DEF ExitsRecorded, TypeInv, TypeOK, OrderRows, Exits
  <2>2. CASE order[q].exit.rev = position[b].rev
    BY <1>1, <1>2, <1>4, <2>2 DEF Touched
  <2>3. CASE order[q].exit.rev # position[b].rev
    BY <1>1, <1>2, <2>1, <2>3 DEF Touched
  <2> QED BY <2>2, <2>3
<1> QED BY <1>0, <1>1, <1>3, <1>4, ExitsRevised

(* Every step under the clock keeps what the exits recorded. *)
LEMMA ExpiryExits ==
  ASSUME ExpiryInv, ExitsInv, [ExpiryNext]_expiryVars
  PROVE  ExitsInv'
<1>1. TypeInv /\ TypeInv' /\ HistoryInv /\ ExitsRecorded /\ ExpiryKinds
  BY ExpiryTypeStep, ExpiryStepKinds DEF ExitsInv, HistoryInv
<1>2. CASE [Next]_vars
  BY <1>2, ExitsStep
<1>3. ASSUME NEW b, NEW price, NEW o, NEW row, Pays(b, price, o, row) PROVE ExitsInv'
  BY <1>1, <1>3, HistoryPays, ExitsPays DEF ExitsInv
<1>4. CASE (\E w \in Workers : Leaves(w)) \/ (\E b \in Contracts : Marked(b)) \/ AllStop
  <2>1. /\ UNCHANGED <<order, trades, epoch, resetAt>>
        /\ \A q \in Orders : \/ status'[q] = status[q]
                             \/ /\ status[q] \in {"PENDING", "OPEN"}
                                /\ status'[q] = "CANCELLED"
    BY <1>1, <1>4, OtherKinds
  <2>2. HistoryInv'
    BY <1>1, <2>1, HistoryLeft
  <2>3. CASE \E b \in Contracts : Marked(b)
    BY <2>2, <2>3, ExitsMarked DEF ExitsInv
  <2>4. CASE (\E w \in Workers : Leaves(w)) \/ AllStop
    <3>1. position' = position
      BY <2>4 DEF Leaves, AllStop, account
    <3>2. ExitsRecorded'
      BY <1>1, <2>1, <3>1, ExitsFrame DEF Active
    <3> QED BY <2>2, <3>2 DEF ExitsInv
  <2> QED BY <1>4, <2>3, <2>4
<1> QED BY <1>1, <1>2, <1>3, <1>4 DEF ExpiryKinds

(* A payment flattens for its exit. *)
LEMMA PaymentFlattens ==
  ASSUME ExitsInv, NEW b, NEW price, NEW q, NEW row, Pays(b, price, q, row), NEW o \in Orders
  PROVE  Flattens(o)
<1> SUFFICES ASSUME status'[o] = "EXECUTED", status[o] # "EXECUTED", order[o].exit.key # NoKey
             PROVE  /\ position'[order[o].book].qty = 0
                    /\ order[o].exit.epoch = epoch
                    /\ Magnitude(position[order[o].book].qty) = order[o].qty
  BY DEF Flattens
<1>0. TypeInv /\ ExitsRecorded /\ OrdersSane
  BY DEF ExitsInv, HistoryInv
<1>1. OrderPaid(price, q, row) /\ PositionPaid(b, price)
  BY <1>0, PaymentWrites
<1>2. q = o
  BY <1>1 DEF OrderPaid, CancelledElse
<1>3. status[o] # "NONE"
  BY <1>0 DEF OrdersSane, NoOrder, OrderRow, NoExit
<1>4. Executable(o) /\ ~ StaleExit(o) /\ order[o].book = b
  BY <1>2, <1>3 DEF Pays
<1>5. order[o].exit.epoch = epoch /\ order[o].exit.rev = position[b].rev
  BY <1>4 DEF StaleExit
<1>6. Closes(order[o])
  BY <1>0, <1>4, <1>5 DEF ExitsRecorded, Executable, Active
<1> QED BY <1>1, <1>4, <1>5, <1>6 DEF Closes, PositionPaid

(* At the expiry too, a square-off closes the very position its intent     *)
(* recorded, completely: neither a settlement by the scheduler nor a mark  *)
(* nor an order in flight between intent and fill lets it close another.   *)
THEOREM ExpiryExitsFlatten == ExpirySpec => ExitFlattens
<1> DEFINE Inv == ExpiryInv /\ ExitsInv
<1>1. ExpiryInit => Inv
  BY ExpiryStarts, HistoryInit DEF ExpiryInit, ExitsInv, Init, ExitsRecorded, Active
<1>2. Inv /\ [ExpiryNext]_expiryVars => Inv'
  BY ExpiryStep, ExpiryExits
<1>3. Inv /\ [ExpiryNext]_expiryVars => [\A o \in Orders : Flattens(o)]_vars
  <2> SUFFICES ASSUME Inv, [ExpiryNext]_expiryVars, NEW o \in Orders
               PROVE  Flattens(o)
    OBVIOUS
  <2>1. ExpiryKinds
    BY ExpiryStepKinds
  <2>2. CASE [Next]_vars
    BY <2>2, EngineFlattens
  <2>3. CASE \E b, price, q, row : Pays(b, price, q, row)
    BY <2>3, PaymentFlattens
  <2>4. CASE (\E w \in Workers : Leaves(w)) \/ (\E b \in Contracts : Marked(b)) \/ AllStop
    BY <2>4, OtherKinds DEF Flattens, ExpiryInv
  <2> QED BY <2>1, <2>2, <2>3, <2>4 DEF ExpiryKinds
<1>4. ExpirySpec => [][\A o \in Orders : Flattens(o)]_vars
  BY <1>1, <1>2, <1>3, PTL DEF ExpirySpec
<1> QED BY <1>4 DEF ExitFlattens, Flattens

=============================================================================
