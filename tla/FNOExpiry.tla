------------------------------ MODULE FNOExpiry ------------------------------
(***************************************************************************)
(* The end of an F&O contract.  From 15:40 on its expiry day the contract  *)
(* takes no order; a scheduler settles what is still open at the closing   *)
(* price, and so does a square-off the user sends or retries afterwards.   *)
(*                                                                         *)
(* Scheduler and calls read positions and prices without a lock and meet   *)
(* in the settlement transaction, next to orders that looked at the clock  *)
(* before 15:40 and fill after it.  The book's contracts expire together.  *)
(***************************************************************************)
EXTENDS OrderEngine

CONSTANTS ClosingPrices,   \* prices a settlement reference may have
          OptionType,      \* "CALL" or "PUT"
          Strike,
          NoPrice

Contracts == {"FUTURE", "OPTION"}

ASSUME ExpiryAssumption ==
  /\ ClosingPrices \subseteq Nat \ {0}
  /\ OptionType \in {"CALL", "PUT"} /\ Strike \in Nat
  /\ NoPrice \notin Nat

VARIABLES expired,      \* the clock has passed the contracts' 15:40
          settlement,   \* Position.SettlementState by contract
          event,        \* Status of its FNO_EXPIRY_SETTLEMENT risk event
          pass,         \* what ProcessFNOExpiry is doing
          quoted        \* the settlement price a call has fetched

engine == vars
records == <<settlement, event>>
expiryVars == <<engine, expired, records, pass, quoted>>

(* A pass: the rows still to look at, and the row and price at hand. *)
At(pc, todo, row, price) == [pc |-> pc, todo |-> todo, row |-> row, price |-> price]
NoRow == [book |-> "FUTURE", epoch |-> 0]
Resting == At("rest", {}, NoRow, NoPrice)

Ended(b) == expired /\ b \in Contracts

-----------------------------------------------------------------------------
(* Prices.                                                                  *)

Intrinsic(underlying) ==
  LET value == IF OptionType = "CALL" THEN underlying - Strike ELSE Strike - underlying
  IN  IF value > 0 THEN value ELSE 0

(* A future settles at its own closing price, an option at its intrinsic    *)
(* value; each look may find another reference (see SettlementReference).   *)
ExpiryPrices(b) ==
  IF b = "FUTURE" THEN ClosingPrices ELSE {Intrinsic(u) : u \in ClosingPrices}

-----------------------------------------------------------------------------
(* settleExpiredPosition.                                                   *)

(* Fault: an option pays whoever holds it.                                  *)
ExpiryCashCredit(b, price) == Magnitude(position[b].qty) * price

ClosingSide(b) == IF position[b].qty < 0 THEN "BUY" ELSE "SELL"

Released(b) == position[b].margin

ExpiryPnl(b, price) ==
  LET p == position[b]
      gain == Magnitude(p.qty) * price - Magnitude(p.qty) * p.avg
  IN  IF p.qty < 0 THEN -gain ELSE gain

ExpiryCash(b, price) ==
  IF b = "FUTURE" THEN ExpiryPnl(b, price) ELSE position[b].qty * price

RowThere(b, e) == position[b].exists /\ e = epoch
Settled(b) == position[b].qty = 0 \/ settlement[b] = "COMPLETED"
Payable(b) == blocked >= Released(b)

(* Exits of the same position row that could still run. *)
OtherExits(b, o) ==
  {q \in Orders \ {o} :
     /\ order[q].book = b /\ order[q].exit.key # NoKey /\ order[q].exit.epoch = epoch
     /\ reserved[q] = 0 /\ status[q] \in {"PENDING", "OPEN"}}

(* The write: order o, executed with the given row, closes the position.    *)
(* Cash is not compared with what stays blocked.                            *)
PayOut(b, price, o, row) ==
  LET p == position[b] IN
  /\ cash' = cash + ExpiryCash(b, price)
  /\ blocked' = blocked - Released(b)
  /\ order' = [order EXCEPT ![o] = row]
  /\ status' = [q \in Orders |-> IF q = o THEN "EXECUTED"
                                 ELSE IF q \in OtherExits(b, o) THEN "CANCELLED"
                                 ELSE status[q]]
  /\ trades' = Append(trades, [order |-> o, qty |-> row.qty, price |-> price])
  /\ position' = [position EXCEPT ![b] =
       [exists |-> TRUE, qty |-> 0, avg |-> 0, cost |-> 0, margin |-> 0,
        realized |-> p.realized + ExpiryPnl(b, price), rev |-> p.rev + 1]]
  /\ settlement' = [settlement EXCEPT ![b] = "COMPLETED"]
  /\ event' = [event EXCEPT ![b] = IF @ = "PENDING" THEN "RESOLVED" ELSE @]
  /\ UNCHANGED <<reserved, history, crashes>>

-----------------------------------------------------------------------------
(* Calls of the engine, under the clock.                                    *)

Expire ==
  /\ ~ expired
  /\ expired' = TRUE
  /\ UNCHANGED <<engine, records, pass, quoted>>

(* Create refuses an expired contract when it looks, not when it inserts.  *)
Request(w) ==
  /\ \/ \E k \in Keys, r \in Requests :
          SubmitOrder(w, k, r) /\ (Ended(r.book) => call'[w].pc # "create")
     \/ \E b \in Contracts, k \in ExitKeys : SquareOffPosition(w, b, k)
     \/ \E o \in Orders : BeginExecute(w, o)
  /\ UNCHANGED <<expired, records, pass, quoted>>

(* Execute looks at the expiry together with the quote; a call past that    *)
(* point settles as if the contract were alive.                             *)
HandlerStep(w) ==
  /\ \/ CreateIntent(w) \/ JoinIntent(w) \/ RefuseOrder(w) \/ Reject(w)
     \/ Unavailable(w) /\ quoted[w] = NoPrice
     \/ \E ltp \in Prices : ActivateStop(w, ltp) /\ ~ Ended(order[call[w].order].book)
     \/ SettleDelivery(w) \/ SettleMargin(w) \/ CancelObsolete(w) \/ RefuseSettlement(w)
  /\ UNCHANGED <<expired, records, pass, quoted>>

ExpiredExit(o) == order[o].reason = "SQUARE_OFF" /\ order[o].exit.key # NoKey

(* An exit of an expired contract goes to the expiry settlement.            *)
FetchExpiryPrice(w) ==
  LET o == call[w].order IN
  /\ call[w].pc = "execute" /\ quoted[w] = NoPrice
  /\ Ended(order[o].book) /\ ExpiredExit(o)
  /\ \E p \in ExpiryPrices(order[o].book) : quoted' = [quoted EXCEPT ![w] = p]
  /\ UNCHANGED <<engine, expired, records, pass>>

Executable(o) == status[o] \in {"PENDING", "OPEN"}

(* An error ends the call and leaves the exit as it is. *)
SettleExit(w) ==
  LET o == call[w].order
      b == order[o].book
      closing == [order[o] EXCEPT !.side = ClosingSide(b),
                                  !.qty = Magnitude(position[b].qty)]
      Leave(outcome) ==
        /\ status' = [status EXCEPT ![o] = outcome]
        /\ UNCHANGED <<wallet, reserved, order, position, trades, history, crashes, records>>
  IN  /\ call[w].pc = "execute" /\ quoted[w] # NoPrice
      /\ IF ~ RowThere(b, order[o].exit.epoch) THEN Leave(status[o])
         ELSE IF Settled(b) THEN Leave(IF status[o] \in {"PENDING", "OPEN"}
                                       THEN "CANCELLED" ELSE status[o])
         ELSE IF ~ Executable(o) THEN Leave(status[o])
         ELSE IF StaleExit(o) \/ reserved[o] # 0 THEN Leave("CANCELLED")
         ELSE IF ~ Payable(b) THEN Leave(status[o])
         ELSE PayOut(b, quoted[w], o, closing)
      /\ call' = [call EXCEPT ![w] = Idle]
      /\ quoted' = [quoted EXCEPT ![w] = NoPrice]
      /\ UNCHANGED <<expired, pass>>

ClientStep ==
  /\ (\E o \in Orders : Cancel(o)) \/ (\E a \in Deposits : Deposit(a))
  /\ UNCHANGED <<expired, records, pass, quoted>>

(* The reset deletes the position rows with their states, but no event.     *)
Reset ==
  /\ ResetCurrentState
  /\ settlement' = [b \in Contracts |-> "NONE"]
  /\ UNCHANGED <<expired, event, pass, quoted>>

-----------------------------------------------------------------------------
(* The scheduler.                                                           *)

(* Fault: only positions nobody has reported are looked at again. *)
ToSettleUnmarked(b) == settlement[b] = "NONE"
ToSettle(b) == settlement[b] # "COMPLETED"

(* A pass begins with an unlocked read; before the expiry it does nothing.  *)
BeginPass ==
  /\ expired /\ pass = Resting
  /\ pass' = [pass EXCEPT !.pc = "next",
       !.todo = {[book |-> b, epoch |-> epoch] :
                   b \in {c \in Contracts : position[c].qty # 0 /\ ToSettle(c)}}]
  /\ UNCHANGED <<engine, expired, records, quoted>>

EndPass ==
  /\ pass.pc = "next" /\ pass.todo = {}
  /\ pass' = Resting
  /\ UNCHANGED <<engine, expired, records, quoted>>

TakeRow(row, pc, price) ==
  /\ pass.pc = "next" /\ row \in pass.todo
  /\ pass' = At(pc, pass.todo \ {row}, row, price)
  /\ UNCHANGED <<engine, expired, records, quoted>>

(* The closing price of the contract or its underlying is there ... *)
FetchPrice == \E row \in pass.todo : \E p \in ExpiryPrices(row.book) : TakeRow(row, "settle", p)

(* ... or is not, or the instrument is missing or malformed. *)
FailToFetch == \E row \in pass.todo : TakeRow(row, "mark", NoPrice)

(* The settlement inserts an order that is executed already. *)
SettlePosition ==
  LET b == pass.row.book
      row == OrderRow([book |-> b, side |-> ClosingSide(b), type |-> "MARKET",
                       qty |-> Magnitude(position[b].qty), price |-> 0, trigger |-> 0,
                       reason |-> "NONE"], NoKey, NoExit)
      Go(pc) == pass' = At(pc, pass.todo, pass.row, NoPrice)
  IN  /\ pass.pc = "settle"
      /\ \/ /\ RowThere(b, pass.row.epoch) /\ Settled(b)
            /\ Go("next") /\ UNCHANGED <<engine, records>>
         \/ /\ RowThere(b, pass.row.epoch) /\ ~ Settled(b) /\ Payable(b)
            /\ \E o \in Orders : NextOrder(o) /\ PayOut(b, pass.price, o, row)
            /\ Go("next") /\ UNCHANGED call
         \/ /\ ~ RowThere(b, pass.row.epoch) \/ (~ Settled(b) /\ ~ Payable(b))
            /\ Go("mark") /\ UNCHANGED <<engine, records>>
      /\ UNCHANGED <<expired, quoted>>

(* UpdatedAt moves with the mark.  It only matters to the exits that have   *)
(* recorded it; counting only those moves keeps rev finite.                 *)
Touched(b) ==
  IF \E o \in Orders : /\ order[o].exit.key # NoKey /\ order[o].book = b
                       /\ order[o].exit.rev = position[b].rev
  THEN position[b].rev + 1 ELSE position[b].rev

(* recordExpiryRisk: the row is marked, whatever it says by now ... *)
MarkPosition ==
  LET b == pass.row.book IN
  /\ pass.pc = "mark"
  /\ IF RowThere(b, pass.row.epoch)
     THEN /\ settlement' = [settlement EXCEPT ![b] = "PENDING"]
          /\ position' = [position EXCEPT ![b].rev = Touched(b)]
     ELSE UNCHANGED <<settlement, position>>
  /\ pass' = [pass EXCEPT !.pc = "record"]
  /\ UNCHANGED <<wallet, rows, trades, history, call, crashes, expired, event, quoted>>

(* ... and then the event is inserted or reopened. *)
RecordRisk ==
  /\ pass.pc = "record"
  /\ event' = [event EXCEPT ![pass.row.book] = "PENDING"]
  /\ pass' = [pass EXCEPT !.pc = "next"]
  /\ UNCHANGED <<engine, expired, settlement, quoted>>

PassStep == EndPass \/ FetchPrice \/ FailToFetch \/ SettlePosition \/ MarkPosition \/ RecordRisk

(* The process stops; what was committed stays. *)
Stop ==
  /\ crashes < MaxCrashes
  /\ crashes' = crashes + 1
  /\ call' = [w \in Workers |-> Idle]
  /\ quoted' = [w \in Workers |-> NoPrice]
  /\ pass' = Resting
  /\ UNCHANGED <<account, expired, records>>

-----------------------------------------------------------------------------
ExpiryInit ==
  /\ Init
  /\ expired = FALSE
  /\ settlement = [b \in Contracts |-> "NONE"]
  /\ event = [b \in Contracts |-> "NONE"]
  /\ pass = Resting
  /\ quoted = [w \in Workers |-> NoPrice]

ExpiryNext ==
  \/ Expire \/ ClientStep \/ Reset \/ Stop
  \/ \E w \in Workers : Request(w) \/ HandlerStep(w) \/ FetchExpiryPrice(w) \/ SettleExit(w)
  \/ BeginPass \/ PassStep

ExpirySpec == ExpiryInit /\ [][ExpiryNext]_expiryVars

(* Calls run on, and the ticker starts a pass after every pass.             *)
ExpiryFairness ==
  /\ \A w \in Workers :
       WF_expiryVars(HandlerStep(w) \/ FetchExpiryPrice(w) \/ SettleExit(w))
  /\ WF_expiryVars(BeginPass) /\ WF_expiryVars(PassStep)

FairExpirySpec == ExpirySpec /\ ExpiryFairness

-----------------------------------------------------------------------------
(* States, events and prices have the values of the code, the engine's rows *)
(* keep their shape, and only a call that executes an exit holds a price.   *)
ExpiryTypeOK ==
  /\ TypeOK
  /\ expired \in BOOLEAN
  /\ settlement \in [Contracts -> {"NONE", "PENDING", "COMPLETED"}]
  /\ event \in [Contracts -> {"NONE", "PENDING", "RESOLVED"}]
  /\ pass.pc \in {"rest", "next", "settle", "mark", "record"}
  /\ pass.price # NoPrice <=> pass.pc = "settle"
  /\ \A w \in Workers : quoted[w] # NoPrice =>
       call[w].pc = "execute" /\ order[call[w].order].exit.key # NoKey

(* A position open at expiry is settled, or its row and its risk event say  *)
(* PENDING: no stop, failed price or racing exit makes the scheduler lose   *)
(* it.  A row that says COMPLETED is not looked at again.                   *)
ExpiredIsReported ==
  \A b \in Contracts :
    (expired /\ position[b].qty # 0 /\ settlement[b] # "COMPLETED")
      ~> \/ position[b].qty = 0
         \/ settlement[b] = "PENDING" /\ event[b] = "PENDING"

(* "Retries pending expired positions": if the closing price can be had     *)
(* every now and then, what was open or pending is settled.                 *)
ExpiredIsSettled ==
  SF_expiryVars(FetchPrice) => \A b \in Contracts :
    (expired /\ position[b].qty # 0 /\ settlement[b] # "COMPLETED")
      ~> position[b].qty = 0 \/ settlement[b] = "COMPLETED"

(* The expiry keeps the account's books, whoever settles a contract and     *)
(* whichever orders are still in flight: every paisa, what is blocked, every *)
(* position and every order are accounted for by exactly one settlement.    *)
AccountKept ==
  ExpiryTypeOK /\ MoneyConserved /\ BlockedBalance /\ PositionIsNetTrades /\ ExecutedOnce
=============================================================================
