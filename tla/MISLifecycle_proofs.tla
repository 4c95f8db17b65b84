------------------------- MODULE MISLifecycle_proofs -------------------------
(***************************************************************************)
(* Theorems about the intraday day, for every number of orders, calls and  *)
(* days, every set of requests, prices and keys.                           *)
(*                                                                         *)
(* A closer's order is one more row and its execution one more call, so    *)
(* most steps are steps of the engine and keep what the engine's steps     *)
(* keep.  Three are not: a closing order is inserted, a row is marked, a   *)
(* pass stops that runs no call (LifecycleKinds).                          *)
(***************************************************************************)
EXTENDS MISLifecycle, OrderTrades_proofs

-----------------------------------------------------------------------------
(* The invariant.                                                          *)

SquareOffStates == {"NONE", "PENDING", "COMPLETED", "FAILED"}

Passes ==
  [pc : {"rest", "cancel", "place", "execute", "mark", "record"}, late : BOOLEAN,
   todo : SUBSET Orders, row : [qty : Int, epoch : Nat, state : SquareOffStates],
   outcome : SquareOffStates]

(* A row that only a closer inserts. *)
ClosingOrder(o) ==
  /\ o \in Orders /\ status[o] # "NONE"
  /\ order[o].reason = "SQUARE_OFF" /\ order[o].book = "INTRADAY"

(* A pass x fits its call k: it executes an order exactly while the call   *)
(* runs, and that order is one of the closers'.                            *)
Fits(x, k, orders) ==
  /\ x \in Passes
  /\ x.pc = "execute" <=> k # Idle
  /\ k # Idle => /\ k.pc \in {"execute", "settle", "reject"}
                 /\ k.order \in orders /\ k.creating
  /\ x.pc = "place" => x.row.qty # 0

RecordsOK ==
  /\ phase \in {"trading", "closing", "closed"} /\ day \in 0..MaxDays
  /\ underway \in Workers \cup {Nobody}
  /\ squareOff \in SquareOffStates
  /\ event \in {"NONE", "PENDING", "FAILED", "RESOLVED"}

ClosersInv ==
  /\ RecordsOK
  /\ \A o \in system : ClosingOrder(o)
  /\ closer \in [Closers -> Passes]
  /\ \A c \in Closers : Fits(closer[c], call[c], system)

LifecycleInv == TypeInv /\ ClosersInv

(* The invariant holds what the runs check of types. *)
LEMMA LifecycleInvMeans == LifecycleInv => LifecycleTypeOK
BY DEF LifecycleInv, TypeInv, ClosersInv, RecordsOK, ClosingOrder, Fits, SquareOffStates,
       LifecycleTypeOK

(* A resting closer has no call. *)
LEMMA RestingFits == ASSUME NEW orders PROVE Fits(Resting, Idle, orders)
<1>1. Resting \in Passes /\ Resting.pc = "rest"
  BY DEF Resting, At, NoRow, Passes, SquareOffStates
<1> QED BY <1>1 DEF Fits

(* The day starts with nobody closing anything. *)
LEMMA LifecycleStarts == LifecycleInit => LifecycleInv
<1> SUFFICES ASSUME LifecycleInit PROVE LifecycleInv
  OBVIOUS
<1>1. TypeInv
  BY TypeInit DEF LifecycleInit
<1>2. RecordsOK
  BY LifecycleAssumption DEF LifecycleInit, RecordsOK, SquareOffStates
<1>3. \A c \in Closers : closer[c] = Resting /\ call[c] = Idle
  BY LifecycleAssumption DEF LifecycleInit, Init
<1>4. closer \in [Closers -> Passes] /\ system = {}
  BY RestingFits DEF LifecycleInit, Fits
<1> QED BY <1>1, <1>2, <1>3, <1>4, RestingFits DEF LifecycleInv, ClosersInv

-----------------------------------------------------------------------------
(* What the engine's steps do to the closers.                              *)

(* A closing order remains one. *)
LEMMA ClosingOrdersStay ==
  ASSUME TypeInv, [Next]_vars, NEW o, ClosingOrder(o)
  PROVE  ClosingOrder(o)'
BY RowsStay DEF ClosingOrder, RowsKept

(* Closers that do nothing stay as they are. *)
LEMMA ClosersRest ==
  ASSUME ClosersInv, closer' = closer, system' = system,
         \A c \in Closers : call'[c] = call[c],
         \A o \in system : ClosingOrder(o)', RecordsOK'
  PROVE  ClosersInv'
BY DEF ClosersInv

(* One closer moves. *)
LEMMA CloserMoves ==
  ASSUME ClosersInv, NEW c \in Closers, NEW x,
         closer' = [closer EXCEPT ![c] = x], Fits(x, call'[c], system'),
         \A d \in Closers : d # c => call'[d] = call[d],
         system \subseteq system', \A o \in system' : ClosingOrder(o)', RecordsOK'
  PROVE  ClosersInv'
BY DEF ClosersInv, Fits

-----------------------------------------------------------------------------
(* The three steps that are none of the engine's.                          *)

ClosingRow(q) ==
  OrderRow([book |-> "INTRADAY", side |-> IF q < 0 THEN "BUY" ELSE "SELL",
            type |-> "MARKET", qty |-> Magnitude(q), price |-> 0, trigger |-> 0,
            reason |-> "SQUARE_OFF"], NoKey, NoExit)

(* A closing order is inserted, and its call begins. *)
Places(c, o) ==
  /\ c \in Closers /\ o \in Orders /\ status[o] = "NONE"
  /\ status' = [status EXCEPT ![o] = "PENDING"]
  /\ order' = [order EXCEPT ![o] = ClosingRow(closer[c].row.qty)]
  /\ call' = [call EXCEPT ![c] = Executing(o, TRUE)]
  /\ UNCHANGED <<wallet, reserved, position, trades, history, crashes>>

(* The intraday row is saved with another square-off state. *)
Marks ==
  /\ position' = [position EXCEPT !["INTRADAY"].rev = @ + 1]
  /\ UNCHANGED <<wallet, rows, trades, history, call, crashes>>

(* A pass stops that runs no call. *)
PassStops ==
  /\ crashes' = crashes + 1
  /\ UNCHANGED <<account, call>>

LifecycleKinds ==
  \/ [Next]_vars
  \/ \E c \in Closers, o \in Orders : Places(c, o) /\ closer[c].pc = "place"
  \/ Marks
  \/ PassStops

(* A handler's step is a step of the engine. *)
LEMMA PrepareIsEngine ==
  ASSUME NEW w \in Workers, Prepare(w)
  PROVE  Progress(w)
BY DEF Prepare, Progress

(* A settlement under the clock is one of the engine's. *)
LEMMA SettleIsEngine ==
  ASSUME NEW w \in Workers, Settle(w)
  PROVE  Progress(w)
BY DEF Settle, Progress

(* What a closer's insert writes. *)
LEMMA ClosingOrderPlaced ==
  ASSUME ClosersInv, NEW c \in Closers, PlaceClosingOrder(c)
  PROVE  /\ closer[c].pc = "place"
         /\ \/ \E o \in Orders :
                 /\ Places(c, o) /\ system' = system \cup {o}
                 /\ closer' = [closer EXCEPT ![c].pc = "execute"]
            \/ /\ closer' = [closer EXCEPT ![c] = Resting]
               /\ UNCHANGED <<engine, system>>
         /\ UNCHANGED <<clock, squareOff, event>>
BY DEF PlaceClosingOrder, Places, ClosingRow, NextOrder

(* A mark saves the row or finds it gone. *)
LEMMA MarkSaves ==
  ASSUME NEW c \in Closers, MarkPosition(c)
  PROVE  Marks \/ UNCHANGED vars
BY DEF MarkPosition, Marks, vars, wallet, rows, history

(* A stop ends a call, or a pass between two calls. *)
LEMMA StopsCallOrPass ==
  ASSUME TypeInv, NEW w \in Workers, Stop(w)
  PROVE  Crash(w) \/ PassStops
<1>1. CASE call[w] # Idle
  BY <1>1 DEF Stop, Crash
<1>2. CASE call[w] = Idle
  BY <1>2 DEF Stop, PassStops, TypeInv, TypeOK
<1> QED BY <1>1, <1>2

(* Every step of the day is of one of the kinds. *)
LEMMA LifecycleStepKinds ==
  ASSUME LifecycleInv, [LifecycleNext]_lifecycleVars
  PROVE  LifecycleKinds
<1> USE LifecycleAssumption DEF LifecycleKinds
<1>1. CASE UNCHANGED engine
  BY <1>1 DEF engine
<1>2. CASE Cutoff \/ Deadline \/ NextDay
  BY <1>1, <1>2 DEF Cutoff, Deadline, NextDay
<1>3. ASSUME NEW w \in Handlers, Request(w) PROVE Next
  BY <1>3 DEF Request, Next, Handlers, Books, MarginBooks
<1>4. ASSUME NEW w \in Handlers, HandlerStep(w) PROVE Next
  BY <1>4, PrepareIsEngine, SettleIsEngine DEF HandlerStep, Next, Handlers
<1>5. CASE CancelRequest \/ Reset
  BY <1>5 DEF CancelRequest, Reset, Next
<1>6. ASSUME NEW c \in Closers, BeginPass(c) \/ ReadPosition(c) \/ RecordRisk(c)
      PROVE  UNCHANGED engine
  BY <1>6 DEF BeginPass, ReadPosition, RecordRisk
<1>7. ASSUME NEW c \in Closers, CancelOpenOrder(c) PROVE LifecycleKinds
  <2>1. (\E o \in closer[c].todo : Cancel(o)) \/ UNCHANGED engine
    BY <1>7 DEF CancelOpenOrder
  <2>2. closer[c].todo \subseteq Orders
    BY DEF LifecycleInv, ClosersInv, Fits, Passes
  <2> QED BY <1>1, <2>1, <2>2 DEF Next
<1>8. ASSUME NEW c \in Closers, PlaceClosingOrder(c) PROVE LifecycleKinds
  BY <1>1, <1>8, ClosingOrderPlaced DEF LifecycleInv
<1>9. ASSUME NEW c \in Closers, ExecuteClosingOrder(c) PROVE Next
  BY <1>9, PrepareIsEngine, SettleIsEngine DEF ExecuteClosingOrder, Next
<1>10. ASSUME NEW c \in Closers, MarkPosition(c) PROVE LifecycleKinds
  BY <1>10, MarkSaves
<1>11. ASSUME NEW w \in Workers, Stop(w) PROVE LifecycleKinds
  BY <1>11, StopsCallOrPass DEF LifecycleInv, Next
<1>12. CASE LifecycleNext
  <2>1. CASE Cutoff \/ Deadline \/ NextDay \/ CancelRequest \/ Reset
    BY <1>2, <1>5, <2>1
  <2>2. CASE \E w \in Handlers : Request(w) \/ HandlerStep(w)
    BY <1>3, <1>4, <2>2
  <2>3. CASE \E c \in Closers : BeginPass(c) \/ CloserStep(c)
    BY <1>1, <1>6, <1>7, <1>8, <1>9, <1>10, <2>3 DEF CloserStep
  <2>4. CASE \E w \in Workers : Stop(w)
    BY <1>11, <2>4
  <2> QED BY <1>12, <2>1, <2>2, <2>3, <2>4 DEF LifecycleNext
<1> QED BY <1>1, <1>12 DEF lifecycleVars

-----------------------------------------------------------------------------
(* Types.                                                                  *)

(* The row a closer inserts is well-formed. *)
LEMMA ClosingRowType ==
  ASSUME NEW q \in Int
  PROVE  /\ ClosingRow(q) \in OrderRows
         /\ ClosingRow(q).reason = "SQUARE_OFF" /\ ClosingRow(q).book = "INTRADAY"
         /\ ClosingRow(q).key = NoKey /\ ClosingRow(q).exit = NoExit
         /\ ClosingRow(q).qty = Magnitude(q)
<1> DEFINE r == [book |-> "INTRADAY", side |-> IF q < 0 THEN "BUY" ELSE "SELL",
                 type |-> "MARKET", qty |-> Magnitude(q), price |-> 0, trigger |-> 0,
                 reason |-> "SQUARE_OFF"]
<1>1. r \in [book : Books, side : Sides, type : Types, qty : Nat, price : Nat,
             trigger : Nat, reason : {"NONE", "SQUARE_OFF"}]
  BY DEF Books, MarginBooks, Sides, Types, Magnitude
<1>2. OrderRow(r, NoKey, NoExit) \in OrderRows
  <2> HIDE DEF r
  <2> QED BY <1>1, NoExitType, OrderRowType
<1> QED BY <1>2 DEF ClosingRow, OrderRow

(* An insert by a closer keeps the engine's types. *)
LEMMA TypePlaces ==
  ASSUME TypeInv, ClosersInv, NEW c, NEW o, Places(c, o)
  PROVE  TypeInv'
<1> USE DEF TypeInv
<1>1. /\ c \in Closers /\ c \in Workers /\ o \in Orders /\ status[o] = "NONE"
      /\ status' = [status EXCEPT ![o] = "PENDING"]
      /\ order' = [order EXCEPT ![o] = ClosingRow(closer[c].row.qty)]
      /\ call' = [call EXCEPT ![c] = Executing(o, TRUE)]
      /\ UNCHANGED <<cash, blocked, reserved, position, trades, epoch, resetAt, capital, crashes>>
  BY LifecycleAssumption DEF Places, wallet, history
<1>2. closer[c].row.qty \in Int
  BY <1>1 DEF ClosersInv, Fits, Passes
<1>3. ClosingRow(closer[c].row.qty) \in OrderRows
  BY <1>2, ClosingRowType
<1>4. status' \in [Orders -> Statuses] /\ order' \in [Orders -> OrderRows]
  BY <1>1, <1>3 DEF TypeOK, Statuses, Active
<1>5. status'[o] # "NONE" /\ \A q \in Orders : status[q] # "NONE" => status'[q] # "NONE"
  BY <1>1 DEF TypeOK
<1>6. Sound(Executing(o, TRUE), status')
  BY <1>1, <1>5, ExecutingType DEF Sound
<1>7. call' \in [Workers -> Calls] /\ CallOK'
  BY <1>1, <1>5, <1>6, CallStep
<1> QED BY <1>1, <1>4, <1>7 DEF TypeOK

(* A mark keeps the row's shape. *)
LEMMA MarksRow ==
  ASSUME TypeInv, Marks
  PROVE  /\ position' \in [Books -> PositionRows]
         /\ \A b \in Books :
              /\ position'[b].qty = position[b].qty /\ position'[b].cost = position[b].cost
              /\ position'[b].margin = position[b].margin
              /\ position'[b].realized = position[b].realized
<1>1. position' = [position EXCEPT !["INTRADAY"].rev = @ + 1]
  BY DEF Marks
<1>2. position \in [Books -> PositionRows] /\ "INTRADAY" \in Books
  BY DEF TypeInv, TypeOK, Books, MarginBooks
<1> QED BY <1>1, <1>2 DEF PositionRows

(* Every step of the day keeps the engine's types. *)
LEMMA LifecycleTypeStep ==
  ASSUME LifecycleInv, [LifecycleNext]_lifecycleVars
  PROVE  TypeInv'
<1> USE DEF LifecycleInv
<1>1. CASE [Next]_vars
  BY <1>1, TypeStep
<1>2. CASE \E c \in Closers, o \in Orders : Places(c, o)
  BY <1>2, TypePlaces
<1>3. CASE Marks
  <2>1. UNCHANGED <<cash, blocked, status, reserved, order, trades, epoch, resetAt, capital,
                    call, crashes>>
    BY <1>3 DEF Marks, wallet, rows, history
  <2>2. "DELIVERY" \in Books
    BY DEF Books
  <2> QED BY <1>3, <2>1, <2>2, MarksRow DEF TypeInv, TypeOK, CallOK
<1>4. CASE PassStops
  <2>1. /\ crashes' = crashes + 1
        /\ UNCHANGED <<cash, blocked, status, reserved, order, position, trades, epoch, resetAt,
                       capital, call>>
    BY <1>4 DEF PassStops, account, wallet, rows, history
  <2> QED BY <2>1 DEF TypeInv, TypeOK, CallOK
<1> QED BY <1>1, <1>2, <1>3, <1>4, LifecycleStepKinds DEF LifecycleKinds

-----------------------------------------------------------------------------
(* The closers.                                                            *)

(* A closer's call goes on to settle or to reject the same order, or ends. *)
LEMMA ClosingCall ==
  ASSUME LifecycleInv, NEW c \in Closers, ExecuteClosingOrder(c)
  PROVE  \/ call'[c] = Idle
         \/ /\ call'[c] # Idle /\ call'[c].pc \in {"settle", "reject"}
            /\ call'[c].order = call[c].order /\ call'[c].creating
<1>0. /\ c \in Workers /\ DOMAIN call = Workers
  BY LifecycleAssumption DEF LifecycleInv, TypeInv, TypeOK
<1>1. /\ closer[c].pc = "execute" /\ (Prepare(c) \/ Settle(c))
      /\ call[c].pc \in {"execute", "settle", "reject"} /\ call[c].creating
  BY DEF ExecuteClosingOrder, LifecycleInv, ClosersInv, Fits
<1>2. ASSUME NEW p \in {"settle", "reject"}, NEW price,
             call' = [call EXCEPT ![c] = Working(p, call[c].order, price, TRUE)]
      PROVE  /\ call'[c] # Idle /\ call'[c].pc \in {"settle", "reject"}
             /\ call'[c].order = call[c].order /\ call'[c].creating
  BY <1>0, <1>2 DEF Working, Idle
<1>3. Fails(c) = [call EXCEPT ![c] = Working("reject", call[c].order, 0, TRUE)]
  BY <1>0, <1>1 DEF Fails
<1>4. CASE Unavailable(c) \/ RefuseSettlement(c)
  BY <1>2, <1>3, <1>4 DEF Unavailable, RefuseSettlement
<1>5. ASSUME NEW ltp \in Prices, ActivateStop(c, ltp)
      PROVE  \E p \in {"settle", "reject"}, price \in Prices \cup {0} :
               call' = [call EXCEPT ![c] = Working(p, call[c].order, price, TRUE)]
  <2>1. call[c].creating = TRUE
    BY <1>0, <1>1 DEF LifecycleInv, TypeInv, TypeOK, Calls
  <2>2. \/ call' = Fails(c)
        \/ call' = [call EXCEPT ![c] = Working("settle", call[c].order, ltp, call[c].creating)]
    BY <1>0, <1>5 DEF ActivateStop
  <2> QED BY <1>3, <2>1, <2>2
<1>6. CASE Reject(c) \/ CancelObsolete(c)
  BY <1>0, <1>6 DEF Reject, CancelObsolete
<1>7. CASE SettleMargin(c)
  BY <1>0, <1>7 DEF SettleMargin, Record
<1>8. ~ (CreateIntent(c) \/ JoinIntent(c) \/ RefuseOrder(c))
  BY <1>1 DEF CreateIntent, JoinIntent, RefuseOrder
<1> QED BY <1>1, <1>2, <1>4, <1>5, <1>6, <1>7, <1>8 DEF Prepare, Settle

(* A closer and its call begin to execute together, or the insert failed.  *)
LEMMA ClosersPlace ==
  ASSUME LifecycleInv, NEW c \in Closers, PlaceClosingOrder(c)
  PROVE  ClosersInv'
<1> USE DEF LifecycleInv
<1>0. /\ c \in Workers /\ DOMAIN call = Workers /\ DOMAIN status = Orders /\ DOMAIN order = Orders
      /\ Closers \subseteq Workers
  BY LifecycleAssumption DEF TypeInv, TypeOK
<1>1. /\ closer[c].pc = "place" /\ closer[c] \in Passes /\ call[c] = Idle
      /\ UNCHANGED <<clock, squareOff, event>>
  BY ClosingOrderPlaced DEF ClosersInv, Fits
<1>2. RecordsOK'
  BY <1>1 DEF ClosersInv, RecordsOK, clock
<1>3. ASSUME NEW o \in Orders, Places(c, o), system' = system \cup {o},
             closer' = [closer EXCEPT ![c].pc = "execute"]
      PROVE  ClosersInv'
  <2>1. /\ status[o] = "NONE" /\ status' = [status EXCEPT ![o] = "PENDING"]
        /\ order' = [order EXCEPT ![o] = ClosingRow(closer[c].row.qty)]
        /\ call' = [call EXCEPT ![c] = Executing(o, TRUE)]
    BY <1>3 DEF Places
  <2>2. closer[c].row.qty \in Int
    BY <1>1 DEF Passes
  <2>3. \A q \in system' : ClosingOrder(q)'
    BY <1>0, <1>3, <2>1, <2>2, ClosingRowType DEF ClosersInv, ClosingOrder
  <2>4. Fits([closer[c] EXCEPT !.pc = "execute"], call'[c], system')
    BY <1>0, <1>1, <1>3, <2>1 DEF Fits, Passes, Executing, Working, Idle
  <2>5. \A d \in Closers : d # c => call'[d] = call[d]
    BY <1>0, <2>1
  <2>6. closer' = [closer EXCEPT ![c] = [closer[c] EXCEPT !.pc = "execute"]]
    BY <1>3
  <2> QED BY <1>2, <1>3, <2>3, <2>4, <2>5, <2>6, CloserMoves
<1>4. CASE closer' = [closer EXCEPT ![c] = Resting] /\ UNCHANGED <<engine, system>>
  <2>1. call' = call /\ status' = status /\ order' = order /\ system' = system
    BY <1>4 DEF engine, vars
  <2>2. \A o \in system' : ClosingOrder(o)'
    BY <2>1 DEF ClosersInv, ClosingOrder
  <2>3. Fits(Resting, call'[c], system')
    BY <1>1, <2>1, RestingFits
  <2> QED BY <1>2, <1>4, <2>1, <2>2, <2>3, CloserMoves
<1> QED BY <1>3, <1>4, ClosingOrderPlaced

(* They end together, whatever the execution came to. *)
LEMMA ClosersExecute ==
  ASSUME LifecycleInv, NEW c \in Closers, ExecuteClosingOrder(c)
  PROVE  ClosersInv'
<1> USE DEF LifecycleInv
<1>0. c \in Workers /\ Closers \subseteq Workers
  BY LifecycleAssumption
<1>1. Progress(c)
  BY <1>0, PrepareIsEngine, SettleIsEngine DEF ExecuteClosingOrder
<1>2. [Next]_vars
  BY <1>0, <1>1 DEF Next
<1>3. /\ \A d \in Closers : d # c => call'[d] = call[d]
      /\ \A o \in system : ClosingOrder(o)'
  BY <1>0, <1>1, <1>2, OneCallMoves, ClosingOrdersStay DEF ClosersInv
<1>4. UNCHANGED <<phase, day, system, squareOff, event>>
  BY DEF ExecuteClosingOrder
<1>5. underway' = underway \/ underway' = Nobody
  BY DEF ExecuteClosingOrder, Prepare, Settle
<1>6. RecordsOK'
  BY <1>4, <1>5 DEF ClosersInv, RecordsOK
<1>7. closer[c] \in Passes /\ closer[c].pc = "execute" /\ call[c].order \in system
      /\ closer = [closer EXCEPT ![c] = closer[c]]
  BY DEF ExecuteClosingOrder, ClosersInv, Fits
<1>8. CASE call'[c] # Idle
  <2>1. closer' = [closer EXCEPT ![c] = closer[c]]
    BY <1>7, <1>8 DEF ExecuteClosingOrder
  <2>2. Fits(closer[c], call'[c], system')
    BY <1>4, <1>7, <1>8, ClosingCall DEF Fits
  <2> QED BY <1>3, <1>4, <1>6, <2>1, <2>2, CloserMoves
<1>9. CASE call'[c] = Idle
  <2>1. PICK outcome \in {"PENDING", "COMPLETED"} :
          closer' = [closer EXCEPT ![c] = IF outcome = "PENDING" /\ c = Manual THEN Resting
                                          ELSE At("mark", FALSE, {}, closer[c].row, outcome)]
    BY <1>7, <1>9 DEF ExecuteClosingOrder
  <2>2. Fits(At("mark", FALSE, {}, closer[c].row, outcome), Idle, system')
    BY <1>7 DEF Fits, At, Passes, SquareOffStates
  <2> QED BY <1>3, <1>4, <1>6, <1>9, <2>1, <2>2, RestingFits, CloserMoves
<1> QED BY <1>8, <1>9

(* They are gone together when the process stops. *)
LEMMA ClosersStop ==
  ASSUME LifecycleInv, NEW w \in Workers, Stop(w)
  PROVE  ClosersInv'
<1> USE DEF LifecycleInv
<1>0. /\ DOMAIN call = Workers /\ Closers \subseteq Workers
      /\ call' = [call EXCEPT ![w] = Idle]
      /\ UNCHANGED <<status, order, phase, day, system, squareOff, event>>
      /\ closer' = IF w \in Closers THEN [closer EXCEPT ![w] = Resting] ELSE closer
      /\ underway' = underway \/ underway' = Nobody
  BY LifecycleAssumption DEF Stop, account, rows, TypeInv, TypeOK
<1>1. RecordsOK' /\ \A o \in system' : ClosingOrder(o)'
  BY <1>0 DEF ClosersInv, RecordsOK, ClosingOrder
<1>2. CASE w \in Closers
  <2>1. Fits(Resting, call'[w], system')
    BY <1>0, RestingFits
  <2> QED BY <1>0, <1>1, <1>2, <2>1, CloserMoves
<1>3. CASE w \notin Closers
  BY <1>0, <1>1, <1>3, ClosersRest
<1> QED BY <1>2, <1>3

(* What a closer does between its calls. *)
LEMMA ClosersPause ==
  ASSUME LifecycleInv, NEW c \in Closers,
         \/ BeginPass(c) \/ CancelOpenOrder(c) \/ ReadPosition(c)
         \/ MarkPosition(c) \/ RecordRisk(c)
  PROVE  ClosersInv'
<1> USE DEF LifecycleInv
<1>0. /\ closer[c] \in Passes /\ DOMAIN closer = Closers /\ RecordsOK
      /\ closer[c].pc # "execute" => call[c] = Idle
  BY DEF ClosersInv, Fits
<1>1. /\ \A q \in Orders : status[q] # "NONE" => status'[q] # "NONE"
      /\ call' = call /\ order' = order
  <2>1. CASE BeginPass(c) \/ ReadPosition(c) \/ RecordRisk(c)
    BY <2>1 DEF BeginPass, ReadPosition, RecordRisk, engine, vars
  <2>2. CASE CancelOpenOrder(c)
    <3>1. (\E o \in closer[c].todo : Cancel(o)) \/ UNCHANGED engine
      BY <2>2 DEF CancelOpenOrder
    <3>2. CASE UNCHANGED engine
      BY <3>2 DEF engine, vars
    <3>3. CASE \E o \in closer[c].todo : Cancel(o)
      BY <3>3 DEF Cancel, TypeInv, TypeOK
    <3> QED BY <3>1, <3>2, <3>3
  <2>3. CASE MarkPosition(c)
    BY <2>3 DEF MarkPosition, rows
  <2> QED BY <2>1, <2>2, <2>3
<1>2. UNCHANGED <<phase, day, underway, system>>
  BY DEF BeginPass, CancelOpenOrder, ReadPosition, MarkPosition, RecordRisk, clock
<1>3. \A o \in system' : ClosingOrder(o)'
  BY <1>1, <1>2 DEF ClosersInv, ClosingOrder
<1>4. RecordsOK' /\ closer[c].pc # "execute"
  <2>1. CASE BeginPass(c) \/ CancelOpenOrder(c) \/ ReadPosition(c)
    BY <1>0, <1>2, <2>1 DEF BeginPass, CancelOpenOrder, ReadPosition, RecordsOK, Resting, At
  <2>2. CASE MarkPosition(c)
    BY <1>0, <1>2, <2>2 DEF MarkPosition, RecordsOK, Passes
  <2>3. CASE RecordRisk(c)
    BY <1>0, <1>2, <2>3 DEF RecordRisk, RecordsOK, Passes, SquareOffStates, EventAfter
  <2> QED BY <2>1, <2>2, <2>3
<1>5. \E x : closer' = [closer EXCEPT ![c] = x] /\ Fits(x, Idle, system')
  <2> USE DEF Fits
  <2>1. CASE BeginPass(c)
    <3> DEFINE x == At("cancel", c = Scheduler /\ phase = "closed", OpenIntradayOrders, NoRow, "NONE")
    <3>1. x \in Passes /\ x.pc = "cancel"
      BY DEF At, Passes, OpenIntradayOrders, NoRow, SquareOffStates
    <3> HIDE DEF x
    <3> QED BY <2>1, <3>1 DEF BeginPass, x
  <2>2. CASE CancelOpenOrder(c)
    <3>1. PICK o \in closer[c].todo : closer' = [closer EXCEPT ![c].todo = @ \ {o}]
      BY <2>2 DEF CancelOpenOrder
    <3>2. closer[c].pc = "cancel"
      BY <2>2 DEF CancelOpenOrder
    <3>3. [closer[c] EXCEPT !.todo = @ \ {o}] \in Passes
      BY <1>0 DEF Passes
    <3>4. [closer[c] EXCEPT !.todo = @ \ {o}].pc = "cancel"
      BY <1>0, <3>2 DEF Passes
    <3>5. closer' = [closer EXCEPT ![c] = [closer[c] EXCEPT !.todo = @ \ {o}]]
      BY <3>1
    <3> QED BY <3>3, <3>4, <3>5
  <2>3. CASE ReadPosition(c)
    <3>1. /\ RowRead \in [qty : Int, epoch : Nat, state : SquareOffStates]
          /\ RowRead.qty = Intraday.qty
      BY <1>0 DEF RowRead, Intraday, RecordsOK, TypeInv, TypeOK, PositionRows, Books, MarginBooks
    <3>2. \/ closer' = [closer EXCEPT ![c] = Resting]
          \/ closer' = [closer EXCEPT ![c] = At("mark", TRUE, {}, RowRead, "FAILED")]
          \/ /\ closer' = [closer EXCEPT ![c] = At("place", FALSE, {}, RowRead, "NONE")]
             /\ Intraday.qty # 0
      BY <2>3 DEF ReadPosition
    <3>3. At("mark", TRUE, {}, RowRead, "FAILED") \in Passes
      BY <3>1 DEF At, Passes, SquareOffStates
    <3>4. At("place", FALSE, {}, RowRead, "NONE") \in Passes
      BY <3>1 DEF At, Passes, SquareOffStates
    <3>5. CASE closer' = [closer EXCEPT ![c] = Resting]
      BY <3>5, RestingFits
    <3>6. CASE closer' = [closer EXCEPT ![c] = At("mark", TRUE, {}, RowRead, "FAILED")]
      <4>1. Fits(At("mark", TRUE, {}, RowRead, "FAILED"), Idle, system')
        BY <3>3 DEF At
      <4> QED BY <3>6, <4>1
    <3>7. CASE /\ closer' = [closer EXCEPT ![c] = At("place", FALSE, {}, RowRead, "NONE")]
               /\ Intraday.qty # 0
      <4>1. Fits(At("place", FALSE, {}, RowRead, "NONE"), Idle, system')
        <5>1. At("place", FALSE, {}, RowRead, "NONE").row.qty = Intraday.qty
          BY <3>1 DEF At
        <5>2. At("place", FALSE, {}, RowRead, "NONE").pc = "place"
          BY DEF At
        <5> QED BY <3>4, <3>7, <5>1, <5>2
      <4> QED BY <3>7, <4>1
    <3> QED BY <3>2, <3>5, <3>6, <3>7
  <2>4. CASE MarkPosition(c)
    <3>1. [closer[c] EXCEPT !.pc = "record"] \in Passes /\ [closer[c] EXCEPT !.pc = "record"].pc = "record"
      BY <1>0 DEF Passes
    <3>2. \/ closer' = [closer EXCEPT ![c] = [closer[c] EXCEPT !.pc = "record"]]
          \/ closer' = [closer EXCEPT ![c] = Resting]
      BY <2>4 DEF MarkPosition
    <3> QED BY <3>1, <3>2, RestingFits
  <2>5. CASE RecordRisk(c)
    BY <2>5, RestingFits DEF RecordRisk
  <2> QED BY <2>1, <2>2, <2>3, <2>4, <2>5
<1> QED BY <1>0, <1>1, <1>2, <1>3, <1>4, <1>5, CloserMoves

(* The clock, the clients and the handlers leave the closers alone. *)
LEMMA ClosersUntouched ==
  ASSUME LifecycleInv,
         \/ Cutoff \/ Deadline \/ NextDay \/ CancelRequest \/ Reset
         \/ \E w \in Handlers : Request(w) \/ HandlerStep(w)
         \/ UNCHANGED lifecycleVars
  PROVE  ClosersInv'
<1> USE DEF LifecycleInv
<1>0. RecordsOK /\ Closers \subseteq Workers /\ MaxDays \in Nat
  BY LifecycleAssumption DEF ClosersInv
<1>1. closer' = closer /\ system' = system
  BY DEF Cutoff, Deadline, NextDay, CancelRequest, Reset, Request, HandlerStep, lifecycleVars
<1>2. RecordsOK'
  <2>1. CASE Cutoff \/ Deadline \/ NextDay
    BY <1>0, <2>1 DEF Cutoff, Deadline, NextDay, RecordsOK
  <2>2. CASE CancelRequest \/ Reset \/ UNCHANGED lifecycleVars
    BY <1>0, <2>2 DEF CancelRequest, Reset, RecordsOK, clock, lifecycleVars, SquareOffStates
  <2>3. CASE \E w \in Handlers : Request(w)
    BY <1>0, <2>3 DEF Request, RecordsOK, clock
  <2>4. CASE \E w \in Handlers : HandlerStep(w)
    BY <1>0, <2>4 DEF HandlerStep, Prepare, Settle, RecordsOK
  <2> QED BY <2>1, <2>2, <2>3, <2>4
<1>3. [Next]_vars /\ \A c \in Closers : call'[c] = call[c]
  <2>1. CASE Cutoff \/ Deadline \/ NextDay \/ UNCHANGED lifecycleVars
    BY <2>1 DEF Cutoff, Deadline, NextDay, engine, lifecycleVars, vars
  <2>2. CASE CancelRequest
    BY <2>2 DEF CancelRequest, Cancel, Next
  <2>3. CASE Reset
    BY <2>3 DEF Reset, ResetCurrentState, Next
  <2>4. ASSUME NEW w \in Handlers, Request(w) \/ HandlerStep(w)
        PROVE  [Next]_vars /\ \A c \in Closers : call'[c] = call[c]
    <3>1. w \in Workers /\ w \notin Closers /\ "INTRADAY" \in Books
      BY DEF Handlers, Books, MarginBooks
    <3>2. CASE Request(w)
      <4>1. \/ \E k \in Keys, r \in Requests : SubmitOrder(w, k, r)
            \/ \E b \in Books, k \in ExitKeys : SquareOffPosition(w, b, k)
            \/ \E o \in Orders : BeginExecute(w, o)
        BY <3>1, <3>2 DEF Request
      <4>2. Next
        BY <3>1, <4>1 DEF Next
      <4> QED BY <1>0, <3>1, <4>1, <4>2, OneCallMoves
    <3>3. CASE HandlerStep(w)
      <4>1. Progress(w)
        BY <3>1, <3>3, PrepareIsEngine, SettleIsEngine DEF HandlerStep
      <4>2. Next
        BY <3>1, <4>1 DEF Next
      <4> QED BY <1>0, <3>1, <4>1, <4>2, OneCallMoves
    <3> QED BY <2>4, <3>2, <3>3
  <2> QED BY <2>1, <2>2, <2>3, <2>4
<1>4. \A o \in system : ClosingOrder(o)'
  BY <1>3, ClosingOrdersStay DEF ClosersInv
<1> QED BY <1>1, <1>2, <1>3, <1>4, ClosersRest

(* Every step of the day keeps the invariant. *)
LEMMA LifecycleStep == LifecycleInv /\ [LifecycleNext]_lifecycleVars => LifecycleInv'
<1> SUFFICES ASSUME LifecycleInv, [LifecycleNext]_lifecycleVars PROVE ClosersInv'
  BY LifecycleTypeStep DEF LifecycleInv
<1>1. CASE \/ Cutoff \/ Deadline \/ NextDay \/ CancelRequest \/ Reset
           \/ \E w \in Handlers : Request(w) \/ HandlerStep(w)
           \/ UNCHANGED lifecycleVars
  BY <1>1, ClosersUntouched
<1>2. CASE \E c \in Closers : BeginPass(c) \/ CloserStep(c)
  BY <1>2, ClosersPause, ClosersPlace, ClosersExecute DEF CloserStep
<1>3. CASE \E w \in Workers : Stop(w)
  BY <1>3, ClosersStop
<1>4. CASE LifecycleNext
  BY <1>1, <1>2, <1>3, <1>4 DEF LifecycleNext
<1> QED BY <1>1, <1>4

(* In every state of the day the clock, the closers and the two records    *)
(* have the values of the code, and a closer executes only a SYSTEM order. *)
THEOREM LifecycleTypes == LifecycleSpec => []LifecycleTypeOK
<1> QED BY LifecycleStarts, LifecycleStep, LifecycleInvMeans, PTL DEF LifecycleSpec

-----------------------------------------------------------------------------
(* The books.                                                              *)

(* A closing order reserves nothing. *)
LEMMA BalancePlaces ==
  ASSUME BalanceInv, ClosersInv, TypeOK', NEW c, NEW o, Places(c, o)
  PROVE  RowsInv' /\ BlockedBalance'
<1> USE DEF BalanceInv, TypeInv
<1>0. TypeOK
  OBVIOUS
<1>1. /\ o \in Orders /\ status[o] = "NONE"
      /\ status' = [status EXCEPT ![o] = "PENDING"]
      /\ \A q \in Orders : q # o => order'[q] = order[q]
  BY DEF Places, TypeOK
<1>2. blocked' = blocked /\ reserved' = reserved /\ position' = position
  BY DEF Places, wallet
<1>3. reserved[o] = 0
  BY <1>1 DEF RowsInv
<1>4. RowsInv'
  BY <1>0, <1>1, <1>2, <1>3 DEF RowsInv, TypeOK
<1>5. ActiveReserved' = ActiveReserved
  BY <1>0, <1>1, <1>2, <1>3 DEF ActiveReserved, TypeOK, Active
<1>6. TotalMargin' = TotalMargin
  BY <1>2 DEF TotalMargin
<1> QED BY <1>2, <1>4, <1>5, <1>6 DEF BlockedBalance

(* A mark moves no amount. *)
LEMMA BalanceMarks ==
  ASSUME BalanceInv, Marks
  PROVE  RowsInv' /\ BlockedBalance'
<1>1. blocked' = blocked /\ status' = status /\ reserved' = reserved /\ order' = order
  BY DEF Marks, wallet, rows
<1>2. RowsInv'
  BY <1>1 DEF BalanceInv, RowsInv
<1>3. TotalMargin' = TotalMargin
  BY MarksRow DEF BalanceInv, TotalMargin, Books, MarginBooks
<1>4. ActiveReserved' = ActiveReserved
  BY <1>1 DEF ActiveReserved
<1> QED BY <1>1, <1>2, <1>3, <1>4 DEF BalanceInv, BlockedBalance

(* The intraday closing keeps the account's books: at any time what is     *)
(* blocked is what active orders, the closers' among them, reserve and     *)
(* positions tie up, in an instance where it holds without the closers.    *)
THEOREM IntradayBooksKept ==
  ASSUME NoStopMeetsReset, SquareOffsReserveNothing
  PROVE  LifecycleSpec => []IntradayKept
<1> DEFINE Inv == BalanceInv /\ ClosersInv
<1>1. LifecycleInit => Inv
  BY LifecycleStarts, BalanceInit DEF LifecycleInit, LifecycleInv
<1>2. Inv /\ [LifecycleNext]_lifecycleVars => Inv'
  <2> SUFFICES ASSUME BalanceInv, ClosersInv, [LifecycleNext]_lifecycleVars
               PROVE  Inv'
    OBVIOUS
  <2>1. LifecycleInv /\ LifecycleKinds
    BY LifecycleStepKinds DEF BalanceInv, LifecycleInv
  <2>2. TypeInv' /\ ClosersInv'
    BY <2>1, LifecycleStep DEF LifecycleInv
  <2>3. CASE [Next]_vars
    BY <2>2, <2>3, BalanceStep
  <2>4. CASE \E c \in Closers, o \in Orders : Places(c, o)
    BY <2>2, <2>4, BalancePlaces DEF BalanceInv, TypeInv
  <2>5. CASE Marks
    BY <2>2, <2>5, BalanceMarks DEF BalanceInv
  <2>6. CASE PassStops
    <3>1. UNCHANGED <<blocked, status, reserved, order, position>>
      BY <2>6 DEF PassStops, account, wallet, rows
    <3> QED BY <2>2, <3>1, BalanceFrame DEF BalanceInv
  <2> QED BY <2>1, <2>2, <2>3, <2>4, <2>5, <2>6 DEF LifecycleKinds
<1>3. Inv => IntradayKept
  BY LifecycleInvMeans DEF BalanceInv, LifecycleInv, IntradayKept
<1> QED BY <1>1, <1>2, <1>3, PTL DEF LifecycleSpec

-----------------------------------------------------------------------------
(* The cut-off.                                                            *)

TowardsZero(old, new) ==
  \/ 0 <= new /\ new <= old
  \/ old <= new /\ new <= 0

(* A square-off's fill moves its position towards zero. *)
LEMMA ClosingShrinks ==
  ASSUME TypeInv, NEW w \in Workers, SettleMargin(w), order[call[w].order].reason = "SQUARE_OFF"
  PROVE  LET b == order[call[w].order].book
         IN  TowardsZero(position[b].qty, position'[b].qty)
<1> DEFINE o == call[w].order
           b == order[o].book
           q == position[b].qty
           n == FilledQty(o)
<1>1. call[w].pc = "settle" /\ b \in MarginBooks /\ ~ NothingToClose(o)
  BY DEF SettleMargin, Obsolete
<1>2. Fill(o, FillPrice(order[o], call[w].price), position'[b])
  BY MarginFills
<1>3. /\ q \in Int /\ n \in Nat /\ order[o].qty \in Nat /\ order[o].side \in Sides
  BY <1>1, SettlementOperands DEF OrderRows, PositionRows
<1>4. position'[b].qty = q + Delta(order[o].side, n)
  BY <1>2 DEF Fill, TransitionQty
<1>5. n <= Magnitude(q)
  BY <1>1, <1>3 DEF FilledQty, Smaller, Magnitude
<1>6. q # 0 /\ (q > 0) = (order[o].side = "SELL")
  BY <1>1, <1>3 DEF NothingToClose, MarginBooks
<1> HIDE DEF n, q, b, o
<1>7. TowardsZero(q, q + Delta(order[o].side, n))
  BY <1>3, <1>5, <1>6 DEF TowardsZero, Delta, Magnitude, Sides
<1> QED BY <1>4, <1>7 DEF n, q, b, o

(* What settles once the cut-off has passed, and was not under way, is a   *)
(* closing order or of another book.                                       *)
LEMMA LateSettlementCloses ==
  ASSUME LifecycleInv, phase # "trading", Unlocked, NEW w \in Workers, Settle(w), SettleMargin(w)
  PROVE  TowardsZero(position["INTRADAY"].qty, position'["INTRADAY"].qty)
<1> USE DEF LifecycleInv
<1> DEFINE o == call[w].order
<1>0. /\ w # Nobody /\ underway = Nobody /\ "INTRADAY" \in Books
      /\ position["INTRADAY"].qty \in Int
  BY LifecycleAssumption DEF Unlocked, TypeInv, TypeOK, PositionRows, Books, MarginBooks
<1>1. InTime(w)
  <2>1. Len(trades') = Len(trades) + 1 /\ Len(trades) \in Nat
    <3>1. \E t : trades' = Append(trades, t)
      BY DEF SettleMargin, Record
    <3>2. trades \in Seq(Trades)
      BY DEF TypeInv, TypeOK
    <3> QED BY <3>1, <3>2
  <2>2. ~ RefuseSettlement(w)
    BY <2>1 DEF RefuseSettlement, account
  <2> QED BY <2>2 DEF Settle
<1>2. CASE order[o].book = "INTRADAY"
  <2>1. o \in system
    BY <1>0, <1>1, <1>2 DEF InTime
  <2>2. order[o].reason = "SQUARE_OFF"
    BY <2>1 DEF ClosersInv, ClosingOrder
  <2> QED BY <1>2, <2>2, ClosingShrinks
<1>3. CASE order[o].book # "INTRADAY"
  <2>1. Fill(o, FillPrice(order[o], call[w].price), position'[order[o].book])
    BY MarginFills
  <2>2. position'["INTRADAY"] = position["INTRADAY"]
    BY <1>0, <1>3, <2>1 DEF Fill, TypeInv, TypeOK
  <2> QED BY <1>0, <2>2 DEF TowardsZero
<1> QED BY <1>2, <1>3

(* From 15:20 on an intraday position only moves towards zero.             *)
THEOREM CutoffFreezes == LifecycleSpec => CutoffFreezesPosition
<1> DEFINE Frozen == phase # "trading" /\ Unlocked /\ epoch' = epoch =>
                       LET old == position["INTRADAY"].qty
                           new == position'["INTRADAY"].qty
                       IN  \/ 0 <= new /\ new <= old
                           \/ old <= new /\ new <= 0
<1>1. LifecycleInv /\ [LifecycleNext]_lifecycleVars => [Frozen]_lifecycleVars
  <2> SUFFICES ASSUME LifecycleInv, [LifecycleNext]_lifecycleVars, phase # "trading", Unlocked,
                      epoch' = epoch
               PROVE  TowardsZero(position["INTRADAY"].qty, position'["INTRADAY"].qty)
    BY DEF TowardsZero
  <2> USE DEF LifecycleInv
  <2>0. /\ position["INTRADAY"].qty \in Int /\ "INTRADAY" \in Books /\ epoch \in Nat
        /\ Closers \subseteq Workers /\ Handlers \subseteq Workers
    BY LifecycleAssumption DEF TypeInv, TypeOK, PositionRows, Books, MarginBooks, Handlers
  <2>1. ASSUME position'["INTRADAY"].qty = position["INTRADAY"].qty
        PROVE  TowardsZero(position["INTRADAY"].qty, position'["INTRADAY"].qty)
    BY <2>0, <2>1 DEF TowardsZero
  <2>2. CASE UNCHANGED lifecycleVars
    BY <2>1, <2>2 DEF lifecycleVars, engine, vars
  <2>3. CASE Cutoff \/ Deadline \/ NextDay \/ CancelRequest
    BY <2>1, <2>3 DEF Cutoff, Deadline, NextDay, CancelRequest, Cancel, engine, vars
  <2>4. ~ Reset
    BY <2>0 DEF Reset, ResetCurrentState
  <2>5. ASSUME NEW w \in Handlers, Request(w) PROVE position' = position
    BY <2>5 DEF Request, SubmitOrder, SquareOffPosition, BeginExecute, account
  <2>6. ASSUME NEW w \in Workers, Prepare(w) \/ Settle(w)
        PROVE  TowardsZero(position["INTRADAY"].qty, position'["INTRADAY"].qty)
    <3>1. CASE Prepare(w)
      <4>1. position' = position
        BY <3>1 DEF Prepare, CreateIntent, JoinIntent, RefuseOrder, Unavailable, ActivateStop,
                    Reject, account
      <4> QED BY <2>1, <4>1
    <3>2. CASE Settle(w) /\ SettleMargin(w)
      BY <3>2, LateSettlementCloses
    <3>3. CASE Settle(w) /\ ~ SettleMargin(w)
      <4>1. position' = position
        BY <3>3 DEF Settle, CancelObsolete, RefuseSettlement, account
      <4> QED BY <2>1, <4>1
    <3> QED BY <2>6, <3>1, <3>2, <3>3
  <2>7. ASSUME NEW c \in Closers, BeginPass(c) \/ CancelOpenOrder(c) \/ ReadPosition(c)
                                  \/ PlaceClosingOrder(c) \/ RecordRisk(c)
        PROVE  position' = position
    BY <2>7 DEF BeginPass, CancelOpenOrder, ReadPosition, PlaceClosingOrder, RecordRisk, Cancel,
                engine, vars
  <2>8. ASSUME NEW c \in Closers, MarkPosition(c)
        PROVE  position'["INTRADAY"].qty = position["INTRADAY"].qty
    <3>1. CASE Marks
      BY <2>0, <3>1, MarksRow
    <3>2. CASE UNCHANGED vars
      BY <3>2 DEF vars
    <3> QED BY <2>8, <3>1, <3>2, MarkSaves
  <2>9. ASSUME NEW w \in Workers, Stop(w) PROVE position' = position
    BY <2>9 DEF Stop, account
  <2>10. CASE LifecycleNext
    <3>1. CASE \E w \in Handlers : Request(w) \/ HandlerStep(w)
      BY <2>0, <2>1, <2>5, <2>6, <3>1 DEF HandlerStep
    <3>2. CASE \E c \in Closers : BeginPass(c) \/ CloserStep(c)
      BY <2>0, <2>1, <2>6, <2>7, <2>8, <3>2 DEF CloserStep, ExecuteClosingOrder
    <3>3. CASE \E w \in Workers : Stop(w)
      BY <2>1, <2>9, <3>3
    <3> QED BY <2>3, <2>4, <2>10, <3>1, <3>2, <3>3 DEF LifecycleNext
  <2> QED BY <2>2, <2>10
<1> QED BY <1>1, LifecycleStarts, LifecycleStep, PTL DEF LifecycleSpec, CutoffFreezesPosition
=============================================================================
