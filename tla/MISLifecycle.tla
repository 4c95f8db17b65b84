---------------------------- MODULE MISLifecycle ----------------------------
(***************************************************************************)
(* The intraday (MIS) day: from 15:20 the lifecycle scheduler cancels      *)
(* intraday orders and closes intraday positions, at 15:30 it gives up and *)
(* reports them; a user may ask for the same closing at any time.          *)
(*                                                                         *)
(* Both run as goroutines next to the handlers and the matcher.  Each      *)
(* reads orders and positions without a lock, then acts on what it read,   *)
(* and ends in OrderService.Execute: a closer is one more call of the      *)
(* order engine, and every step of the engine stays what it is.            *)
(***************************************************************************)
EXTENDS OrderEngine, FiniteSets

CONSTANTS Scheduler,   \* the goroutine of RunProductLifecycle
          Manual,      \* a request that runs TriggerManualMISSquareOff
          Nobody,
          MaxDays      \* bound on trading days

Closers == {Scheduler, Manual}
Handlers == Workers \ Closers

ASSUME LifecycleAssumption ==
  /\ Closers \subseteq Workers /\ Scheduler # Manual
  /\ Nobody \notin Workers
  /\ MaxDays \in Nat

VARIABLES phase,      \* "trading", "closing" from 15:20, "closed" from 15:30
          day,
          underway,   \* the settlement that saw a clock before 15:20 and has
                      \* not committed yet: it holds the wallet row
          system,     \* orders whose Source is SYSTEM
          closer,     \* what each closer is doing
          squareOff,  \* Position.SquareOffState of the intraday row
          event       \* Status of the latest MIS_SQUARE_OFF risk event

engine == vars
clock == <<phase, day, underway>>
lifecycleVars == <<engine, clock, system, closer, squareOff, event>>

Intraday == position["INTRADAY"]

(* What a closer remembers of the position row it read. *)
NoRow == [qty |-> 0, epoch |-> 0, state |-> "NONE"]
RowRead == [qty |-> Intraday.qty, epoch |-> epoch, state |-> squareOff]

(* late: the pass began after the deadline.  ProcessMISSquareOff is given   *)
(* the time once and never looks at the clock again.                       *)
At(pc, late, todo, row, outcome) ==
  [pc |-> pc, late |-> late, todo |-> todo, row |-> row, outcome |-> outcome]
Resting == At("rest", FALSE, {}, NoRow, "NONE")

Unlocked == underway = Nobody

-----------------------------------------------------------------------------
(* The clock.                                                               *)

(* Fault: the settlement does not look at the clock again. *)
InTimeAlways(w) == TRUE

(* ValidateMISOrder at the settlement: a user's intraday order must have    *)
(* found the clock before 15:20.                                            *)
InTime(w) ==
  LET o == call[w].order
  IN  order[o].book = "INTRADAY" /\ o \notin system => phase = "trading" \/ underway = w

(* 15:20, possibly in the middle of one settlement transaction. *)
Cutoff ==
  /\ phase = "trading"
  /\ phase' = "closing"
  /\ underway' \in {Nobody} \cup {w \in Workers : call[w].pc = "settle"}
  /\ UNCHANGED <<engine, day, system, closer, squareOff, event>>

Deadline ==
  /\ phase = "closing" /\ Unlocked
  /\ phase' = "closed"
  /\ UNCHANGED <<engine, day, underway, system, closer, squareOff, event>>

NextDay ==
  /\ phase = "closed" /\ day < MaxDays
  /\ phase' = "trading" /\ day' = day + 1
  /\ UNCHANGED <<engine, underway, system, closer, squareOff, event>>

-----------------------------------------------------------------------------
(* Calls of the engine, under the clock.                                    *)

Settle(w) ==
  /\ call[w].pc = "settle"
  /\ underway \in {w, Nobody}
  /\ \/ InTime(w) /\ (SettleMargin(w) \/ CancelObsolete(w))
     \/ /\ RefuseSettlement(w)
        /\ LET o == call[w].order
               price == FillPrice(order[o], call[w].price)
           IN  \/ ~ InTime(w) \/ ~ Admissible(o, price)
               \/ ~ Obsolete(o) /\ ~ Covered(o, price)
  /\ underway' = Nobody

Prepare(w) ==
  /\ Unlocked /\ UNCHANGED underway
  /\ \/ CreateIntent(w) \/ JoinIntent(w) \/ RefuseOrder(w)
     \/ Unavailable(w)
     \/ \E ltp \in Prices : ActivateStop(w, ltp)
     \/ Reject(w)

(* A handler, or the matcher.  Create looks at the clock once, before it   *)
(* inserts: an order may still be stored after 15:20.                      *)
HandlerStep(w) ==
  /\ Prepare(w) \/ Settle(w)
  /\ UNCHANGED <<phase, day, system, closer, squareOff, event>>

Request(w) ==
  /\ Unlocked
  /\ \/ \E k \in Keys, r \in Requests :
          SubmitOrder(w, k, r) /\ (phase = "trading" \/ call'[w].pc # "create")
     \/ \E k \in ExitKeys : phase # "closed" /\ SquareOffPosition(w, "INTRADAY", k)
     \/ \E o \in Orders : BeginExecute(w, o)
  /\ UNCHANGED <<clock, system, closer, squareOff, event>>

CancelRequest ==
  /\ Unlocked
  /\ \E o \in Orders : Cancel(o)
  /\ UNCHANGED <<clock, system, closer, squareOff, event>>

(* The reset deletes the position row with its state, but no risk event. *)
Reset ==
  /\ Unlocked
  /\ ResetCurrentState
  /\ squareOff' = "NONE"
  /\ UNCHANGED <<clock, system, closer, event>>

-----------------------------------------------------------------------------
(* The closers.                                                             *)

(* Fault: an order is called open only when its status says so. *)
OpenIntradayOrdersOnlyOpen ==
  {o \in Orders : status[o] = "OPEN" /\ order[o].book = "INTRADAY"}

OpenIntradayOrders ==
  {o \in Orders : status[o] \in Active /\ order[o].book = "INTRADAY"}

(* A pass begins with an unlocked read of the orders to cancel. *)
BeginPass(c) ==
  /\ closer[c] = Resting
  /\ c = Scheduler => phase # "trading"
  /\ closer' = [closer EXCEPT ![c] =
       At("cancel", c = Scheduler /\ phase = "closed", OpenIntradayOrders, NoRow, "NONE")]
  /\ UNCHANGED <<engine, clock, system, squareOff, event>>

(* repo.Cancel, one order at a time; its error is ignored. *)
CancelOpenOrder(c) ==
  /\ Unlocked
  /\ closer[c].pc = "cancel"
  /\ \E o \in closer[c].todo :
       /\ closer' = [closer EXCEPT ![c].todo = @ \ {o}]
       /\ IF status[o] \in Active /\ reserved[o] <= blocked
          THEN Cancel(o) ELSE UNCHANGED engine
  /\ UNCHANGED <<clock, system, squareOff, event>>

(* Fault: only a position without a state is reported at the deadline. *)
ToReportUnmarked(row) == row.state = "NONE"
ToReport(row) == row.state # "FAILED"

(* The positions are read, again without a lock. *)
ReadPosition(c) ==
  LET late == closer[c].late
      next == IF ~ late THEN At("place", FALSE, {}, RowRead, "NONE")
              ELSE IF ToReport(RowRead) THEN At("mark", TRUE, {}, RowRead, "FAILED")
              ELSE Resting
  IN  /\ closer[c].pc = "cancel" /\ closer[c].todo = {}
      /\ closer' = [closer EXCEPT ![c] = IF Intraday.exists /\ Intraday.qty # 0
                                         THEN next ELSE Resting]
      /\ UNCHANGED <<engine, clock, system, squareOff, event>>

(* A SYSTEM market order against the quantity read; the insert may fail. *)
PlaceClosingOrder(c) ==
  LET q == closer[c].row.qty
      r == [book |-> "INTRADAY", side |-> IF q < 0 THEN "BUY" ELSE "SELL",
            type |-> "MARKET", qty |-> Magnitude(q), price |-> 0, trigger |-> 0,
            reason |-> "SQUARE_OFF"]
  IN  /\ closer[c].pc = "place"
      /\ \/ /\ \E o \in Orders :
                 /\ NextOrder(o)
                 /\ status' = [status EXCEPT ![o] = "PENDING"]
                 /\ order' = [order EXCEPT ![o] = OrderRow(r, NoKey, NoExit)]
                 /\ system' = system \cup {o}
                 /\ call' = [call EXCEPT ![c] = Executing(o, TRUE)]
            /\ closer' = [closer EXCEPT ![c].pc = "execute"]
            /\ UNCHANGED <<wallet, reserved, position, trades, history, crashes>>
         \/ closer' = [closer EXCEPT ![c] = Resting] /\ UNCHANGED <<engine, system>>
      /\ UNCHANGED <<clock, squareOff, event>>

(* Execute, then what its result means: an error rejects the order.  An    *)
(* order the settlement cancels counts as a success.                       *)
ExecuteClosingOrder(c) ==
  LET Ends(outcome) ==
        [closer EXCEPT ![c] = IF outcome = "PENDING" /\ c = Manual THEN Resting
                              ELSE At("mark", FALSE, {}, @.row, outcome)]
  IN  /\ closer[c].pc = "execute"
      /\ Prepare(c) \/ Settle(c)
      /\ closer' = IF call'[c] # Idle THEN closer
                   ELSE Ends(IF call[c].pc = "reject" THEN "PENDING" ELSE "COMPLETED")
      /\ UNCHANGED <<phase, day, system, squareOff, event>>

(* The row read is marked, which also moves its UpdatedAt, if a reset has  *)
(* not deleted it.                                                         *)
MarkPosition(c) ==
  /\ Unlocked
  /\ closer[c].pc = "mark"
  /\ IF Intraday.exists /\ closer[c].row.epoch = epoch
     THEN /\ squareOff' = closer[c].outcome
          /\ position' = [position EXCEPT !["INTRADAY"].rev = @ + 1]
     ELSE UNCHANGED <<squareOff, position>>
  /\ closer' = [closer EXCEPT ![c] = IF c = Scheduler THEN [@ EXCEPT !.pc = "record"]
                                     ELSE Resting]
  /\ UNCHANGED <<wallet, rows, trades, history, call, crashes, clock, system, event>>

(* recordRisk rewrites the unresolved event or inserts one; a success      *)
(* resolves a PENDING event and leaves a FAILED one as it is.              *)
EventAfter(outcome) ==
  IF outcome # "COMPLETED" THEN outcome
  ELSE IF event = "PENDING" THEN "RESOLVED" ELSE event

RecordRisk(c) ==
  /\ closer[c].pc = "record"
  /\ event' = EventAfter(closer[c].outcome)
  /\ closer' = [closer EXCEPT ![c] = Resting]
  /\ UNCHANGED <<engine, clock, system, squareOff>>

CloserStep(c) ==
  \/ CancelOpenOrder(c) \/ ReadPosition(c) \/ PlaceClosingOrder(c)
  \/ ExecuteClosingOrder(c) \/ MarkPosition(c) \/ RecordRisk(c)

(* The process stops: a running call or pass is gone, what it committed    *)
(* stays.  The scheduler's next pass starts from the beginning.            *)
Stop(w) ==
  /\ crashes < MaxCrashes
  /\ crashes' = crashes + 1
  /\ call[w] # Idle \/ (w \in Closers /\ closer[w] # Resting)
  /\ call' = [call EXCEPT ![w] = Idle]
  /\ closer' = IF w \in Closers THEN [closer EXCEPT ![w] = Resting] ELSE closer
  /\ underway' = IF underway = w THEN Nobody ELSE underway
  /\ UNCHANGED <<account, phase, day, system, squareOff, event>>

-----------------------------------------------------------------------------
LifecycleInit ==
  /\ Init
  /\ phase = "trading" /\ day = 0 /\ underway = Nobody
  /\ system = {}
  /\ closer = [c \in Closers |-> Resting]
  /\ squareOff = "NONE" /\ event = "NONE"

LifecycleNext ==
  \/ Cutoff \/ Deadline \/ NextDay
  \/ \E w \in Handlers : Request(w) \/ HandlerStep(w)
  \/ CancelRequest \/ Reset
  \/ \E c \in Closers : BeginPass(c) \/ CloserStep(c)
  \/ \E w \in Workers : Stop(w)

LifecycleSpec == LifecycleInit /\ [][LifecycleNext]_lifecycleVars

(* A call that has begun runs on, and the scheduler's ticker starts its    *)
(* next pass after every pass.  The clock and the clients get no fairness. *)
LifecycleFairness ==
  /\ \A w \in Handlers : WF_lifecycleVars(HandlerStep(w))
  /\ \A c \in Closers : WF_lifecycleVars(CloserStep(c))
  /\ WF_lifecycleVars(BeginPass(Scheduler))

FairLifecycleSpec == LifecycleSpec /\ LifecycleFairness

-----------------------------------------------------------------------------
(* The clock, the closers and the two records have the values of the code, *)
(* and a closer executes only a SYSTEM order of its own.                   *)
LifecycleTypeOK ==
  /\ TypeOK
  /\ phase \in {"trading", "closing", "closed"} /\ day \in 0..MaxDays
  /\ underway \in Workers \cup {Nobody}
  /\ system \subseteq {o \in Orders : status[o] # "NONE"}
  /\ squareOff \in {"NONE", "PENDING", "COMPLETED", "FAILED"}
  /\ event \in {"NONE", "PENDING", "FAILED", "RESOLVED"}
  /\ \A c \in Closers :
       /\ closer[c].pc = "execute" <=> call[c] # Idle
       /\ call[c] # Idle => call[c].order \in system /\ call[c].creating

(* From 15:20 on an intraday position only moves towards zero, whoever     *)
(* still has an order, an exit or a closing in flight, and however stale   *)
(* the quantity is from which a closing was sized.  Only the settlement    *)
(* that saw the clock before 15:20 is exempt.                              *)
CutoffFreezesPosition ==
  [][phase # "trading" /\ Unlocked /\ epoch' = epoch =>
       LET old == position["INTRADAY"].qty
           new == position'["INTRADAY"].qty
       IN  \/ 0 <= new /\ new <= old
           \/ old <= new /\ new <= 0]_lifecycleVars

(* An order stored late, left behind by a call that died or placed by the  *)
(* other closer is still gone some time after the market has closed.       *)
NoOrderOutlivesDay ==
  phase = "closed" ~>
    \/ phase = "trading"
    \/ \A o \in Orders : order[o].book = "INTRADAY" => status[o] \notin Active

StaysOpen == phase = "closed" /\ Intraday.qty # 0
ReportedOrGone ==
  phase = "trading" \/ Intraday.qty = 0 \/ (squareOff = "FAILED" /\ event = "FAILED")

(* A position that could not be closed is reported: its row and its risk   *)
(* event say FAILED some time after the deadline, whatever they said       *)
(* before and however the user's own closing interferes, if the process    *)
(* does not stop between the two writes.                                   *)
OpenIsReported == StaysOpen ~> ReportedOrGone \/ crashes > 0

(* The closing keeps the account's books: margin and reservations move with *)
(* the closers' orders as with any others, and the records they leave have *)
(* the values of the code.                                                  *)
IntradayKept == LifecycleTypeOK /\ BlockedBalance
=============================================================================
