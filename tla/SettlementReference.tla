------------------------ MODULE SettlementReference ------------------------
(***************************************************************************)
(* The closing price of one symbol, session and feed mode.  The market     *)
(* worker archives observations of the last minute in PostgreSQL while it  *)
(* writes quotes to Redis; the backend settles expired positions at the    *)
(* archived price, or archives its own quote when there is none.  Worker   *)
(* and backend share nothing but the row and the cached quote.             *)
(*                                                                         *)
(* An observation is its exchange time: 1..Last are the times of the       *)
(* closing window in order, Late is any time after the close, 0 is none.   *)
(***************************************************************************)
EXTENDS Integers

CONSTANTS Last,         \* observations the closing window may hold
          Settlements,  \* expired positions, each settled by a call of its own
          MaxRestarts   \* bound on worker restarts

ASSUME ReferenceAssumption == Last \in Nat /\ MaxRestarts \in Nat

VARIABLES pending,   \* SettlementRecorder.pending of the key
          tick,      \* recorded, and not yet written to Redis
          latest,    \* QuoteWriter._last_quote_cache of the symbol
          flush,     \* the flushing thread: [pc, row]
          cache,     \* time of the quote in Redis
          row,       \* the settlement_references row
          settle,    \* what each settlement is doing, with its own quote
          used,      \* the price each settlement was given
          newest,    \* newest observation recorded since the worker started
          stored,    \* all values the row has had
          restarts

worker == <<pending, tick, latest, flush, newest, restarts>>
backend == <<settle, used>>
vars == <<worker, backend, cache, row, stored>>

Observations == 1..Last
Maybe == 0..Last
Late == Last + 1

Later(a, b) == IF a > b THEN a ELSE b

Waiting == [pc |-> "idle", row |-> 0]

-----------------------------------------------------------------------------
(* The market worker.                                                       *)

(* Only observations of the closing window are recorded. *)
Recorded(t) == IF t \in Observations THEN t ELSE 0

(* QuoteWriter.write offers the tick to the archive before it looks whether *)
(* it is outdated.  Ticks may arrive out of order and after the close.      *)
Record(t) ==
  /\ tick = 0
  /\ tick' = t
  /\ pending' = Later(pending, Recorded(t))
  /\ newest' = Later(newest, Recorded(t))
  /\ UNCHANGED <<latest, flush, restarts, backend, cache, row, stored>>

(* The tick is written unless the worker, or Redis before the worker's      *)
(* first tick, knows a later one.                                           *)
WriteQuote ==
  LET known == IF latest # 0 THEN latest ELSE cache
  IN  /\ tick # 0
      /\ cache' = IF tick >= known THEN tick ELSE cache
      /\ latest' = Later(known, tick)
      /\ tick' = 0
      /\ UNCHANGED <<pending, flush, newest, restarts, backend, row, stored>>

(* The quote expires. *)
LoseCache ==
  /\ cache # 0
  /\ cache' = 0
  /\ UNCHANGED <<worker, backend, row, stored>>

(* The flushing thread copies the pending rows under the lock ... *)
BeginFlush ==
  /\ flush = Waiting
  /\ pending # 0
  /\ flush' = [pc |-> "write", row |-> pending]
  /\ UNCHANGED <<pending, tick, latest, newest, restarts, backend, cache, row, stored>>

(* ON CONFLICT DO UPDATE ... WHERE observed_at < EXCLUDED.observed_at *)
Upsert(old, new) == IF old < new THEN new ELSE old

(* ... writes them without it, in one transaction ... *)
WriteRow ==
  /\ flush.pc = "write"
  /\ row' = Upsert(row, flush.row)
  /\ stored' = stored \cup {row'}
  /\ flush' = [flush EXCEPT !.pc = "clear"]
  /\ UNCHANGED <<pending, tick, latest, newest, restarts, backend, cache>>

(* (which may fail, or commit without the answer reaching the worker) *)
FailWrite ==
  /\ flush.pc \in {"write", "clear"}
  /\ flush' = Waiting
  /\ UNCHANGED <<pending, tick, latest, newest, restarts, backend, cache, row, stored>>

(* Fault: what was recorded during the write is forgotten with the rest. *)
RemainsNothing == 0

(* A row is removed only if no newer observation has replaced it. *)
Remains == IF pending = flush.row THEN 0 ELSE pending

(* ... and removes what it has written. *)
ClearPending ==
  /\ flush.pc = "clear"
  /\ pending' = Remains
  /\ flush' = Waiting
  /\ UNCHANGED <<tick, latest, newest, restarts, backend, cache, row, stored>>

(* Pending rows live in memory only. *)
RestartWorker ==
  /\ restarts < MaxRestarts
  /\ restarts' = restarts + 1
  /\ pending' = 0 /\ tick' = 0 /\ latest' = 0 /\ newest' = 0
  /\ flush' = Waiting
  /\ UNCHANGED <<backend, cache, row, stored>>

-----------------------------------------------------------------------------
(* The backend: finalQuotePrice for one expired position, after the close.  *)

At(s, pc, quote) == [settle EXCEPT ![s] = [pc |-> pc, row |-> quote]]

Use(s, t) ==
  /\ used' = [used EXCEPT ![s] = t]
  /\ settle' = At(s, "done", 0)

ReadReference(s) ==
  /\ settle[s].pc = "idle"
  /\ IF row # 0 THEN Use(s, row)
     ELSE settle' = At(s, "quote", 0) /\ UNCHANGED used
  /\ UNCHANGED <<worker, cache, row, stored>>

(* Without a quote of the closing window the settlement is retried later. *)
ReadQuote(s) ==
  /\ settle[s].pc = "quote"
  /\ settle' = IF cache \in Observations THEN At(s, "insert", cache) ELSE At(s, "idle", 0)
  /\ UNCHANGED <<used, worker, cache, row, stored>>

(* ON CONFLICT DO NOTHING *)
InsertReference(s) ==
  /\ settle[s].pc = "insert"
  /\ row' = IF row = 0 THEN settle[s].row ELSE row
  /\ stored' = stored \cup {row'}
  /\ settle' = [settle EXCEPT ![s].pc = "reread"]
  /\ UNCHANGED <<used, worker, cache>>

(* Fault: the call's own quote is used although another row was there. *)
OwnQuote(s) == settle[s].row
DurablePrice(s) == row

ReadAgain(s) ==
  /\ settle[s].pc = "reread"
  /\ Use(s, DurablePrice(s))
  /\ UNCHANGED <<worker, cache, row, stored>>

SettleStep(s) == ReadReference(s) \/ ReadQuote(s) \/ InsertReference(s) \/ ReadAgain(s)

-----------------------------------------------------------------------------
Init ==
  /\ pending = 0 /\ tick = 0 /\ latest = 0 /\ flush = Waiting
  /\ cache = 0 /\ row = 0
  /\ settle = [s \in Settlements |-> Waiting]
  /\ used = [s \in Settlements |-> 0]
  /\ newest = 0 /\ stored = {} /\ restarts = 0

Next ==
  \/ \E t \in Observations \cup {Late} : Record(t)
  \/ WriteQuote \/ LoseCache
  \/ BeginFlush \/ WriteRow \/ FailWrite \/ ClearPending
  \/ RestartWorker
  \/ \E s \in Settlements : SettleStep(s)

Spec == Init /\ [][Next]_vars

(* The flushing thread wakes every second, and PostgreSQL does not fail for *)
(* ever.                                                                    *)
FairSpec ==
  /\ Spec
  /\ WF_vars(BeginFlush) /\ SF_vars(WriteRow) /\ WF_vars(ClearPending)

-----------------------------------------------------------------------------
(* Times are times of the closing window, and calls carry a quote only     *)
(* while they store it.                                                    *)
TypeOK ==
  /\ pending \in Maybe /\ row \in Maybe
  /\ {tick, latest, cache} \subseteq Maybe \cup {Late}
  /\ newest \in Maybe /\ stored \subseteq Maybe /\ restarts \in Nat
  /\ flush \in [pc : {"write", "clear"}, row : Observations] \cup {Waiting}
  /\ settle \in [Settlements -> [pc : {"idle", "quote", "insert", "reread", "done"},
                                 row : Maybe]]
  /\ used \in [Settlements -> Maybe]

(* "Pending references retained for retry": the newest observation of the  *)
(* closing window is archived or still pending, although recording goes on *)
(* during a flush, flushes fail and ticks arrive out of order.             *)
NewestKept == newest <= Later(row, pending)

(* The row only moves forward in exchange time, whoever writes it: never   *)
(* back to an observation that was pending while a newer one was stored.   *)
ReferenceOnlyAdvances == [][row' >= row]_vars

(* "Use the durable row, never an unrecorded price": a settlement never    *)
(* uses a quote of its own that lost against another writer.               *)
PriceWasStored == \A s \in Settlements : used[s] # 0 => used[s] \in stored

(* What a settlement sees of all this is ClosingPrice: one durable price    *)
(* that only gives way to later ones, taken once by each settlement while   *)
(* it is in force.  "Use the durable row, never an unrecorded price."       *)
Archive == INSTANCE ClosingPrice WITH price <- row, taken <- used

SettlesAtPriceInForce == Archive!Spec

(* What was recorded is archived in the end.                               *)
ArchiveCatchesUp ==
  \A t \in Observations : newest >= t ~> (row >= t \/ newest < t)
=============================================================================
