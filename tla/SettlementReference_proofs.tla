--------------------- MODULE SettlementReference_proofs ---------------------
(***************************************************************************)
(* The archive of closing prices for any number of observations,           *)
(* settlements and restarts.                                               *)
(***************************************************************************)
EXTENDS SettlementReference, TLAPS

USE DEF Observations, Maybe, Late, Later, Waiting

LEMMA LastInNat == Last \in Nat
  BY ReferenceAssumption

(* TypeOK is inductive once a call that stores a quote is known to have     *)
(* one; and a settlement has no price before it is done.                    *)
CallsHoldQuotes ==
  \A s \in Settlements :
    /\ settle[s].pc = "insert" => settle[s].row \in Observations
    /\ settle[s].pc = "reread" => row # 0
    /\ settle[s].pc # "done" => used[s] = 0

(* Everything a settlement can have used was in the row: it is never empty  *)
(* again, and whatever it holds is remembered in stored.                    *)
RowRemembered == row # 0 => row \in stored

(* The flushing thread removes what is archived only: between its commit    *)
(* and its second look at the pending rows, the row is at least as new.     *)
FlushArchived == flush.pc = "clear" => row >= flush.row

ArchiveInv ==
  /\ TypeOK
  /\ CallsHoldQuotes
  /\ RowRemembered
  /\ FlushArchived
  /\ NewestKept
  /\ PriceWasStored

LEMMA InitArchive == Init => ArchiveInv
  BY LastInNat DEF Init, ArchiveInv, TypeOK, CallsHoldQuotes, RowRemembered,
     FlushArchived, NewestKept, PriceWasStored

(* No action of the worker touches a settlement, and the row only grows.    *)
LEMMA WorkerStep ==
  ASSUME ArchiveInv,
         \/ \E t \in Observations \cup {Late} : Record(t)
         \/ WriteQuote \/ LoseCache
         \/ BeginFlush \/ WriteRow \/ FailWrite \/ ClearPending \/ RestartWorker
  PROVE  ArchiveInv' /\ row' >= row
<1> USE LastInNat DEF ArchiveInv, worker, backend
<1>1. CASE \E t \in Observations \cup {Late} : Record(t)
  BY <1>1 DEF Record, Recorded, TypeOK, CallsHoldQuotes, RowRemembered,
     FlushArchived, NewestKept, PriceWasStored
<1>2. CASE WriteQuote
  BY <1>2 DEF WriteQuote, TypeOK, CallsHoldQuotes, RowRemembered,
     FlushArchived, NewestKept, PriceWasStored
<1>3. CASE LoseCache
  BY <1>3 DEF LoseCache, TypeOK, CallsHoldQuotes, RowRemembered,
     FlushArchived, NewestKept, PriceWasStored
<1>4. CASE BeginFlush
  BY <1>4 DEF BeginFlush, TypeOK, CallsHoldQuotes, RowRemembered,
     FlushArchived, NewestKept, PriceWasStored
<1>5. CASE WriteRow
  <2>1. /\ flush.pc = "write" /\ flush.row \in Observations /\ row \in Maybe
        /\ row' = Upsert(row, flush.row)
        /\ stored' = stored \cup {row'}
        /\ flush' = [flush EXCEPT !.pc = "clear"]
        /\ UNCHANGED <<pending, tick, latest, newest, restarts, backend, cache>>
    BY <1>5 DEF WriteRow, TypeOK
  <2>2. row' \in Maybe /\ row' >= row /\ row' >= flush.row /\ row' # 0
    BY <2>1 DEF Upsert
  <2>3. flush' = [pc |-> "clear", row |-> flush.row]
    BY <2>1 DEF TypeOK
  <2>6. CallsHoldQuotes'
    BY <2>1, <2>2 DEF CallsHoldQuotes, backend
  <2>4. TypeOK'
    BY <2>1, <2>2, <2>3 DEF TypeOK
  <2>5. NewestKept'
    BY <2>1, <2>2 DEF NewestKept, TypeOK
  <2> QED
    BY <2>1, <2>2, <2>3, <2>4, <2>5, <2>6
    DEF RowRemembered, FlushArchived, PriceWasStored, backend
<1>6. CASE FailWrite
  BY <1>6 DEF FailWrite, TypeOK, CallsHoldQuotes, RowRemembered,
     FlushArchived, NewestKept, PriceWasStored
<1>7. CASE ClearPending
  BY <1>7 DEF ClearPending, Remains, TypeOK, CallsHoldQuotes, RowRemembered,
     FlushArchived, NewestKept, PriceWasStored
<1>8. CASE RestartWorker
  BY <1>8 DEF RestartWorker, TypeOK, CallsHoldQuotes, RowRemembered,
     FlushArchived, NewestKept, PriceWasStored
<1> QED
  BY <1>1, <1>2, <1>3, <1>4, <1>5, <1>6, <1>7, <1>8

LEMMA BackendStep ==
  ASSUME ArchiveInv, NEW s \in Settlements, SettleStep(s)
  PROVE  ArchiveInv' /\ row' >= row
<1> USE LastInNat DEF ArchiveInv, worker, At, Use
<1>1. CASE ReadReference(s)
  <2>1. CASE row # 0
    <3>1. /\ used' = [used EXCEPT ![s] = row]
          /\ settle' = [settle EXCEPT ![s] = [pc |-> "done", row |-> 0]]
          /\ UNCHANGED <<worker, cache, row, stored>>
      BY <1>1, <2>1 DEF ReadReference
    <3>2. TypeOK'
      BY <3>1 DEF TypeOK
    <3>3. CallsHoldQuotes'
      BY <3>1 DEF CallsHoldQuotes, TypeOK
    <3> QED
      BY <2>1, <3>1, <3>2, <3>3 DEF TypeOK, RowRemembered,
         FlushArchived, NewestKept, PriceWasStored
  <2>2. CASE row = 0
    BY <1>1, <2>2 DEF ReadReference, TypeOK, CallsHoldQuotes, RowRemembered,
       FlushArchived, NewestKept, PriceWasStored
  <2> QED
    BY <2>1, <2>2
<1>2. CASE ReadQuote(s)
  BY <1>2 DEF ReadQuote, TypeOK, CallsHoldQuotes, RowRemembered,
     FlushArchived, NewestKept, PriceWasStored
<1>3. CASE InsertReference(s)
  <2>1. /\ settle[s].row \in Observations /\ row \in Maybe
        /\ row' = IF row = 0 THEN settle[s].row ELSE row
        /\ stored' = stored \cup {row'}
        /\ settle' = [settle EXCEPT ![s].pc = "reread"]
        /\ UNCHANGED <<used, pending, tick, latest, flush, newest, restarts, cache>>
    BY <1>3 DEF InsertReference, CallsHoldQuotes, TypeOK
  <2>2. row' \in Maybe /\ row' >= row /\ row' # 0
    BY <2>1
  <2>3. TypeOK'
    BY <2>1, <2>2 DEF TypeOK
  <2>4. CallsHoldQuotes'
    <3> SUFFICES ASSUME NEW t \in Settlements
                 PROVE  /\ settle'[t].pc = "insert" => settle'[t].row \in Observations
                        /\ settle'[t].pc = "reread" => row' # 0
                        /\ settle'[t].pc # "done" => used'[t] = 0
      BY DEF CallsHoldQuotes
    <3>1. CASE t = s
      BY <1>3, <2>1, <2>2, <3>1 DEF InsertReference, CallsHoldQuotes, TypeOK
    <3>2. CASE t # s
      <4>1. settle'[t] = settle[t] /\ used'[t] = used[t]
        BY <2>1, <3>2 DEF TypeOK
      <4> QED
        BY <2>2, <4>1 DEF CallsHoldQuotes
    <3> QED
      BY <3>1, <3>2
  <2>5. NewestKept' /\ FlushArchived'
    BY <2>1, <2>2 DEF NewestKept, FlushArchived, TypeOK
  <2> QED
    BY <2>1, <2>2, <2>3, <2>4, <2>5 DEF RowRemembered, PriceWasStored
<1>4. CASE ReadAgain(s)
  BY <1>4 DEF ReadAgain, DurablePrice, TypeOK, CallsHoldQuotes, RowRemembered,
     FlushArchived, NewestKept, PriceWasStored
<1> QED
  BY <1>1, <1>2, <1>3, <1>4 DEF SettleStep

LEMMA ArchiveSteps == ArchiveInv /\ [Next]_vars => ArchiveInv' /\ row' >= row
<1> SUFFICES ASSUME ArchiveInv, [Next]_vars
             PROVE  ArchiveInv' /\ row' >= row
  OBVIOUS
<1>1. CASE UNCHANGED vars
  BY <1>1, LastInNat DEF vars, worker, backend, ArchiveInv, TypeOK,
     CallsHoldQuotes, RowRemembered, FlushArchived, NewestKept, PriceWasStored
<1>2. CASE \E s \in Settlements : SettleStep(s)
  BY <1>2, BackendStep
<1>3. CASE \/ \E t \in Observations \cup {Late} : Record(t)
           \/ WriteQuote \/ LoseCache
           \/ BeginFlush \/ WriteRow \/ FailWrite \/ ClearPending
           \/ RestartWorker
  BY <1>3, WorkerStep
<1> QED
  BY <1>1, <1>2, <1>3 DEF Next

LEMMA ArchiveHolds == Spec => []ArchiveInv
  BY InitArchive, ArchiveSteps, PTL DEF Spec

(* SettlementRecorder.flush: whatever fails or is recorded meanwhile, the   *)
(* newest observation of the closing window is archived or still pending.   *)
THEOREM NewestIsKept == Spec => []NewestKept
<1>1. ArchiveInv => NewestKept
  BY DEF ArchiveInv
<1> QED
  BY <1>1, ArchiveHolds, PTL

(* finalQuotePrice: a settlement only ever uses a price the row has had.    *)
THEOREM SettlesAtStoredPrice == Spec => []PriceWasStored
<1>1. ArchiveInv => PriceWasStored
  BY DEF ArchiveInv
<1> QED
  BY <1>1, ArchiveHolds, PTL

(* The two upserts of the row: it never goes back in exchange time.         *)
THEOREM ReferenceAdvances == Spec => ReferenceOnlyAdvances
<1>1. ArchiveInv /\ [Next]_vars => [row' >= row]_vars
  BY ArchiveSteps
<1> QED
  BY <1>1, ArchiveHolds, PTL DEF Spec, ReferenceOnlyAdvances

-----------------------------------------------------------------------------
(* The archive implements ClosingPrice.                                     *)

LEMMA InitClosing == Init => Archive!Init
  BY DEF Init, Archive!Init

(* A write of the row that changes it publishes a later price ...           *)
LEMMA WritesPublish ==
  ASSUME ArchiveInv, [Next]_vars, used' = used
  PROVE  Archive!Publish \/ UNCHANGED <<row, used>>
<1>1. row \in Maybe /\ row' \in Maybe /\ row' >= row
  BY ArchiveSteps DEF ArchiveInv, TypeOK
<1> QED
  BY <1>1, LastInNat DEF Archive!Publish

(* ... and a settlement that is given a price takes the one in force.       *)
LEMMA CallsSettle ==
  ASSUME ArchiveInv, NEW s \in Settlements, SettleStep(s)
  PROVE  Archive!Settle(s) \/ used' = used
<1> USE DEF At, Use, ArchiveInv
<1>1. CASE ReadReference(s)
  BY <1>1 DEF ReadReference, CallsHoldQuotes, Archive!Settle
<1>2. CASE ReadQuote(s)
  BY <1>2 DEF ReadQuote
<1>3. CASE InsertReference(s)
  BY <1>3 DEF InsertReference
<1>4. CASE ReadAgain(s)
  BY <1>4 DEF ReadAgain, DurablePrice, CallsHoldQuotes, Archive!Settle
<1> QED
  BY <1>1, <1>2, <1>3, <1>4 DEF SettleStep

LEMMA WorkerSettlesNothing ==
  ASSUME \/ \E t \in Observations \cup {Late} : Record(t)
         \/ WriteQuote \/ LoseCache
         \/ BeginFlush \/ WriteRow \/ FailWrite \/ ClearPending \/ RestartWorker
  PROVE  used' = used
  BY DEF Record, WriteQuote, LoseCache, BeginFlush, WriteRow, FailWrite,
     ClearPending, RestartWorker, backend

LEMMA StepsClosing ==
  ArchiveInv /\ [Next]_vars => [Archive!Next]_<<row, used>>
<1> SUFFICES ASSUME ArchiveInv, [Next]_vars
             PROVE  Archive!Next \/ UNCHANGED <<row, used>>
  OBVIOUS
<1>1. CASE used' = used
  BY <1>1, WritesPublish DEF Archive!Next
<1>2. CASE used' # used
  <2>1. PICK s \in Settlements : SettleStep(s)
    BY <1>2, WorkerSettlesNothing DEF Next, vars, backend
  <2>2. Archive!Settle(s)
    BY <1>2, <2>1, CallsSettle
  <2> QED
    BY <2>2 DEF Archive!Next
<1> QED
  BY <1>1, <1>2

(* UpsertSettlementReferences, finalQuotePrice and SettlementRecorder.flush *)
(* together: whoever writes the row and whichever calls fail, settlements   *)
(* see one price that only gives way to later ones.                         *)
THEOREM ArchiveImplementsClosingPrice == Spec => SettlesAtPriceInForce
<1>1. ArchiveInv /\ [Next]_vars => [Archive!Next]_<<row, used>>
  BY StepsClosing
<1> QED
  BY <1>1, InitClosing, ArchiveHolds, PTL
  DEF Spec, SettlesAtPriceInForce, Archive!Spec
=============================================================================
