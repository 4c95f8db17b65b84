---------------------------- MODULE ClosingPrice ----------------------------
(***************************************************************************)
(* What the archive of closing prices promises those who settle with it:   *)
(* one price per key, known by the exchange time it was observed at, that  *)
(* only ever gives way to a later one; and every settlement takes the      *)
(* price that is in force, once.  Worker, flushing thread, cache and       *)
(* retries of SettlementReference are not seen here.                       *)
(***************************************************************************)
EXTENDS Naturals

CONSTANTS Observations,  \* times a price may have been observed at, 0 not one
          Settlements

VARIABLES price,  \* the price in force, 0 while there is none
          taken   \* the price each settlement took, 0 before it did

Init == price = 0 /\ taken = [s \in Settlements |-> 0]

Publish ==
  /\ \E t \in Observations : t > price /\ price' = t
  /\ UNCHANGED taken

Settle(s) ==
  /\ price # 0 /\ taken[s] = 0
  /\ taken' = [taken EXCEPT ![s] = price]
  /\ UNCHANGED price

Next == Publish \/ \E s \in Settlements : Settle(s)

Spec == Init /\ [][Next]_<<price, taken>>
=============================================================================
