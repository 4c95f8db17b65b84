---------------------------- MODULE OrderLedger ----------------------------
(***************************************************************************)
(* What the order engine promises the owner of an account: an order is     *)
(* placed once, and then filled once or dropped, for good.  Only a fill    *)
(* moves a holding, by no more than the order asks and the way it asks;    *)
(* shares are paid for when bought, paid out when sold, and never sold     *)
(* short; cash is never overdrawn.  Quotes, stops, reservations, margins,  *)
(* calls, retries and crashes of OrderEngine are not seen here.            *)
(***************************************************************************)
EXTENDS Accounting

CONSTANTS Orders, InitialCash

VARIABLES phase,    \* of each order
          ticket,   \* what an order asks for, what a filled order got
          holding,  \* units held by book, negative when short
          cash

Tickets == [book : Books, side : Sides, qty : Nat \ {0}]

Init ==
  /\ phase = [o \in Orders |-> "none"]
  /\ ticket \in [Orders -> [book : Books, side : Sides, qty : {0}]]
  /\ holding = [b \in Books |-> 0]
  /\ cash = InitialCash

Place(o) ==
  /\ phase[o] = "none"
  /\ phase' = [phase EXCEPT ![o] = "open"]
  /\ ticket'[o] \in Tickets
  /\ ticket' = [ticket EXCEPT ![o] = ticket'[o]]
  /\ UNCHANGED <<holding, cash>>

Paid(t) ==
  /\ cash' >= 0
  /\ t.book = "DELIVERY" => IF t.side = "BUY" THEN cash' < cash ELSE cash' > cash

Fill(o) ==
  LET t == ticket[o]
      q == ticket'[o].qty
  IN  /\ phase[o] = "open"
      /\ phase' = [phase EXCEPT ![o] = "filled"]
      /\ q \in 1..t.qty
      /\ ticket' = [ticket EXCEPT ![o].qty = q]
      /\ holding' = [holding EXCEPT ![t.book] = @ + Delta(t.side, q)]
      /\ holding'["DELIVERY"] >= 0
      /\ Paid(t)

Drop(o) ==
  /\ phase[o] = "open"
  /\ phase' = [phase EXCEPT ![o] = "dropped"]
  /\ UNCHANGED <<ticket, holding, cash>>

Deposit == cash' > cash /\ UNCHANGED <<phase, ticket, holding>>

(* A reset drops open orders, not always all of them. *)
Reset ==
  /\ \E S \in SUBSET {o \in Orders : phase[o] = "open"} :
       phase' = [o \in Orders |-> IF o \in S THEN "dropped" ELSE phase[o]]
  /\ holding' = [b \in Books |-> 0]
  /\ cash' = InitialCash
  /\ UNCHANGED ticket

Next == (\E o \in Orders : Place(o) \/ Fill(o) \/ Drop(o)) \/ Deposit \/ Reset

Spec == Init /\ [][Next]_<<phase, ticket, holding, cash>>
=============================================================================
