----------------------------- MODULE MCFNOExpiry -----------------------------
(***************************************************************************)
(* Instances of FNOExpiry: one future and one option, closing above and    *)
(* below the quotes they were traded at.                                   *)
(***************************************************************************)
EXTENDS FNOExpiry, TLC

NoQuote == -1
Alike == Permutations(Workers) \cup Permutations(Keys)

Ask(b, s, t, q, p) ==
  [book |-> b, side |-> s, type |-> t, qty |-> q, price |-> p, trigger |-> 0,
   reason |-> "NONE"]

(* A future that is bought, and a limit sale that trims or reverses it. *)
FutureRequests == { Ask("FUTURE", "BUY", "MARKET", 2, 0), Ask("FUTURE", "SELL", "LIMIT", 3, 100) }

(* An option written, a future to be settled with it, and shares. *)
BothRequests ==
  { Ask("OPTION", "SELL", "MARKET", 1, 0), Ask("FUTURE", "SELL", "MARKET", 1, 0),
    Ask("DELIVERY", "BUY", "LIMIT", 1, 100) }

(* Positions of both contracts, in either direction, and shares. *)
ExpiryRequests == FutureRequests \cup BothRequests
=============================================================================
