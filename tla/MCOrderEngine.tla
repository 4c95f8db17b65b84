--------------------------- MODULE MCOrderEngine ---------------------------
(***************************************************************************)
(* Instances of OrderEngine for TLC.  Quotes and limits are a few paise    *)
(* apart, so that limits lie between two quotes, and quantities differ, so *)
(* that margins, averages and partial sales round.                         *)
(***************************************************************************)
EXTENDS OrderEngine, TLC

Symmetric == Permutations(Keys) \cup Permutations(Workers)

Ask(b, s, t, q, p, tr) ==
  [book |-> b, side |-> s, type |-> t, qty |-> q, price |-> p,
   trigger |-> tr, reason |-> "NONE"]

(* Shares bought in one size and sold in others. *)
DeliveryRequests ==
  { Ask("DELIVERY", "BUY", "LIMIT", 3, 107, 0), Ask("DELIVERY", "SELL", "MARKET", 1, 0, 0),
    Ask("DELIVERY", "SELL", "LIMIT", 2, 107, 0) }

(* Intraday and future positions that open, grow, shrink and reverse. *)
MarginRequests ==
  { Ask("INTRADAY", "BUY", "LIMIT", 2, 101, 0), Ask("INTRADAY", "SELL", "MARKET", 3, 0, 0),
    Ask("FUTURE", "SELL", "LIMIT", 1, 107, 0) }

(* Options written against margin and bought for a premium. *)
OptionRequests ==
  { Ask("OPTION", "SELL", "LIMIT", 2, 101, 0), Ask("OPTION", "BUY", "MARKET", 1, 0, 0) }

(* Stops of both types; those of 60 units fill worse than their trigger. *)
StopRequests ==
  { Ask("DELIVERY", "BUY", "SL", 1, 107, 101), Ask("DELIVERY", "BUY", "SL-M", 60, 0, 101),
    Ask("INTRADAY", "SELL", "SL-M", 60, 0, 101) }

(* Market orders of two books, retried. *)
RetryRequests ==
  { Ask("DELIVERY", "BUY", "MARKET", 1, 0, 0), Ask("INTRADAY", "BUY", "MARKET", 2, 0, 0) }

(* Positions of every margin book. *)
BookRequests == MarginRequests \cup OptionRequests

(* Requests of every type, retried. *)
AllTypes == RetryRequests \cup StopRequests

(* One stop that reserves money. *)
StopAtReset == { Ask("DELIVERY", "BUY", "SL", 1, 107, 101) }
=============================================================================
