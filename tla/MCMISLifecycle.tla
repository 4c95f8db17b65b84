--------------------------- MODULE MCMISLifecycle ---------------------------
(***************************************************************************)
(* Instances of MISLifecycle: one handler next to the two closers, and     *)
(* intraday orders only.                                                   *)
(***************************************************************************)
EXTENDS MISLifecycle

Ask(s, t, q, p, tr) ==
  [book |-> "INTRADAY", side |-> s, type |-> t, qty |-> q, price |-> p,
   trigger |-> tr, reason |-> "NONE"]

(* A position to close, and a stop that would open one after the cut-off. *)
DayRequests == { Ask("BUY", "MARKET", 2, 0, 0), Ask("SELL", "SL-M", 1, 0, 100) }

(* A position to close, and a limit order out of reach of the quotes. *)
LimitRequests == { Ask("BUY", "MARKET", 2, 0, 0), Ask("SELL", "LIMIT", 1, 107, 0) }
=============================================================================
