------------------------------- MODULE Totals -------------------------------
(***************************************************************************)
(* The sum of the first n terms of a function on the positive integers.    *)
(* PostgreSQL's SUM(...) over a user's order rows, and the loops of the    *)
(* reconciliation report, become sums over the order numbers.  It is a     *)
(* recursive function, not a RECURSIVE operator, so that theorems can be   *)
(* proved about it (OrderEngine_proofs).                                   *)
(***************************************************************************)
EXTENDS Integers

PartialSum(f, n) ==
  LET s[i \in 0..n] == IF i = 0 THEN 0 ELSE s[i - 1] + f[i]
  IN  s[n]
=============================================================================
