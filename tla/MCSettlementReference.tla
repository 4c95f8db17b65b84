------------------------ MODULE MCSettlementReference ------------------------
(***************************************************************************)
(* Instances of SettlementReference: settlements differ in nothing.        *)
(***************************************************************************)
EXTENDS SettlementReference, TLC

Alike == Permutations(Settlements)
=============================================================================
