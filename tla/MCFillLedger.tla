------------------------------ MODULE MCFillLedger ------------------------------
(* Instances of FillLedger for TLC. *)
EXTENDS FillLedger, TLC

ExitSymmetry == Permutations(Exits)
=================================================================================
