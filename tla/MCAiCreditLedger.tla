--------------------------- MODULE MCAiCreditLedger ---------------------------
(***************************************************************************)
(* A small wallet: two tasks that compete for the points of two payments,  *)
(* a price that changes between them, and two attempts per task.           *)
(***************************************************************************)
EXTENDS AiCreditLedger, TLC

MCSymmetry == Permutations(Keys) \cup Permutations(References)
=============================================================================
