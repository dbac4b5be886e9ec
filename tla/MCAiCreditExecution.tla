-------------------------- MODULE MCAiCreditExecution --------------------------
(***************************************************************************)
(* Two executions of one operation, results whose bytes may differ between *)
(* downloads, and up to two crashes or lost answers.                       *)
(***************************************************************************)
EXTENDS AiCreditExecution, TLC

MCReceipts == Keys \X (1 .. AttemptBound)
MCSymmetry == Permutations(Workers) \cup Permutations(Digests)
=============================================================================
