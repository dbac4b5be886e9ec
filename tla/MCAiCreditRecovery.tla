--------------------------- MODULE MCAiCreditRecovery ---------------------------
(***************************************************************************)
(* One row that may be under execution twice, two attempts before the      *)
(* queue gives up, and up to two crashes or failed calls.                  *)
(***************************************************************************)
EXTENDS AiCreditRecovery

MCReceipts == Keys \X (1 .. AttemptBound)
=============================================================================
