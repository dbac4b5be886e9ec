-------------------------- MODULE MCMaterialDelivery --------------------------
(***************************************************************************)
(* One delivery of two executions.  The text stages of the prelude are     *)
(* left out: the review is such a stage.                                   *)
(***************************************************************************)
EXTENDS MaterialDelivery, TLC

MCNoPrelude == << >>
MCSymmetry == Permutations(Workers)
=============================================================================
