-------------------------- MODULE MCAiGenerationTasks --------------------------
(***************************************************************************)
(* Two processes with a worker each, and an execution for each of them.    *)
(***************************************************************************)
EXTENDS AiGenerationTasks, TLC

MCSymmetry == Permutations(Executions)
=============================================================================
