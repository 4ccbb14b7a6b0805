--------------------------- MODULE MCLocalRuntime ---------------------------
(* LocalRuntime for TLC: executions are interchangeable. *)
EXTENDS LocalRuntime, TLC

ExecutionSymmetry == Permutations(Executions)
=============================================================================
