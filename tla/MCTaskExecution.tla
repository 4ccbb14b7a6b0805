-------------------------- MODULE MCTaskExecution --------------------------
(* TaskExecution for TLC: executions are interchangeable. *)
EXTENDS TaskExecution, TLC

ExecutionSymmetry == Permutations(Executions)
=============================================================================
