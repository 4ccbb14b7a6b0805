--------------------------- MODULE MCQueueRuntime ---------------------------
(* QueueRuntime for TLC: executions, entries and workers are interchangeable. *)
EXTENDS QueueRuntime, TLC

QueueSymmetry ==
    Permutations(Executions) \cup Permutations(Entries) \cup Permutations(Workers)
=============================================================================
