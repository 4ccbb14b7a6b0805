-------------------------- MODULE MCQueueScenarios --------------------------
(***************************************************************************)
(* QueueRuntime for TLC, narrowed to two scenarios: a worker killed, one   *)
(* shut down and the API crashed, with fewer executions ("stops"), and two *)
(* workers killed around a restart of the API ("kills").  Executions,      *)
(* entries and workers are interchangeable.                                *)
(***************************************************************************)
EXTENDS QueueRuntime, TLC

VARIABLE scenario

Stops ==
    /\ Cardinality({e \in Executions : execs[e].pc # "unused"}) <= 3
    /\ faults.kill <= 1

Kills == faults.stop = 0

Within ==
    \/ scenario = "stops" /\ Stops
    \/ scenario = "kills" /\ Kills

ScenarioInit == QueueInit /\ scenario \in {"stops", "kills"}

ScenarioNext == QueueNext /\ UNCHANGED scenario /\ Within'

ScenarioSpec == ScenarioInit /\ [][ScenarioNext]_<<allVars, scenario>>

QueueSymmetry ==
    Permutations(Executions) \cup Permutations(Entries) \cup Permutations(Workers)
=============================================================================
