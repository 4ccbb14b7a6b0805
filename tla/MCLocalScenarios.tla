-------------------------- MODULE MCLocalScenarios --------------------------
(***************************************************************************)
(* LocalRuntime for TLC, narrowed to two scenarios: one task whose text    *)
(* holds no choice, with as many steers, answers, crashes and executions   *)
(* as the constants allow, and two tasks whose choices may be answered     *)
(* while they run, within tighter bounds.  Tasks and executions are        *)
(* interchangeable.                                                        *)
(***************************************************************************)
EXTENDS LocalRuntime, TLC

VARIABLE scenario

OneTask ==
    /\ Cardinality({t \in Tasks : tasks[t].status # "absent"}) <= 1
    /\ \A t \in Tasks : ~ tasks[t].choice

TwoTasks ==
    /\ Cardinality({e \in Executions : execs[e].pc # "unused"}) <= 3
    /\ crashes <= 1
    /\ \A t \in Tasks : tasks[t].steerRevision <= 1 /\ tasks[t].attempt <= 3

Within ==
    \/ scenario = "one" /\ OneTask
    \/ scenario = "two" /\ TwoTasks

ScenarioInit == LocalInit /\ scenario \in {"one", "two"}

ScenarioNext == LocalNext /\ UNCHANGED scenario /\ Within'

ScenarioSpec == ScenarioInit /\ [][ScenarioNext]_<<allVars, scenario>>

ScenarioSymmetry == Permutations(Executions) \cup Permutations(Tasks)
=============================================================================
