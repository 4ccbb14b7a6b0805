------------------------------- MODULE MCRest -------------------------------
(* LocalRuntime and QueueRuntime for TLC under their fairness: a behaviour  *)
(* is one of the single process or one of the API with its workers, and the *)
(* installation it is not of stays as it begins, where no fairness condition *)
(* of that installation asks for a step.                                    *)
CONSTANTS Executions, Fewer, NoExecution, Tasks, NoTask, Workers, Entries, NoEntry

VARIABLES
    installation,
    tasks, parent, turns, execs, delivered, proc, recovered, controllers, crashes,
    qtasks, qparent, qturns, qexecs, qdelivered,
    api, dispatches, cancels, stream, workers, faults

Local == INSTANCE LocalRuntime WITH
    MaxSteers <- 1, MaxAttempts <- 2, ModelFailures <- FALSE, ChoiceBlocks <- FALSE,
    MaxCrashes <- 1

Queue == INSTANCE QueueRuntime WITH
    Executions <- Fewer,
    MaxSteers <- 1, MaxAttempts <- 1, ModelFailures <- FALSE, ChoiceBlocks <- FALSE,
    MaxKills <- 1, MaxStops <- 0, MaxApiCrashes <- 0,
    tasks <- qtasks, parent <- qparent, turns <- qturns, execs <- qexecs,
    delivered <- qdelivered

localAllVars ==
    <<tasks, parent, turns, execs, delivered, proc, recovered, controllers, crashes>>
queueAllVars ==
    <<qtasks, qparent, qturns, qexecs, qdelivered,
      api, dispatches, cancels, stream, workers, faults>>

RestInit ==
    /\ installation \in {"single", "queue"}
    /\ Local!LocalInit
    /\ Queue!QueueInit

RestNext ==
    /\ \/ installation = "single" /\ Local!LocalNext /\ UNCHANGED queueAllVars
       \/ installation = "queue" /\ Queue!QueueNext /\ UNCHANGED localAllVars
    /\ UNCHANGED installation

RestSpec ==
    /\ RestInit
    /\ [][RestNext]_<<installation, localAllVars, queueAllVars>>
    /\ Local!LocalFairness
    /\ Queue!QueueFairness

\* The single process: a task the user leaves alone is brought to its end.
EveryTaskComesToRest == Local!EveryTaskComesToRest

\* The workers: what a worker was executing when it died, another one takes over.
CrashedWorkIsTakenOver == Queue!CrashedWorkIsTakenOver

\* The workers: no entry of the stream stays in it for ever.
EveryEntryIsAcknowledged == Queue!EveryEntryIsAcknowledged
=============================================================================
