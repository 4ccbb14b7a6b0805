CONSTANTS
    Executions = {e1, e2, e3, e4}
    NoExecution = NoExecution
    MaxSteers = 2
    Tasks = {t1, t2}
    NoTask = NoTask
    MaxAttempts = 3
    ModelFailures = FALSE
    ChoiceBlocks = TRUE
    MaxCrashes = 2
SPECIFICATION ScenarioSpec
SYMMETRY ScenarioSymmetry
INVARIANTS
    LocalTypeOK
    StopReachesTheRun
    SteersMergeInOrder
    RunningIsOwned
    QueuedIsDispatched
    UnfinishedTaskHasTurn
PROPERTIES
    RefinesTaskExecution
CHECK_DEADLOCK FALSE
