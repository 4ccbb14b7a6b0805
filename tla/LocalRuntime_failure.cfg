CONSTANTS
    Executions = {e1}
    NoExecution = NoExecution
    MaxSteers = 0
    Tasks = {t1}
    NoTask = NoTask
    MaxAttempts = 1
    ModelFailures = TRUE
    ChoiceBlocks = FALSE
    MaxCrashes = 0
SPECIFICATION LocalSafetySpec
INVARIANTS
    FailureIsRecorded
CHECK_DEADLOCK FALSE
