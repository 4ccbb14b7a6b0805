CONSTANTS
    Executions = {e1, e2, e3}
    NoExecution = NoExecution
    MaxSteers = 1
    Tasks = {t1}
    NoTask = NoTask
    MaxAttempts = 1
    ModelFailures = FALSE
    ChoiceBlocks = FALSE
    Workers = {w1, w2}
    Entries = {n1, n2}
    NoEntry = NoEntry
    MaxKills = 1
    MaxStops = 0
    MaxApiCrashes = 0
SPECIFICATION QueueSafetySpec
SYMMETRY QueueSymmetry
INVARIANTS
    HealthyNotTakenOver
CHECK_DEADLOCK FALSE
