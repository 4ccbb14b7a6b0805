CONSTANTS
    Executions = {e1, e2, e3, e4}
    NoExecution = NoExecution
    MaxSteers = 1
    Tasks = {t1}
    NoTask = NoTask
    MaxAttempts = 1
    ModelFailures = FALSE
    ChoiceBlocks = FALSE
    Workers = {w1, w2}
    Entries = {n1, n2, n3}
    NoEntry = NoEntry
    MaxKills = 2
    MaxStops = 1
    MaxApiCrashes = 1
SPECIFICATION ScenarioSpec
SYMMETRY QueueSymmetry
INVARIANTS
    QueueTypeOK
    QueuedIsReachable
PROPERTIES
    RefinesTaskExecution
CHECK_DEADLOCK FALSE
