CONSTANTS
    Executions = {e1, e2, e3, e4}
    Fewer = {e1, e2, e3}
    NoExecution = NoExecution
    Tasks = {t1}
    NoTask = NoTask
    Workers = {w1, w2}
    Entries = {n1, n2}
    NoEntry = NoEntry
SPECIFICATION RestSpec
PROPERTIES
    EveryTaskComesToRest
    CrashedWorkIsTakenOver
    EveryEntryIsAcknowledged
CHECK_DEADLOCK FALSE
