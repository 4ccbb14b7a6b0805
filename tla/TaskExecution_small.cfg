CONSTANTS
    Executions = {e1, e2, e3}
    NoExecution = NoExecution
    MaxSteers = 1
    Tasks = {t1}
    NoTask = NoTask
    MaxAttempts = 2
    ModelFailures = TRUE
    ChoiceBlocks = TRUE
SPECIFICATION Spec
SYMMETRY ExecutionSymmetry
INVARIANTS
    TypeOK
    OneDeliveryPerAttempt
    DeliveryHeardEverySteer
    OutputLineage
PROPERTIES
    FinishedStaysFinished
    KeepsPromise
CHECK_DEADLOCK FALSE
