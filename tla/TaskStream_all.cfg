CONSTANTS
    Deployments <- AllDeployments
    PendingCap = 1
SPECIFICATION Spec
INVARIANTS
    TypeOK
    HeardInOrder
    FinalScreenIsRecord
    NoWordMissing
PROPERTIES
    ReaderSeesTheEnd
CHECK_DEADLOCK FALSE
