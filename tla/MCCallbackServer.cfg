SPECIFICATION FairSpec
CONSTANTS
    Flows = 2
    Visits = 3
INVARIANTS
    TypeOK
    SuccessMeansStored
    FailureIsAnothers
PROPERTIES
    UsedStateRefused
    UnexplainedStoredNothing
    FlowEnds
CHECK_DEADLOCK FALSE
