SPECIFICATION FairPipelineSpec
CONSTANTS
    Op = {o1}
    Payload = {q1}
    Call = {"a", "b"}
    PendingTTL = 0
    ApprovalTTL = 0
    MaxTime = 0
    MaxRetries = 1
INVARIANTS
    OperationAppliedOnce
PROPERTIES
    ImplementsBroker
    CommitEnds
