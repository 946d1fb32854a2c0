SPECIFICATION Spec
CONSTANTS
    Op = {o1}
    Payload = {p1, p2}
    Call = {c1, c2, c3}
    PendingTTL = 2
    ApprovalTTL = 1
    MaxTime = 3
SYMMETRY Symmetry
INVARIANTS
    TypeOK
    ApprovedPayloadOnly
    PostedOnRecord
    CommittedMeansPosted
    OutcomeSettles
PROPERTIES
    NoCommitAfterOutcome
    ImplementsLifecycle
