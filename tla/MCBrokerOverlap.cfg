SPECIFICATION Spec
CONSTANTS
    Op = {o1}
    Payload = {p1}
    Call = {c1, c2}
    PendingTTL = 1
    ApprovalTTL = 1
    MaxTime = 2
INVARIANT CommitFailsOnceCommitted
