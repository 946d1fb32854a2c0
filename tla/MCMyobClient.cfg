SPECIFICATION FairSpec
CONSTANTS
    MaxRetries = 3
INVARIANTS
    TypeOK
    UnkeyedAppliedOnce
    KeyedAppliedOnce
PROPERTY Terminates
CHECK_DEADLOCK FALSE
