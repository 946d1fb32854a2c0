SPECIFICATION FairSpec
CONSTANTS
    Business = {b1, b2}
    MaxItem = 5
    Initial = {0, 3}
    PageCap = 2
    Tops <- TopValues
    Limits <- LimitValues
INVARIANTS
    TypeOK
    PrefixIfSteady
PROPERTY ListEnds
CHECK_DEADLOCK FALSE
