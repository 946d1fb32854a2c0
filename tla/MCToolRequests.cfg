SPECIFICATION ToolsSpec
CONSTANTS
    Business = {b1, b2}
    Operation = {o1}
    Layout <- SomeLayouts
    Uid <- OneUid
    RawPath <- SomePaths
    MaxFiles = 2
SYMMETRY Symmetry
INVARIANTS
    SentAsPrepared
    AsDocumented
PROPERTIES
    WritesOffHonoured
