SPECIFICATION Spec
CONSTANTS
    N = 5
    Num <- Numbers
    ByPointer = {2, 5}
    Used = {1, 2, 3, 4, 5, 6}
    Top = 15
    Start = 12
    Limit = 13
    Types <- AllTypes
    Marked = {1, 2, 3, 4}
INVARIANTS TypeOK Transparent InnerCallsDirect InstalledAsAsked
CHECK_DEADLOCK FALSE
