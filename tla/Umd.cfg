SPECIFICATION Spec
CONSTANTS
    Loaders = {}
    Players = {p1, p2}
    Reqs = {}
    ByIdReqs = {}
    Callbacks = {c1, c2}
    Masks <- ActiveMask
    None = None
    HasPathList = TRUE
    PreemptK = FALSE
    MaxChanges = 2
    RuleSets <- QuietOrFresh
INVARIANTS TypeOK RequestNonNegative NoNullCall OwnArgument
PROPERTIES StatusDelivered WaitEnds
CHECK_DEADLOCK FALSE
