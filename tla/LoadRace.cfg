SPECIFICATION Spec
CONSTANTS
    Loaders = {t1, t2}
    Players = {}
    Reqs = {r1, r2, r3}
    ByIdReqs = {r2}
    Callbacks = {}
    Masks <- NoMasks
    None = None
    HasPathList = TRUE
    PreemptK = TRUE
    MaxChanges = 0
    RuleSets <- FreeOrStopped
INVARIANTS NoOrphanCommand
PROPERTIES CallsReturn 
CHECK_DEADLOCK FALSE
