SPECIFICATION Spec
CONSTANTS
    chA = chA
    chB = chB
    self = self
    up = up
    ver = ver
    data = data
    d1 = d1
    Pad = Pad
    Self <- SelfName
    Version <- VersionName
    Chars <- AllChars
    PerSector = 4
    RootSlot = 0
    Discs <- AllDiscs
    Paths <- AllPaths
    KmemTop = 0
    KmemSize = 4
    UmemTop = 4
    UmemEnd = 20
    FirstBottom = 4
    AddedBottom = 4
    Vers = {0, 1, 2}
    hack_ver = 1
    set_ver = 2
    Resident <- OldMemory
    Images <- LoadedFiles
    FreePtr = 4
    MaxModules = 3
    devkit_ver = 2
    Firmwares = {1}
    kernel_ver = 1
    Drivers = {d1}
    Progs <- Programs
    HookTypes <- AllTypes
    Listed <- ThreeListed
CHECK_DEADLOCK FALSE
INVARIANTS FindsTheFile FoundIsReached PatchTypeOK  HookedOrLinked
PROPERTY SearchEnds
