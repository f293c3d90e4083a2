SPECIFICATION Spec
CONSTANTS
    Threads = {t1, t2}
    Fds = {f1, f2, f3, f4}
    NSlots = 2
    SyncKinds = {"plain", "iso", "block"}
    AsyncKinds = {"plain", "iso"}
    RuleSets <- SafeOrSync
SYMMETRY Symmetry
INVARIANTS  HeldAsOpened HeldIsOpen IsofdOwned NoDescriptorLost
