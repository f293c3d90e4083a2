SPECIFICATION Spec
CONSTANTS
    Targets <- MCTargets
    Funcs = {"f1", "f2", "f3"}
    Iso = {"disc"}
    Imports <- MCImports
    Size <- MCSize
    NoFile = NoFile
    ImageHead = ImageHead
    MaxFaults = 3
INVARIANTS CompleteIsRight RunsAsSelected
PROPERTIES StartsAgain
