SPECIFICATION Spec
CONSTANTS
    HeapSize = 27
    Tokens <- AllTokens
    NUL = "NUL"
    At = "@"
    IsoExt = ".ISO"
    Stack <- Behind
    Threads = {t1, t2}
    GamePaths <- Opened
    BufSize = 10
    Orders <- Both
    FileSystems <- Sticks
    IniFile <- Ini
    BootPath <- Boot
    Drives <- AllDrives
    CR = "CR"
    LF = "LF"
    Eof = "Eof"
    Space = " "
    Eq = "="
    Comma = ","
    Slash = "/"
    Dot = "."
    Hex <- Values
    AllNids = 255
    Nids <- Numbers
    psp_devkit_ver = 1
    KernelMemory <- Memory
    MaxLoads = 4
INVARIANTS RelativeToBoot
CHECK_DEADLOCK FALSE
