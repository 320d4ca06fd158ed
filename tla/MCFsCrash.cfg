SPECIFICATION PoliteSpec
CONSTANTS
    n1 = n1
    n2 = n2
    x = x
    Names <- const_Names
    Texts <- const_Texts
    Data <- const_Data
    DirPaths <- const_Nested
    Offsets <- const_NoOffsets
    Outside <- const_Outside
    Counts = {}
    NInodes = 7
    NBlocks = 6
    NFds = 2
    DataStart = 1
    BlockLen = 3
    SizeMod = 4
    PosMod = 8
    MaxUsed = 7
    MaxSize = 0
    MaxCrashes = 1
INVARIANTS
    MemoryConsistent
    DiskConsistent
    MountNeverPanics
    CrashKeepsUntouched
VIEW StateView
CHECK_DEADLOCK FALSE
