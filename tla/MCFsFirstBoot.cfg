SPECIFICATION PoliteSpec
CONSTANTS
    n1 = n1
    n2 = n2
    x = x
    Names <- const_OneName
    Texts <- const_Texts
    Data <- const_Data
    DirPaths <- const_WithDev
    Offsets <- const_NoOffsets
    Outside <- const_Outside
    Counts = {1}
    NInodes = 5
    NBlocks = 6
    NFds = 3
    DataStart = 2
    BlockLen = 2
    SizeMod = 4
    PosMod = 8
    MaxUsed = 5
    MaxSize = 2
    MaxCrashes = 1
INVARIANT
    SystemFilesThere
CHECK_DEADLOCK FALSE
