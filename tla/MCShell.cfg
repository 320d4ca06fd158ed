SPECIFICATION ShellSpec
CONSTANTS
    n1 = n1
    Names <- const_Names
    Texts = {}
    Data <- const_Data
    DirPaths <- const_DirPaths
    Targets <- const_Targets
    Redirects <- const_Redirects
    CatWidths = {1, 2}
    Offsets <- const_NoOffsets
    Outside <- const_Zeroes
    Counts = {1, 2}
    NInodes = 6
    NBlocks = 8
    NFds = 4
    DataStart = 3
    BlockLen = 2
    SizeMod = 64
    PosMod = 64
    MaxUsed = 9
    MaxSize = 12
    MaxCrashes = 0
    MaxCommands = 3
INVARIANTS
    
    NoFdLeaks
PROPERTIES
    ShellIsPolite
    CommandEnds
CHECK_DEADLOCK FALSE
