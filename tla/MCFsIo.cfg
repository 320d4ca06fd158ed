SPECIFICATION PoliteSpec
CONSTANTS
    n1 = n1
    n2 = n2
    x = x
    Names <- const_Names
    Texts <- const_Texts
    Data <- const_Data
    DirPaths <- const_RootOnly
    Offsets <- const_Offsets
    Outside <- const_Zeroes
    Counts = {2}
    NInodes = 6
    NBlocks = 5
    NFds = 4
    DataStart = 1
    BlockLen = 3
    SizeMod = 4
    PosMod = 4
    MaxUsed = 6
    MaxSize = 2
    MaxCrashes = 0
INVARIANTS
    TypeOK
    FdsConsistent
PROPERTY
    FilesIsolated
SYMMETRY NameSymmetry
VIEW OpenView
CONSTRAINT UserFilesNotSaved
CHECK_DEADLOCK FALSE
