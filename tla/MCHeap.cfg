SPECIFICATION Spec
CONSTANTS
    Units = 24
    MaxAllocations = 4
    Sizes <- const_Sizes
    Grain = 4
    Reserved = 0
    NullBase <- const_Null
INVARIANTS
    BlocksDisjoint
    NothingLost
    FreesOwnBlock
CHECK_DEADLOCK FALSE
