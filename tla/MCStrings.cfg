SPECIFICATION StringSpec
CONSTANTS
    Units = 40
    MaxAllocations = 8
    Sizes <- const_Sizes
    Grain = 2
    Reserved = 0
    NullBase <- const_Null
    StringUnits = 2
    Keys <- const_Keys
    MaxLine = 3
    MaxCommands = 2
INVARIANTS
    StringTypeOK
    SplitCorrect
    RunsWhatWasTyped
    BlocksHeld
    OnlyTailsLeak
CHECK_DEADLOCK FALSE
