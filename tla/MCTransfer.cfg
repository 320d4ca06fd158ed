SPECIFICATION Spec
CONSTANTS
    Half = 4
    Duration = 2
    SleepTicks = 2
    Header = 2
    Room = 2
    Fifo = 1
    MaxSent = 6
    MaxCalls = 2
    LastTick = 5
    MaxTicks = 13
INVARIANTS
    DataInOrder
    TimeOutNotEarly
    SleepNotEarly
PROPERTIES
    WaitEnds
CHECK_DEADLOCK FALSE
