SPECIFICATION FairSpec
CONSTANTS
    Irqs = {0, 1, 14}
    Withdrawable = {14}
    Exceptions = {14}
    MaxRaises = 3
INVARIANTS
    OneAtATime
    InServiceMatches
PROPERTIES
    IrqNeverStops
    EveryIrqServed
    EveryTickCounts
CHECK_DEADLOCK FALSE
