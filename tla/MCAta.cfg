SPECIFICATION Spec
CONSTANTS
    NSectors = 4
    Values = {v0, v1}
    Blank = v0
    Requests <- const_Requests
    Failing = TRUE
    MaxCrashes = 1
INVARIANTS
    InStep
PROPERTIES
    ImplementsBlockDevice
    CallReturns
CHECK_DEADLOCK FALSE
