SPECIFICATION Spec
CONSTANTS
    Capacity = 8
    Counts <- const_Counts
    MaxLive = 3
INVARIANTS
    BitsAreLive
PROPERTY
    ImplementsFirstFit
