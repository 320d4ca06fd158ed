SPECIFICATION FairSpec
CONSTANTS
    Capacity = 4
    Keys = {"letter", "f1"}
    Chars = {"a", "A"}
    NoChar = "none"
    Plain <- const_Plain
    Shifted <- const_Shifted
    Counts = {1, 3}
    MaxTyped = 6
INVARIANTS
    ReaderHasChar
PROPERTIES
    ImplementsFifo
    EventuallyRead
