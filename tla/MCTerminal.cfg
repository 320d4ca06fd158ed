SPECIFICATION TermSpec
CONSTANTS
    BufferSize = 11
    Height = 4
    Ten = 2
    Width = 4
    Rows = 5
    Outputs <- const_Outputs
    MaxOut = 16
INVARIANTS
    ShowsTail
    ShowsHeight
    CutsAtLine
    ScreenIsText
CHECK_DEADLOCK FALSE
