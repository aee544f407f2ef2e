SPECIFICATION Spec
CONSTANTS
    Color = {Red, Blue}
    Undefined = Undefined
    MaxMessage = 3
    TSA = "RURTS"
    ParentsCount = 2
    ParentCountVB = 1
    ParentCountNVB = 1
SYMMETRY Symmetry
INVARIANTS
    UncoloredIsBooked
    HasParents
    TipsCoverTangle
    TipsAreChildless
CHECK_DEADLOCK FALSE
