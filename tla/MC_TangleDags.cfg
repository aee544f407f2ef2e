SPECIFICATION Spec
CONSTANTS
    Node = {n1, n2}
    Message <- ThreeMessages
    Color = {Red, Blue}
    Undefined = Undefined
    Universe <- Colorings
SYMMETRY Symmetry
INVARIANTS
    SolidIffConeStored
    RequestsAreWanted
    ColorsAgree
CHECK_DEADLOCK FALSE
