SPECIFICATION Spec
CONSTANTS
    NodesCount = 3
    Quantum <- ThreeQuanta
    Work = 8
    MaxDeficit = 16
    MaxBuffer = 2
    ConfEligible = TRUE
    Self = 0
    NoBurn = {}
    Message <- FourMessages
    Universe <- PlainDags
CHECK_DEADLOCK FALSE
INVARIANTS
    WaitsForAQueue
PROPERTIES
    OnlyExcessDropped
    ImplementsRoundRobin
