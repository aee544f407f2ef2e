SPECIFICATION FairHistorySpec
CONSTANTS
    NodesCount = 3
    Quantum <- ThreeQuanta
    Work = 8
    MaxDeficit = 16
    MaxBacklog = 2
INVARIANTS
    BoundedOvertaking
PROPERTY
    NobodyStarves
