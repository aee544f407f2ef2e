SPECIFICATION FairSpec
CONSTANTS
    NodesCount = 2
    Quantum <- TwoQuanta
    Work = 8
    MaxDeficit = 16
    MaxBuffer = 1
    ConfEligible = TRUE
    Self = 0
    NoBurn = {0}
    Message <- ThreeMessages
    Universe <- AllKinds
CHECK_DEADLOCK FALSE
INVARIANTS
    PassedOnOnce
    ParentsComeFirst
PROPERTY
    AllPassedOn
