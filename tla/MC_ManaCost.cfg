SPECIFICATION Spec
CONSTANTS
    Node = {n1, n2}
    LastSlot = 4
    MaxMessages = 3
    MaxMana = 2
    Income <- OneEach
    RMCTime = 1
    MinCommittableAge = 1
    RMCPeriodUpdate = 2
    InitialRMC = 1
    RMCmin = 1
    RMCmax = 2
    RMCincrease = 2
    RMCdecrease = 1
    LowerRMCThreshold = 1
    UpperRMCThreshold = 0
SYMMETRY Symmetry
INVARIANTS
    SameCost
    PaidMessagesAccepted
    CostInRange
CHECK_DEADLOCK FALSE
