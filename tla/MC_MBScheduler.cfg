SPECIFICATION Spec
CONSTANTS
    Issuer <- TwoIssuers
    Self = 0
    InitialMana = 1
    Earned <- Earning
    MaxTicks = 2
    MaxBuffer = 1
    ConfEligible = TRUE
    Policies <- AllPolicies
    Message <- FourMessages
    Universe <- MCUniverse
INVARIANTS
    ManaLedger
PROPERTIES
    PassedOnUnlessDropped
    GreedyMessagesKept
CHECK_DEADLOCK FALSE
