SPECIFICATION Spec
CONSTANTS
    Peer <- TwoPeers
    Message <- ThreeMessages
    Weight <- HeavyFirst
    Bar = 2
    MinCommittableAge = 1
    Universe <- AllKinds
INVARIANTS
    WeightOfApprovers
    Decided
    ConfirmedRestsOnDecided
    AttIsNewestConfirmed
    OrphansAreOld
CHECK_DEADLOCK FALSE
