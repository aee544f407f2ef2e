SPECIFICATION FairSpec
CONSTANTS
    Peer <- ThreePeers
    Node = {1, 2}
    Settings <- HonestOrNot
    Message <- FourMessages
    Color <- BlueRedGreen
    Weight <- OneHeavy
    Bar = 2
    Universe <- FourVotes
INVARIANTS
    WeightsAddUp
    NoMissedConfirmation
    ConfirmedColorsAgree
    CountersMatchNodes
PROPERTY
    EventualOpinion
CHECK_DEADLOCK FALSE
