SPECIFICATION Spec
CONSTANTS
    Peer <- ThreePeers
    Node = {1}
    Settings <- AdversaryAlone
    Message <- FourMessages
    Color <- BlueRedGreen
    Weight <- OneHeavy
    Bar = 2
    Universe <- FourVotes
INVARIANT
    OpinionsCounted
CHECK_DEADLOCK FALSE
