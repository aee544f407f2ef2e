CONSTANTS
    Peer = {1, 2, 3}
    Message = {1, 2}
    Universe <- MCUniverse
SPECIFICATION Spec
INVARIANTS
    MetricsAgree
PROPERTIES
    StoredBecomesSolid
    EveryMessageArrives
CHECK_DEADLOCK FALSE
