SPECIFICATION Spec
CONSTANTS
    Peer = {"p", "q"}
    Callers = {"q"}
    Boot = {"p"}
    MaxPeers = 1
    MinPeers = 1
    Buffer = 1
    Decay = 95
    Boost = 100
    Penalty = 500
    StaleAfter = 2
    Threshold = 1500
    MaxDials = 2
    MaxLosses = 1
PROPERTIES
    GoneAreForgotten
    EnoughPeers
CHECK_DEADLOCK FALSE
