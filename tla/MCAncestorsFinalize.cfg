SPECIFICATION DiligentSpec
CONSTANTS
    NEvents = 4
    MaxRound = 2
    NoId = 0
    Validators = {v1}
    Id <- MCId
    Gossip <- MCChain
    EventCap = 1
    FinalityCap = 1
PROPERTIES
    AncestorsOfFamousFinalize
CHECK_DEADLOCK FALSE
