SPECIFICATION FairSpec
CONSTANTS
    NEvents = 2
    MaxRound = 2
    NoId = 0
    Validators = {v1}
    Id <- MCId
    Gossip <- MCGossip
    EventCap = 2
    FinalityCap = 1

    
PROPERTIES
    
    FameReturns
CHECK_DEADLOCK FALSE
