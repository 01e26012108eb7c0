SPECIFICATION CausalSpec
CONSTANTS
    NEvents = 3
    MaxRound = 2
    NoId = 0
    Validators = {v1}
    Id <- MCId
    Gossip <- MCGossip
    EventCap = 1
    FinalityCap = 1
INVARIANTS
    
    FinalizedRoundsIncrease
CHECK_DEADLOCK FALSE
