SPECIFICATION RunningSpec
CONSTANTS
    NEvents = 2
    MaxRound = 2
    NoId = 0
    Validators = {v1}
    Id <- MCId
    Gossip <- MCGossip
    EventCap = 1
    FinalityCap = 1
INVARIANTS
    NewEventsAdvance
CHECK_DEADLOCK FALSE
