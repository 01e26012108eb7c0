SPECIFICATION Spec
CONSTANTS
    Addr <- MCAddr
    NoAddr = "none"
    Asset = {"K", "L"}
    Tx <- MCTx
    Signed <- MCSigned
    Genesis <- MCGenesis
    Word = 128
    MinStake = 4
    MaxFaults = 3
INVARIANTS
    
    
    RegistryMatchesStore
    
    
    DelegationsBacked
PROPERTIES
    ChargesExactly
    
CHECK_DEADLOCK FALSE
