SPECIFICATION FairSpec
CONSTANTS
    Tx <- MCTx
    Offers <- MCOffers
    MaxSize = 2
    MaxGas = 3
    ChanCap = 1
    Word = 64
    MaxTxs = 2
    MaxAdds = 2
INVARIANTS
    TypeOK
    QueueExact
    OneEventPerAcceptance
    BatchWithinGas
PROPERTIES
    NoSilentDrop
    
CHECK_DEADLOCK FALSE
