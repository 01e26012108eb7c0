SPECIFICATION Spec
CONSTANTS
    Addr <- MCAddr
    NoAddr = "none"
    Asset = {"K"}
    NFT = {"N"}
    Families <- MCFamilies
    Genesis <- MCGenesis
    Word = 32
    MinFee = 1
    MinStake = 7
    None = None
INVARIANTS
    TokensExact
    OneOwner
    CoinsConserved
PROPERTIES
    TransfersSettleOnce
    ErrorsMoveNothing
