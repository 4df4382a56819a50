CONSTANTS
    W = 7
    P = 6
    EthMainnet = 1
    TestnetIds <- MCTestnetIds
    HonestNetworks <- MCHonestNetworks
    ChainIdValues <- MCChainIdValues
    ChainMainnet = ChainMainnet
    ChainTestnet = ChainTestnet
    Web3TxUrl = Web3TxUrl
    OtherExtUrl = OtherExtUrl
    AccountNumbers <- MCAccountNumbers
    None = None
SPECIFICATION Spec
INVARIANTS
    TypeOK
    ClassifiedByRawId
    HonestEnvelopeVerifies
    ChainIdSwapOnlyBeyondPrecision
