CONSTANTS
  k1 = k1
  k2 = k2
  a1 = a1
  a2 = a2
  mA = mA
  mB = mB
  mU = mU
  memo0 = memo0
  memo1 = memo1
  EthOther = EthOther
  EthMainnet = EthMainnet
  Goerli = Goerli
  Kovan = Kovan
  Sepolia = Sepolia
  ChainMainnet = ChainMainnet
  ChainTestnet = ChainTestnet
  Web3TxUrl = Web3TxUrl
  OtherExtUrl = OtherExtUrl
  NoChainId = NoChainId
  Garbage = Garbage
  Keys <- MCKeys
  AccountNumber <- MCAccountNumber
  AccountNumbers <- MCAccountNumbers
  RegisteredMsgs <- MCRegisteredMsgs
  UnknownMsgs <- MCUnknownMsgs
  Memos <- MCMemos
  SeqNumbers <- MCSeqNumbers
  EthChainIds <- MCEthChainIds
  HonestNetworks <- MCHonestNetworks
  MaxLen = 2
  MaxSigned = 1
  MaxTamper = 1

SPECIFICATION Spec

PROPERTY TxAuthRefinement
