------------------------ MODULE MC_CosmosTxVerifier ------------------------
(* Model-checking instance of CosmosTxVerifier: two wallets, the mainnet  *)
(* and Sepolia-testnet pairings, one web3 extension id outside both.     *)
EXTENDS CosmosTxVerifier, TLC

CONSTANTS k1, k2, a1, a2, mA, mB, mU, memo0, memo1, EthOther

MCKeys == {k1, k2}
MCAccountNumber == (k1 :> a1) @@ (k2 :> a2)
MCAccountNumbers == {a1, a2}
MCRegisteredMsgs == {mA, mB}
MCUnknownMsgs == {mU}
MCMemos == {memo0, memo1}
MCSeqNumbers == {0, 1}
MCEthChainIds == {EthMainnet, Sepolia, EthOther}
MCHonestNetworks == {<<ChainMainnet, EthMainnet>>, <<ChainTestnet, Sepolia>>}
=============================================================================
