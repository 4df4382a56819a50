--------------------------- MODULE MC_ChainContext ---------------------------
EXTENDS ChainContext, TLC

\* EthereumChainId Goerli 5 and Kovan 42 keep their values; 59 stands for
\* Sepolia (11155111), which is exact below 2^53 as 59 is below 2^P.
MCTestnetIds == {5, 42, 59}
\* Wallets sign for mainnet, each test network, and one network whose id
\* (100) is a double beyond 2^P, as ids beyond 2^53 are in the code.
MCHonestNetworks ==
    {<<ChainMainnet, 1>>, <<ChainTestnet, 5>>, <<ChainTestnet, 42>>,
     <<ChainTestnet, 59>>, <<ChainMainnet, 100>>}
\* Ids an extension may carry: the signed ones, ids beyond 2^P that round
\* to them or are a tie (101, 127 rounds to 2^W), the first ids beyond 2^P,
\* and one whose low bits spell a test id (69).
MCChainIdValues == {0, 1, 5, 42, 59, 64, 65, 69, 100, 101, 127}
\* Account numbers: one in the exact range, one double beyond 2^P and the
\* id just above it, which no double holds.
MCAccountNumbers == {7, 100, 101}
==============================================================================
