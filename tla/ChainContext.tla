---------------------------- MODULE ChainContext ----------------------------
(***************************************************************************)
(* The chain context verifyCosmosSignature rebuilds (PrivateKey.ts lines   *)
(* 298-334) with chain ids as the integers they are.                       *)
(*                                                                         *)
(* The web3 extension carries typedDataChainID as a uint64; the code turns *)
(* it into a JS number with Number(), which rounds to the nearest double   *)
(* (ties to even).  The model keeps that rounding at a smaller scale: W    *)
(* bits of integer for 64, P bits of significand for 53.  A wallet signs   *)
(* for a network (chainId, ethereumChainId) and writes the extension from  *)
(* its ethereumChainId; an adversary rewrites the extension options of the *)
(* envelope; the verifier resolves the chain ids from what it holds and    *)
(* accepts the signature exactly when it rebuilds the signed context.  The *)
(* caller's claimed account number (line 347, `number | string`) is the    *)
(* other number in that context: a number claim is a double, rendered by   *)
(* toString() as the integer it holds.  The rest of the document is        *)
(* CosmosTxVerifier's subject and is left out.                             *)
(***************************************************************************)
EXTENDS Naturals, Sequences, SequencesExt

CONSTANTS
    W,               \* bits of typedDataChainID (64 in the code)
    P,               \* significand bits of a JS number (53)
    EthMainnet,      \* EthereumChainId.Mainnet
    TestnetIds,      \* EthereumChainId Goerli, Kovan, Sepolia
    ChainMainnet, ChainTestnet,
    HonestNetworks,  \* <<chainId, ethereumChainId>> pairs wallets sign for
    ChainIdValues,   \* typedDataChainID values an extension may carry
    Web3TxUrl,       \* a type URL containing 'ExtensionOptionsWeb3Tx'
    OtherExtUrl,     \* any other extension option
    AccountNumbers,  \* uint64 account numbers a signer's account may have
    None

ASSUME WidthsAssumption == P \in 1..W /\ TestnetIds \cup {EthMainnet} \subseteq 0..(2^P - 1)

VARIABLES signed, env, verdict
vars == <<signed, env, verdict>>

Web3Ext(id) == [typeUrl |-> Web3TxUrl, typedDataChainID |-> id]
OtherExt == [typeUrl |-> OtherExtUrl, typedDataChainID |-> None]
Extensions == {Web3Ext(id) : id \in ChainIdValues} \cup {OtherExt}
ExtensionLists == SeqOf(Extensions, 2)

(***************************************************************************)
(* Number(x) for a W-bit unsigned x: exact below 2^P; above, the nearest   *)
(* multiple of the spacing 2^(e+1-P) of doubles in x's binade, a tie going *)
(* to the even multiple.                                                   *)
(***************************************************************************)
RECURSIVE Exponent(_)
Exponent(x) == IF x < 2 THEN 0 ELSE 1 + Exponent(x \div 2)
Spacing(x) == IF x < 2^P THEN 1 ELSE 2^(Exponent(x) + 1 - P)
IsDouble(x) == x % Spacing(x) = 0

(***************************************************************************)
(* Mutants of the mapped definitions below.                                *)
(***************************************************************************)
NumberIdentity(x) == x
NumberLowWord(x) == x % 2^(W \div 2)
TestnetIdsNoSepolia == TestnetIds \ {CHOOSE t \in TestnetIds : \A u \in TestnetIds : t >= u}

(***************************************************************************)
(* PrivateKey.ts                                                           *)
(***************************************************************************)
\* Number(decodedExtension.typedDataChainID)
Number(x) ==
    LET u == Spacing(x)
        q == x \div u
        r == x % u
    IN CASE 2 * r < u -> q * u
         [] 2 * r > u -> (q + 1) * u
         [] OTHER -> IF q % 2 = 0 THEN q * u ELSE (q + 1) * u

\* [Goerli, Kovan, Sepolia]
TestnetEthereumChainIds == TestnetIds

\* extension.typeUrl.includes('ExtensionOptionsWeb3Tx')
IsWeb3Extension(ext) == ext.typeUrl = Web3TxUrl

\* signer.accountNumber.toString(): a string claim verbatim, a number claim
\* as the decimal of the integer the double holds (below 1e21, no exponent).
AccountNumberString(claim) == claim.value

GetChainIdsLastExtension(exts) ==
    LET i == SelectLastInSeq(exts, IsWeb3Extension)
        eth == Number(exts[i].typedDataChainID)
    IN IF i = 0 THEN [chainId |-> ChainMainnet, ethereumChainId |-> EthMainnet]
       ELSE [chainId |-> IF eth \in TestnetEthereumChainIds THEN ChainTestnet ELSE ChainMainnet,
             ethereumChainId |-> eth]

\* getChainIds: mainnet when there is no extension or no web3 extension;
\* otherwise the first web3 extension's id, classified by the test list.
GetChainIds(exts) ==
    LET i == SelectInSeq(exts, IsWeb3Extension)
        eth == Number(exts[i].typedDataChainID)
    IN IF i = 0 THEN [chainId |-> ChainMainnet, ethereumChainId |-> EthMainnet]
       ELSE [chainId |-> IF eth \in TestnetEthereumChainIds THEN ChainTestnet ELSE ChainMainnet,
             ethereumChainId |-> eth]

-----------------------------------------------------------------------------
Init ==
    /\ signed = None
    /\ env = <<>>
    /\ verdict = None

\* A wallet signs for a network and builds the extension from its
\* ethereumChainId; a mainnet transaction may carry no extension.
SignTx ==
    \E net \in HonestNetworks, withExt \in BOOLEAN, n \in AccountNumbers :
        /\ withExt \/ net = <<ChainMainnet, EthMainnet>>
        /\ LET exts == IF withExt THEN <<Web3Ext(net[2])>> ELSE <<>>
           IN /\ signed' = [chainId |-> net[1], ethereumChainId |-> net[2], env |-> exts,
                          accountNumber |-> n]
              /\ env' = exts
        /\ verdict' = None

\* Anyone rewrites the extension options of the envelope.
Rewrite ==
    /\ signed # None
    /\ \E exts \in ExtensionLists : env' = exts
    /\ verdict' = None
    /\ UNCHANGED signed

\* A caller's account number claim: the chain's decimal string, or a JS
\* number, which holds Number() of the account number it came from.
Claims ==
    [form : {"string"}, value : AccountNumbers]
    \cup [form : {"number"}, value : {Number(n) : n \in AccountNumbers}]

\* verifyCosmosSignature: the document is rebuilt with the resolved chain
\* ids and the rendered account number; the signature over the signed
\* context verifies exactly when they are the signed ones.
Verify ==
    /\ signed # None
    /\ \E claim \in Claims :
          verdict' = [env |-> env, claim |-> claim, resolved |-> GetChainIds(env),
                      result |-> IF /\ GetChainIds(env) = [chainId |-> signed.chainId,
                                                          ethereumChainId |-> signed.ethereumChainId]
                                    /\ AccountNumberString(claim) = signed.accountNumber
                                 THEN "true" ELSE "false"]
    /\ UNCHANGED <<signed, env>>

Next == SignTx \/ Rewrite \/ Verify

Spec == Init /\ [][Next]_vars

-----------------------------------------------------------------------------
\* The chain id an envelope declares: its first web3 extension's, or
\* mainnet's when it has none.
Declared(exts) ==
    LET i == SelectInSeq(exts, LAMBDA e : e.typeUrl = Web3TxUrl)
    IN IF i = 0 THEN EthMainnet ELSE exts[i].typedDataChainID

\* The resolved Ethereum chain id is a JS number: a double of at most
\* 2^W (the largest uint rounds up to it).
TypeOK ==
    /\ signed = None \/ signed.ethereumChainId \in ChainIdValues
    /\ verdict # None =>
          /\ verdict.resolved.ethereumChainId \in 0..2^W
          /\ IsDouble(verdict.resolved.ethereumChainId)
          /\ verdict.result \in {"true", "false"}

\* Spec 8: the test network pairing is chosen exactly when the envelope's
\* first web3 extension carries one of the test ids, whatever Number() does
\* to other ids.
ClassifiedByRawId ==
    verdict # None =>
        (verdict.resolved.chainId = ChainTestnet <=> Declared(verdict.env) \in TestnetIds)

\* An envelope as the wallet built it, checked against the signer's
\* account number as the chain's string, verifies.
HonestEnvelopeVerifies ==
    verdict # None /\ verdict.env = signed.env
    /\ verdict.claim = [form |-> "string", value |-> signed.accountNumber] =>
        verdict.result = "true"

\* A rewritten extension passes verification only by swapping the signed
\* id for another id beyond 2^P that rounds to it: within the range where
\* Number() is exact, a verified envelope declares the signed chain id.
ChainIdSwapOnlyBeyondPrecision ==
    verdict # None /\ verdict.result = "true" =>
        \/ Declared(verdict.env) = signed.ethereumChainId
        \/ /\ Declared(verdict.env) >= 2^P
           /\ signed.ethereumChainId >= 2^P

\* Spec 6 step 5: the document rebuilt is the one the signer of this
\* envelope must have produced, so a verified envelope declares the chain id
\* that was signed.
VerifiedBindsDeclaredChainId ==
    verdict # None /\ verdict.result = "true" =>
        Declared(verdict.env) = signed.ethereumChainId
=============================================================================
