-------------------------- MODULE CosmosTxVerifier --------------------------
(***************************************************************************)
(* PrivateKey.verifyCosmosSignature and PrivateKey.verifySignature         *)
(* (packages/sdk-ts/src/core/accounts/PrivateKey.ts), checked against the  *)
(* wallets that produce EIP-712 signed transactions (signTypedData) and an *)
(* adversary that assembles transaction envelopes from every signature it  *)
(* has seen.                                                               *)
(*                                                                         *)
(* Data abstraction.  A key is a model value; a public key is the key it   *)
(* belongs to plus its hex rendering (0x prefix, letter case).  An EIP-712 *)
(* document is the record of the fields getEip712TypedData puts into it;   *)
(* memo stands for every body field copied into the document unchanged    *)
(* (memo, fee, timeout height).  A typed-data signature is the signer and  *)
(* the document it was made over; ECDSA recovery over any other document  *)
(* yields a key nobody holds (Garbage).                                    *)
(***************************************************************************)
EXTENDS Naturals, Sequences, SequencesExt, FiniteSets

CONSTANTS
  Keys,            \* private keys held by honest wallets
  AccountNumber,   \* Keys -> the account number of the key's account
  AccountNumbers,  \* account numbers a caller may claim
  RegisteredMsgs,  \* messages whose type URL MsgDecoder knows
  UnknownMsgs,     \* messages whose type URL MsgDecoder rejects
  Memos,           \* body data copied into the document
  SeqNumbers,      \* signer-info sequence numbers
  EthChainIds,     \* typedDataChainID values a web3 extension may carry
  EthMainnet, Goerli, Kovan, Sepolia,   \* EthereumChainId enum members
  ChainMainnet, ChainTestnet,           \* ChainId enum members
  HonestNetworks,  \* <<chainId, ethereumChainId>> pairs a wallet signs for
  Web3TxUrl,       \* type URL containing 'ExtensionOptionsWeb3Tx'
  OtherExtUrl,     \* type URL of any other extension option
  NoChainId,       \* payload of a non-web3 extension
  Garbage,         \* key recovered from a signature over another digest
  MaxLen,          \* bound on every repeated field of an envelope
  MaxSigned,       \* bound on the number of wallet signatures
  MaxTamper        \* bound on the fields the adversary rewrites in one envelope

VARIABLES
  signed,   \* set of [key, tx, sig] the wallets produced (and published)
  envelope, \* the envelope the adversary holds and will submit
  tampers,  \* number of fields of envelope rewritten since it was taken
  call      \* the last verification call and its outcome

vars == <<signed, envelope, tampers, call>>

AllMsgs == RegisteredMsgs \cup UnknownMsgs

Extensions ==
  [typeUrl : {Web3TxUrl}, typedDataChainID : EthChainIds]
    \cup [typeUrl : {OtherExtUrl}, typedDataChainID : {NoChainId}]

Docs ==
  [msgs : {<<m>> : m \in RegisteredMsgs}, memo : Memos,
   accountNumber : AccountNumbers, sequence : SeqNumbers,
   chainId : {ChainMainnet, ChainTestnet}, ethereumChainId : EthChainIds]

Sigs == [signer : Keys, doc : Docs]

\* A hex public key: which key it encodes and how it is written.
HexKeys == [key : Keys \cup {Garbage}, prefixed : BOOLEAN, upper : BOOLEAN]

SignerInfos == [sequence : SeqNumbers]

NoEnvelope == [messages |-> <<>>, memo |-> CHOOSE m \in Memos : TRUE,
               extensionOptions |-> <<>>, signerInfos |-> <<>>,
               signatures |-> <<>>]

Claims == [accountNumber : AccountNumbers, publicKey : Keys]

\* verifyCosmosSignature's boolean result, or the error it throws.
Verdicts == {"true", "false"}
Outcomes == Verdicts \cup {"ErrMultipleSigners", "ErrMultipleMessages",
             "ErrUnknownMsgType", "TypeError"}

NoCall == [kind |-> "none"]

----------------------------------------------------------------------------
(* External collaborators (sdk-ts utils and eip712 modules, not in src/).  *)

\* getEip712TypedData: the document for one message and its tx context.
GetEip712TypedData(msg, memo, accountNumber, sequence, chainId, ethChainId) ==
  [msgs |-> <<msg>>, memo |-> memo, accountNumber |-> accountNumber,
   sequence |-> sequence, chainId |-> chainId, ethereumChainId |-> ethChainId]

\* recoverTypedSignaturePubKey: 0x-prefixed lowercase hex of the key ECDSA
\* recovery yields for the EIP-712 hash of doc.
RecoverTypedSignaturePubKey(doc, sig) ==
  [key |-> IF sig.doc = doc THEN sig.signer ELSE Garbage,
   prefixed |-> TRUE, upper |-> FALSE]

----------------------------------------------------------------------------
(* Mutants: plausible bugs in the mapped definitions below.                *)

TestnetEthereumChainIdsNoSepolia == {Goerli, Kovan}

TooManySignersOnlyInfos(tx) == Len(tx.signerInfos) > 1

Eip712DocWithoutMemo(msg, memo, accountNumber, sequence, chainId, ethChainId) ==
  [msgs |-> <<msg>>, memo |-> CHOOSE mm \in Memos : TRUE,
   accountNumber |-> accountNumber, sequence |-> sequence,
   chainId |-> chainId, ethereumChainId |-> ethChainId]

Eip712DocBadSequence(msg, memo, accountNumber, sequence, chainId, ethChainId) ==
  GetEip712TypedData(msg, memo, accountNumber, sequence + 1, chainId,
                     ethChainId)

GetChainIdsLastExtension(tx) ==
  LET i == SelectLastInSeq(tx.extensionOptions, LAMBDA e : e.typeUrl = Web3TxUrl)
      eth == tx.extensionOptions[i].typedDataChainID
  IN  IF i = 0 THEN <<ChainMainnet, EthMainnet>>
      ELSE <<IF eth \in {Goerli, Kovan, Sepolia} THEN ChainTestnet
             ELSE ChainMainnet, eth>>

----------------------------------------------------------------------------
(* PrivateKey.ts                                                           *)

\* The Ethereum chain ids getChainIds classifies as a test network.
TestnetEthereumChainIds == {Goerli, Kovan, Sepolia}

\* The document both the wallet and the verifier build (getEip712TypedData).
Eip712Doc(msg, memo, accountNumber, sequence, chainId, ethChainId) ==
  GetEip712TypedData(msg, memo, accountNumber, sequence, chainId, ethChainId)

\* signTypedData: the wallet's EIP-712 V4 signature over doc.
SignTypedData(key, doc) == [signer |-> key, doc |-> doc]

\* verifySignature: only the missing 0x prefix is normalised before the
\* strict string comparison with the recovered key.
VerifySignature(sig, doc, publicKey) ==
  LET publicKeyInHex ==
        IF publicKey.prefixed THEN publicKey
        ELSE [publicKey EXCEPT !.prefixed = TRUE]
  IN  publicKeyInHex = RecoverTypedSignaturePubKey(doc, sig)

\* The guard 'signerInfos.length > 1 || signatures.length > 1'.
TooManySigners(tx) ==
  Len(tx.signerInfos) > 1 \/ Len(tx.signatures) > 1

IsWeb3Extension(ext) == ext.typeUrl = Web3TxUrl

\* getChainIds: <<chainId, ethereumChainId>> the signer must have used.
GetChainIds(tx) ==
  LET i == SelectInSeq(tx.extensionOptions, IsWeb3Extension)
      eth == tx.extensionOptions[i].typedDataChainID
  IN  IF i = 0 THEN <<ChainMainnet, EthMainnet>>
      ELSE <<IF eth \in TestnetEthereumChainIds THEN ChainTestnet
             ELSE ChainMainnet, eth>>

\* verifyCosmosSignature: the checks and steps in the order the code takes
\* them; reading a field of a missing signerInfo, signature or message is a
\* TypeError.
VerifyCosmosSignature(tx, signer) ==
  LET ids == GetChainIds(tx)
      msg == tx.messages[1]
      doc == Eip712Doc(msg, tx.memo, signer.accountNumber,
                       tx.signerInfos[1].sequence, ids[1], ids[2])
      hexKey == [key |-> signer.publicKey, prefixed |-> FALSE, upper |-> FALSE]
  IN  CASE TooManySigners(tx)              -> "ErrMultipleSigners"
        [] Len(tx.messages) > 1            -> "ErrMultipleMessages"
        [] Len(tx.messages) = 0            -> "TypeError"
        [] msg \in UnknownMsgs             -> "ErrUnknownMsgType"
        [] Len(tx.signerInfos) = 0         -> "TypeError"
        [] Len(tx.signatures) = 0          -> "TypeError"
        [] OTHER -> IF VerifySignature(tx.signatures[1], doc, hexKey)
                    THEN "true" ELSE "false"

----------------------------------------------------------------------------
(* Actors                                                                  *)

Init ==
  /\ signed = {}
  /\ envelope = NoEnvelope
  /\ tampers = 0
  /\ call = NoCall

\* A wallet signs a one-message transaction for a network with
\* signTypedData and publishes it.  A web3 extension carries the
\* ethereum chain id; a mainnet transaction may also carry none.
SignTx(key, network, msg, memo, sq, withExt) ==
  LET doc == Eip712Doc(msg, memo, AccountNumber[key], sq,
                       network[1], network[2])
      sig == SignTypedData(key, doc)
      tx == [messages |-> <<msg>>, memo |-> memo,
             extensionOptions |->
               IF withExt
               THEN <<[typeUrl |-> Web3TxUrl,
                       typedDataChainID |-> network[2]]>>
               ELSE <<>>,
             signerInfos |-> <<[sequence |-> sq]>>,
             signatures |-> <<sig>>]
  IN  /\ Cardinality(signed) < MaxSigned
      /\ withExt \/ network = <<ChainMainnet, EthMainnet>>
      /\ signed' = signed \cup {[key |-> key, tx |-> tx, sig |-> sig]}
      /\ call' = NoCall
      /\ UNCHANGED <<envelope, tampers>>

Seen == {s.sig : s \in signed}

\* The adversary takes a published envelope.
Take(s) ==
  /\ envelope' = s.tx
  /\ tampers' = 0
  /\ call' = NoCall
  /\ UNCHANGED signed

\* The adversary rewrites one field of its envelope, reusing only
\* signatures it has seen.
Tamper ==
  /\ tampers < MaxTamper
  /\ \/ \E ms \in SeqOf(AllMsgs, MaxLen) :
          envelope' = [envelope EXCEPT !.messages = ms]
     \/ \E memo \in Memos : envelope' = [envelope EXCEPT !.memo = memo]
     \/ \E exts \in SeqOf(Extensions, MaxLen) :
          envelope' = [envelope EXCEPT !.extensionOptions = exts]
     \/ \E infos \in SeqOf(SignerInfos, MaxLen) :
          envelope' = [envelope EXCEPT !.signerInfos = infos]
     \/ \E sigs \in SeqOf(Seen, MaxLen) :
          envelope' = [envelope EXCEPT !.signatures = sigs]
  /\ envelope' /= envelope
  /\ tampers' = tampers + 1
  /\ call' = NoCall
  /\ UNCHANGED signed

\* A caller verifies the envelope against a claimed signer.
VerifyCosmos(signer) ==
  /\ call' = [kind |-> "cosmos", tx |-> envelope, signer |-> signer,
              outcome |-> VerifyCosmosSignature(envelope, signer)]
  /\ UNCHANGED <<signed, envelope, tampers>>

\* A caller verifies a published signature over a document it holds
\* against a hex public key written in any form.
VerifyTyped(sig, doc, publicKey) ==
  /\ call' = [kind |-> "typed", sig |-> sig, doc |-> doc,
              publicKey |-> publicKey,
              outcome |-> IF VerifySignature(sig, doc, publicKey)
                          THEN "true" ELSE "false"]
  /\ UNCHANGED <<signed, envelope, tampers>>

Next ==
  \/ \E key \in Keys, network \in HonestNetworks, msg \in RegisteredMsgs,
        memo \in Memos, sq \in SeqNumbers, withExt \in BOOLEAN :
       SignTx(key, network, msg, memo, sq, withExt)
  \/ \E s \in signed : Take(s)
  \/ Tamper
  \/ \E signer \in Claims : VerifyCosmos(signer)
  \/ \E sig \in Seen, doc \in {s.doc : s \in Seen}, publicKey \in HexKeys :
       VerifyTyped(sig, doc, publicKey)

Spec == Init /\ [][Next]_vars

----------------------------------------------------------------------------
(* Properties                                                              *)

IsEnvelope(tx) ==
  /\ tx.messages \in Seq(AllMsgs) /\ tx.memo \in Memos
  /\ tx.extensionOptions \in Seq(Extensions)
  /\ tx.signerInfos \in Seq(SignerInfos)
  /\ tx.signatures \in Seq(Sigs)

\* Every variable holds values of the shapes the code handles.
TypeOK ==
  /\ \A s \in signed : s.key \in Keys /\ s.sig \in Sigs /\ IsEnvelope(s.tx)
  /\ IsEnvelope(envelope)
  /\ tampers \in 0..MaxTamper
  /\ \/ call = NoCall
     \/ /\ call.kind = "cosmos"
        /\ IsEnvelope(call.tx)
        /\ call.signer \in Claims
        /\ call.outcome \in Outcomes
     \/ /\ call.kind = "typed"
        /\ call.sig \in Sigs /\ call.doc \in Docs
        /\ call.publicKey \in HexKeys
        /\ call.outcome \in Verdicts

\* The chain id an envelope declares: that of its first web3 extension
\* option, the mainnet id when it has none.
DeclaredEthChainId(tx) ==
  LET i == SelectInSeq(tx.extensionOptions, IsWeb3Extension)
  IN  IF i = 0 THEN EthMainnet ELSE tx.extensionOptions[i].typedDataChainID

\* verifyCosmosSignature answers TRUE only for an envelope whose message,
\* memo, signer sequence, declared chain and the caller's account number
\* are exactly what the claimed key's wallet signed: no field an adversary
\* can rewrite after signing goes unchecked.
VerifiedImpliesSigned ==
  call.kind = "cosmos" /\ call.outcome = "true" =>
    \E s \in signed :
      /\ s.key = call.signer.publicKey
      /\ call.tx.messages = s.tx.messages
      /\ call.tx.memo = s.tx.memo
      /\ Len(call.tx.signerInfos) >= 1
      /\ call.tx.signerInfos[1] = s.tx.signerInfos[1]
      /\ call.signer.accountNumber = AccountNumber[s.key]
      /\ DeclaredEthChainId(call.tx) = DeclaredEthChainId(s.tx)

\* verifyCosmosSignature gives a TRUE/FALSE answer only for an envelope with
\* exactly one signer info, one signature and one message; any other shape
\* ends in an error, never in a verdict about its first entry.
AnswerOnlyForSingleSigner ==
  call.kind = "cosmos" /\ call.outcome \in Verdicts =>
    /\ Len(call.tx.signerInfos) = 1
    /\ Len(call.tx.signatures) = 1
    /\ Len(call.tx.messages) = 1

\* A transaction a wallet signed for one of the supported networks, passed
\* unchanged with the wallet's key and account number, verifies.
HonestTxVerifies ==
  call.kind = "cosmos" =>
    \A s \in signed :
      /\ call.tx = s.tx
      /\ call.signer = [accountNumber |-> AccountNumber[s.key],
                        publicKey |-> s.key]
      => call.outcome = "true"

\* verifySignature accepts a valid signature whatever the case of the hex
\* public key it is given (spec 4.4: case-insensitive comparison).
KeyCaseIrrelevant ==
  call.kind = "typed" =>
    ((call.outcome = "true") = (call.sig.doc = call.doc
                     /\ call.sig.signer = call.publicKey.key))

----------------------------------------------------------------------------------------------------------------------------------------------------
(* Refinement: verifyCosmosSignature implements AbstractTxAuth.  A caller *)
(* presents an envelope and an account number; the request is what the   *)
(* envelope shows: its messages, memo, signer-info sequences, number of   *)
(* signatures, the account number and the declared chain.  A wallet      *)
(* signature endorses the request of the envelope it published; a call   *)
(* that throws maps to a refusal of the request it was given.            *)

\* The request an envelope presents when verified for accountNumber.
Presentation(tx, accountNumber) ==
  [msgs |-> tx.messages, memo |-> tx.memo,
   sequences |-> [i \in 1..Len(tx.signerInfos) |-> tx.signerInfos[i].sequence],
   signatures |-> Len(tx.signatures), accountNumber |-> accountNumber,
   ethChainId |-> DeclaredEthChainId(tx)]

AuthRequests ==
  [msgs : Seq(AllMsgs), memo : Memos, sequences : Seq(SeqNumbers),
   signatures : Nat, accountNumber : AccountNumbers, ethChainId : EthChainIds]

\* One registered message under one signer info and one signature.
AuthContents ==
  [msgs : {<<m>> : m \in RegisteredMsgs}, memo : Memos,
   sequences : {<<q>> : q \in SeqNumbers}, signatures : {1},
   accountNumber : AccountNumbers, ethChainId : EthChainIds]

EndorsedPairs ==
  {[key |-> s.key, content |-> Presentation(s.tx, AccountNumber[s.key])] :
     s \in signed}

AnswerOfCall ==
  CASE call.kind = "cosmos" /\ call.outcome \in Verdicts ->
         [kind |-> "verdict", key |-> call.signer.publicKey,
          content |-> Presentation(call.tx, call.signer.accountNumber),
          verdict |-> call.outcome = "true"]
    [] call.kind = "cosmos" ->
         [kind |-> "refused",
          request |-> Presentation(call.tx, call.signer.accountNumber)]
    [] OTHER -> [kind |-> "none"]

TxAuth == INSTANCE AbstractTxAuth
            WITH Keys <- Keys, Requests <- AuthRequests,
                 Contents <- AuthContents,
                 endorsed <- EndorsedPairs, answer <- AnswerOfCall

\* Every behaviour of the wallets, the adversary and verifyCosmosSignature
\* is a behaviour of AbstractTxAuth: a call throws exactly for an envelope
\* that is not one registered message under one signer info and one
\* signature (the guards at 286-296 and the failures of 340-357 together),
\* it never throws for a well-formed one, and a TRUE verdict names every
\* field of an envelope the claimed key's wallet published.
TxAuthRefinement == TxAuth!Spec

=============================================================================
