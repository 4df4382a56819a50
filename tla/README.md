# TLA+ models of the injective-ts signing and verification core

This directory holds TLA+ models of the parts of the SDK whose behaviour
depends on the order and combination of inputs: chiefly
`PrivateKey.verifyCosmosSignature` and `PrivateKey.verifySignature`
(`src/packages/sdk-ts/src/core/accounts/PrivateKey.ts`). Every module is
checked with TLC using the configurations listed below.

## 1. Inventory

The sample of the repository has ten source files. Each one is listed here
with its state, its operations, and how it interacts with the others.

| Component | Source | State | Operations |
|---|---|---|---|
| KeyMaterial | `PrivateKey.ts` 25-131 | one immutable `Wallet` per instance | `generate`, `fromMnemonic`, `fromPrivateKey`, `fromHex`, `toPrivateKeyHex`, `toPublicKey`, `toHex`, `toAddress`, `toBech32` |
| SignatureEngine | `PrivateKey.ts` 133-236 | none beyond the key | `sign`, `signEcda`, `signHashed`, `signHashedEcda`, `signTypedData`, `signHashedTypedData` |
| SignatureVerifier | `PrivateKey.ts` 238-262 | none | `verifySignature` |
| CosmosTxVerifier | `PrivateKey.ts` 264-360 | none | `verifyCosmosSignature` and its inner `getChainIds` |
| Message builders | `MsgSend.ts`, `MsgBeginRedelegate.ts` | the constructor params | `fromJSON`, `toProto`, `toData`, `toWeb3`, `toDirectSign` |
| DMM gRPC client | `DmmGrpcApi.ts` | the RPC client | 11 `fetch*` methods: each builds a request, awaits one RPC and maps errors to `GrpcUnaryRequestException` |
| Chronos REST client | `SpotChronosApi.ts` | the HTTP client | `fetchMarketSummary`, `fetchMarketsSummary` |
| UI staking client | `UiStakingApi.ts` | the chain client | `fetchValidators`, `fetchValidator`, and four list fetches that return an empty result on any error |
| UI spot types | `spot.ts` | none | type declarations and an enum |
| Peggy ABI | `peggy.ts` | none | a constant ABI table |

How they interact:

* `verifyCosmosSignature` splits a `TxRaw` into body, authInfo and
  signatures with `getTransactionPartsFromTxRaw`. It derives the chain context
  from the body's extension options. It decodes the single message with
  `MsgDecoder` and rebuilds the EIP-712 document with `getEip712TypedData`.
  Then it calls `verifySignature`. That function compares the key returned
  by `recoverTypedSignaturePubKey` with the caller's public key. All four
  helpers live outside `src/`. The models use the contracts that `spec.md`
  §6 gives for them.
* The signatures it checks come from wallets that signed the same kind of
  document, as `signTypedData` (line 206) does.
* The API clients are independent async request/response wrappers. They
  share no state with each other or with the crypto core.

What makes it hard. Nothing here runs concurrently: every call is
synchronous or awaits one external promise, and no state is shared across
calls. The difficulty is adversarial. A transaction envelope reaches the
verifier after anyone can rewrite any field: messages, memo, extension
options, signer infos or signatures. The verifier must then:

* bind every field that was signed;
* reject every shape it does not support;
* choose the right network context from an optional extension;
* still accept every unmodified envelope that a wallet signed.

These are the cases a unit test covers one at a time, and a model checker
covers in every combination.

What makes each component correct:

* CosmosTxVerifier.
  - It gives a `true` answer only when the claimed key signed that exact
    message, memo, sequence, account number and chain.
  - It never gives a verdict for an envelope with several signers, several
    signatures or several messages.
  - It accepts every unmodified wallet transaction on a supported network.
* SignatureVerifier. It returns true if and only if the recovered key equals
  the given key, whatever the prefix or case of the hex (spec §4.4).
* KeyMaterial.
  - `fromHex(toPrivateKeyHex(k))` returns `k`.
  - Parsing accepts exactly the well-formed 32-byte inputs.
* SignatureEngine. Every variant's output can be verified by the matching
  verifier.
* API clients. Every transport failure reaches the caller as the mapped
  exception, except in the four UiStakingApi fetches whose code returns an
  empty default on purpose. Nothing resolves without data from the server.

## 2. Modules and runs

### CosmosTxVerifier.tla (modelled)

The state is:

* `signed`: the transactions wallets signed and published;
* `envelope`: the envelope an adversary holds;
* `tampers`: how many of its fields the adversary has rewritten;
* `call`: the last verification call and its result.

The actions are:

* `SignTx`: a wallet signs a one-message transaction with `SignTypedData` for
  one of `HonestNetworks`. The transaction carries a web3 extension. A
  mainnet transaction may also carry no extension.
* `Take` and `Tamper`: the adversary picks up a published envelope and
  rewrites one field per step, up to `MaxTamper` fields. It can only reuse
  signatures it has seen.
* `VerifyCosmos`: `verifyCosmosSignature` on the envelope for a claimed
  `{accountNumber, publicKey}`.
* `VerifyTyped`: `verifySignature` on a published signature, with a public
  key written in any prefix and case.

`VerifyCosmosSignature` follows the code's order:

1. the multiple-signer guard (line 286);
2. the multiple-message guard (line 292);
3. `getChainIds` (lines 298-334), which takes the *first* extension of the
   web3 type;
4. `MsgDecoder.decode` on the first message, where an unregistered type
   throws and a missing message is a TypeError;
5. `signerInfo.sequence` and `Buffer.from(signature)`, where a missing
   entry is a TypeError;
6. `verifySignature`, which adds the `0x` prefix and then compares strings
   exactly.

Results that are errors are strings naming the exception.

Abstraction:

* A key is a model value.
* A hex public key is `[key, prefixed, upper]`.
* A document is the record of the fields `getEip712TypedData` puts into it.
  `memo` stands for every body field that is copied unchanged (memo, fee,
  timeout height).
* A signature is `[signer, doc]`. Recovery over another document gives
  `Garbage`, a key nobody holds.
* Chain ids are model values. `Number()` precision is outside the model
  (modelled in `ChainContext.tla`).

Runs (`MC_CosmosTxVerifier.tla` gives the constants):

| run | cfg | checks | result |
|---|---|---|---|
| `cosmos_verify` | `MC_CosmosTxVerifier.cfg` | `TypeOK`, `VerifiedImpliesSigned`, `AnswerOnlyForSingleSigner`, `HonestTxVerifies` | pass, about 1.0M distinct states, 75 s |
| `cosmos_refines` | `MC_CosmosTxVerifier_Refine.cfg` | `TxAuthRefinement`: `AbstractTxAuth!Spec` under the mapping below, with one rewrite per envelope | pass, about 69k distinct states, 65 s |
| `verify_key_case` | `MC_CosmosTxVerifier_KeyCase.cfg` | `KeyCaseIrrelevant` | violation: a signature is rejected when the public key is given in upper-case hex |

`AbstractTxAuth.tla` is the abstract specification. Key holders endorse
contents. A caller presents a request. The verifier refuses (throws)
exactly the requests that are not one content under one signature, and
gives a verdict for every other request. A `true` verdict names an
endorsed `[key, content]` pair. The refinement mapping (`TxAuth` in
`CosmosTxVerifier.tla`) works as follows:

* a request (`Presentation`) is what an envelope shows: its message list,
  memo, signer-info sequences, number of signatures, the caller's account
  number and the declared chain id. The well-formed requests
  (`AuthContents`) have one registered message, one signer info and one
  signature;
* `endorsed` is the request of every envelope a wallet published;
* `answer` is the last `verifyCosmosSignature` call: a verdict when it
  returned a boolean, a refusal of its request when it threw, and no answer
  for a `verifySignature` call or no call.

So the refinement says two things that `VerifiedImpliesSigned` does not.
A verdict, true or false, is given only for a well-formed envelope: a
dropped `signatures.length > 1` test at line 286 is caught. A well-formed
envelope is never refused.

Bounds:

* 2 keys with distinct account numbers, and 2 registered messages plus 1
  unregistered one. This is enough to substitute a message, a key or an
  account number.
* 2 memos and sequence numbers 0 and 1. This is enough to rewrite each
  body and signer-info field.
* Ethereum chain ids {mainnet, Sepolia, one unlisted id}. These cover the
  testnet branch, the mainnet branch and the fall-through branch.
* Every repeated field has length 0..2. This covers the empty case, the
  single case and the multiple case of every guard, and `find` returning
  the first of two extensions.
* One signed transaction and two rewrites per envelope.

A single signature already lets the adversary build `<<s, s>>` and reuse
it against every key and account-number claim. With two rewrites it can
combine, for example, a stripped extension with a changed sequence.

Fairness: none is assumed. The verifier is a pure function of its inputs,
so every property is a safety property, and the model has no liveness
obligation.

### KeyMaterial.tla (modelled)

State: `wallet`, the key bytes of the caller's current `PrivateKey` (or
`NoKey`), and `last`, the last call with its input and result. A
constructor that throws leaves `wallet` as it was.

Actions, one per static constructor plus the exporters:

* `Generate` (lines 36-44): a valid mnemonic derived at `DefaultPath`.
* `FromMnemonicCall` (53-58): any phrase and path; invalid ones throw.
* `FromPrivateKeyCall` (68-70): `new Wallet(string)`. ethers prefixes a
  bare string of exactly 64 hex digits with `0x`, then `hexlify` needs
  `0x`, hex digits and an even length, and `SigningKey` needs 32 bytes.
* `FromHexString` and `FromHexBytes` (78-87): strip a lower-case `0x`,
  decode with `Buffer.from(_, 'hex')` (`HexPairs`: pairs from the start,
  stop at the first non-hex pair, drop an odd trailing digit), then
  `new Wallet(bytes)`. A `Uint8Array` is passed through.
* `Export` (93-131): `toPrivateKeyHex` (hexlify's `0x` and lower-case
  digits), `toPublicKey`, `toHex`, `toAddress`, `toBech32`.

Abstraction: a key has `KeyBytes` bytes instead of 32 and its nibbles come
from a small set, so hex text can be spelled character by character; the
truncation rules are what the properties are about. BIP39/BIP32 derivation
is a table `DerivedKey`. Public keys and addresses are functions of the key
(spec §4.2); their encodings are not modelled.

Bounds (`MC_KeyMaterial.tla`): `KeyBytes = 1`; nibbles {1, 10}; input
strings are one of the prefixes {none, `0x`, `0X`} followed by up to 4
characters of {`1`, `a`, `A`, `x`}, so inputs one and two characters
longer than a key, upper- and lower-case digits, and a non-hex character
at every position all occur; byte arrays have 0..2 bytes. Two valid
mnemonics, one invalid; one valid path, one invalid.

| run | cfg | checks | result |
|---|---|---|---|
| `key_material` | `MC_KeyMaterial.cfg` | `TypeOK`, `RoundTrip`, `FromHexAcceptsWellFormed`, `FromHexNeverMisreads`, `FromPrivateKeyMatchesSpec` | pass, 9412 distinct states, 13 s |
| `from_hex_strict` | `MC_KeyMaterial_Strict.cfg` | `FromHexMatchesSpec` | violation: `fromHex("111")` yields the key `11` |

`SpecFromHex` is the reference: spec §4.1 and §7 read as "exactly 64 hex
digits after an optional `0x`, or 32 bytes". It decodes with its own
`SpecDigits`, not with the mapped `HexPairs`.

### SignatureEngine.tla (modelled)

State: `held`, the output of the last signing call with its method, key
and input; `verdict`, the last `verifySignature` call on it.

Actions: one per signing method (`SignCall` … `SignHashedTypedDataCall`,
lines 138-236), each over every key and payload (digests, document
encodings, another message), and `Verify` (248-262) against any document
and any public key, prefixed or not.

Abstraction: keccak256 and the EIP-712 hash are injective record
constructors, except that keccak256 of a document's encoding is its
EIP-712 hash. keccak256 of any payload, a 32-byte hash included, is a
32-byte digest, so `sign` and `signEcda` never throw; only the hashed
methods throw, when given bytes that are not 32 long. A signature is its key, digest, byte length and `v`. Both
ethers `signDigest` and `secp256k1.ecdsaSign` use RFC 6979 nonces with low
`s`, and `RecId` fixes the recovery id of each (key, digest).
`recoverTypedSignaturePubKey` (outside `src/`, spec-modelled) reads `v`
from byte 65, or for a 64-byte signature from the top bit of `s` as an
EIP-2098 compact signature, which gives 27 for a low `s`.

Bounds: 2 keys, 2 documents; `RecId` is 1 for one (key, digest) and 0
elsewhere, so both recovery ids occur.

| run | cfg | checks | result |
|---|---|---|---|
| `signature_engine` | `MC_SignatureEngine.cfg` | `TypeOK`, `TypedSignatureVerifiesExactly`, `VerifiedOnlyWhatWasSigned` | pass, 23617 distinct states, 3 s |
| `hashed_typed_verify` | `MC_SignatureEngine_HashedTyped.cfg` | `HashedTypedSignatureVerifies` | violation: a `signHashedTypedData` signature with recovery id 1 is rejected |

### ApiClients.tla (modelled)

The DMM gRPC client, the Chronos REST client and the UI staking client.

State: `call`, one outstanding call: the method, the request it built, then
the transport's outcome, then the settled result (resolved value or
rejection with its error).

Actions: `Issue` (build the request; for DMM the table `DmmFields` lists
each method's required and truthy-optional fields, lines 19-408), `Answer`
(the awaited RPC or GET returns an outcome: data, malformed data, a gRPC
error with a code, an HTTP error with or without a response body, a
transport error), and `Settle` (the code after the await: `DmmCall`,
`ChronosCall`, `FetchValidators`, `FetchValidator`,
`FetchValidatorDelegations`, `FetchList`). `Idle` lets a settled call be
replaced by the next. A malformed response that makes a transformer throw
is caught by the same catch, as in the code.

Bounds: 2 gRPC codes plus the unspecified code; every method against every
outcome. This is all the variety the code distinguishes.

| run | cfg | checks | result |
|---|---|---|---|
| `api_clients` | `MC_ApiClients.cfg` | `TypeOK`, `FailuresReject`, `RejectionCarriesCause`, `ResolvedOnlyWithServerData` | pass, 353 distinct states |

Fairness: none. The clients set no timeout, so a transport that never
answers leaves a call pending forever. A liveness property would hold only
under fairness on `Answer`, which is an assumption about the network, not
something the code ensures.

### MessageBuilders.tla (modelled)

State: `msg`, the built message (type and params), and `out`, its last
rendering. Actions: `FromJSON`, and `ToProtoCall`, `ToDataCall`,
`ToWeb3Call`, `ToDirectSignCall`. google-protobuf's `toObject` (camelCase,
`List` on repeated fields) and `snakecase-keys` are tables over the key
names these two messages use.

Bounds: 3 addresses, 1 denom, 2 amounts, so source and destination can
differ or coincide.

| run | cfg | checks | result |
|---|---|---|---|
| `message_builders` | `MC_MessageBuilders.cfg` | `TypeOK`, `FormsCarryParams` | pass, 361 distinct states |

`FormsCarryParams` accepts a field under any of its names, because
`MsgSend.toWeb3` snake-cases keys and `MsgBeginRedelegate.toWeb3` keeps
camelCase; no source says which the EIP-712 consumer expects (hazard at
`MsgBeginRedelegate.ts:72`).

### ChainContext.tla (modelled)

`CosmosTxVerifier` treats chain ids as model values, so `Number()` on
line 320 is the identity there. `ChainContext` models `getChainIds`
(lines 298-334) again, with chain ids as integers and `Number()` as what it
does: a uint64 id, decoded as a decimal string, becomes the nearest double,
with ties going to the even significand. At scale, `W = 7` bits stand for 64
and `P = 6` significand bits stand for 53. Goerli 5 and Kovan 42 keep their
values; 59 stands for Sepolia, which like every test id lies in the exact
range.

The caller's account number claim (line 347, typed `number | string`) is
the other number in the context. A string claim is rendered verbatim. A
number claim is a double, holding `Number()` of the account number it came
from, and `toString()` renders it as the integer it holds. No property
is stated about number claims: the rounding happens in the caller before
line 347 runs, and account numbers are far below 2^53.
`ASSUME WidthsAssumption` keeps the test ids inside the exact range.

State: `signed`, the network, account number and extension list a wallet
signed with; `env`, the extension options of the envelope; `verdict`, the last
verification. Actions: `SignTx` (a wallet), `Rewrite` (anyone replaces the
extension options with any list of up to two extensions), and `Verify`
(for any claim, resolve the chain ids, render the account number and
compare with the signed ones; the rest of the
document is `CosmosTxVerifier`'s subject).

Bounds: ids {0, 1, 5, 42, 59, 64, 65, 69, 100, 101, 127}. These cover the
signed ids, the first ids beyond 2^P, 101 (a tie that rounds to the signed
100), 127 (rounds up to 2^W) and 69 (its low bits spell a test id). Account numbers
are {7, 100, 101}.

| run | cfg | checks | result |
|---|---|---|---|
| `chain_context` | `MC_ChainContext.cfg` | `TypeOK`, `ClassifiedByRawId`, `HonestEnvelopeVerifies`, `ChainIdSwapOnlyBeyondPrecision` | pass, 16957 distinct states, 5 s |
| `chain_id_precision` | `MC_ChainContext_Binding.cfg` | `VerifiedBindsDeclaredChainId` | violation: a wallet signs for id 100; the extension is rewritten to 101; the envelope verifies |

### Mutants

Every property of every passing run has a mutant in `PROJECT.json`: a
plausible bug in a mapped definition (a dropped length check, a missed
`0x` test, a lost recovery byte, a swallowed rethrow, swapped validator
addresses, ...) under which TLC finds the property violated.

## 3. Findings

* `verify_key_case`: `verifySignature` (PrivateKey.ts:257-261) adds a
  missing `0x` prefix and then compares with `===`. spec §4.4 requires a
  case-insensitive comparison. A valid signature is reported invalid when
  the caller passes the public key in upper-case or mixed-case hex.
* `from_hex_strict`: `fromHex` (PrivateKey.ts:82-84) decodes with
  `Buffer.from(hex, 'hex')`, which drops an odd trailing digit and stops at
  the first non-hex pair. A 65-digit string, or 64 digits followed by junk,
  is accepted as the key of its first 64 digits; spec §4.1/§7 say a bad
  hex length fails at construction. `FromHexNeverMisreads` (passing) shows
  that the accepted key is always the one the leading digits spell.
* `hashed_typed_verify`: `signHashedTypedData` (PrivateKey.ts:233-235)
  returns `r||s` without `v`. `verifySignature` reads 64 bytes as an
  EIP-2098 compact signature with `v = 27`, so about half of such
  signatures (recovery id 1) fail to verify, contrary to spec §8's
  sign-then-verify round trip.

* `chain_id_precision`: `getChainIds` (PrivateKey.ts:320) converts the
  uint64 `typedDataChainID` with `Number()`. Ids above 2^53 round to the
  nearest double, so an envelope whose extension id is rewritten to
  another id with the same double (2^53+1 for 2^53) rebuilds the signed
  document and verifies. Spec §6 step 5 says the verifier rebuilds the
  document the signer of this envelope must have produced. The passing
  `ChainIdSwapOnlyBeyondPrecision` bounds the damage: below 2^53 a
  verified envelope declares exactly the signed id.

## 4. Not modelled

* `spot.ts` (UI spot types): type declarations and an enum; no behaviour.
* `peggy.ts` (Peggy ABI): a constant table; no behaviour.
* Test files: they are checked by running them, not by a model.
* Inside modelled components: elliptic-curve arithmetic, the curve-order
  range check on keys, BIP39/BIP32 derivation and address encodings are
  abstracted to injective functions and tables; `fetchOrFetchAndMeasure`
  (metrics, outside `src/`) is a pass-through.
* `verifyArbitrarySignature`: spec §4.4 describes it and
  `PrivateKey.spec.ts:79` calls it, but the `PrivateKey` class in `src/`
  has no such method, so there is no code to model.
* Liveness: no module states one. Every operation is a synchronous
  computation or one awaited promise followed by a continuation. Under the
  event loop's fairness the continuation always runs, so "an answered call
  settles" holds by the shape of the model whatever the code does. Whether
  the transport's promise ever settles is the transport's timeout policy,
  which spec §5 places outside this code.
