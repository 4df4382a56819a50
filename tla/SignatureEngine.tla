-------------------------- MODULE SignatureEngine --------------------------
(***************************************************************************)
(* The six signing methods of PrivateKey (PrivateKey.ts lines 138-236)     *)
(* composed with PrivateKey.verifySignature (lines 248-262).               *)
(*                                                                         *)
(* A caller signs one payload with one method (`held`), then verifies the  *)
(* signature against a typed-data document and a public key (`verdict`).   *)
(* Cryptography is abstract: keccak256 and the EIP-712 hash are injective  *)
(* record constructors, except that keccak256 of a document's EIP-712      *)
(* encoding is that document's typed-data hash.  An ECDSA signature is its *)
(* key and digest; ethers' signDigest and secp256k1.ecdsaSign both use     *)
(* RFC 6979 nonces with low s, and RecId gives the recovery id of each     *)
(* (key, digest), which the 64-byte outputs throw away.                    *)
(***************************************************************************)
EXTENDS Naturals

CONSTANTS
    Keys,       \* private keys (model values)
    Docs,       \* EIP-712 typed-data documents
    OtherMsg,   \* a payload that is neither a digest nor a document encoding
    RecId,      \* [Keys \X Digests -> {0, 1}]: the ECDSA recovery id
    Garbage,    \* a public key nobody holds: recovery with the wrong digest or v
    Error,      \* the call threw
    None

VARIABLES held, verdict
vars == <<held, verdict>>

TypedHash(doc) == [eip712Hash |-> doc]
Preimage(doc) == [eip712Encoding |-> doc]
KeccakOf(p) == IF \E doc \in Docs : p = Preimage(doc)
               THEN TypedHash((CHOOSE doc \in Docs : p = Preimage(doc)))
               ELSE [keccak |-> p]
\* Byte payloads a caller may pass: 32-byte hashes, document encodings and
\* another message.
Payloads == {TypedHash(doc) : doc \in Docs} \cup {KeccakOf(OtherMsg)}
              \cup {Preimage(doc) : doc \in Docs} \cup {OtherMsg}
\* The 32-byte values a method can hand to ECDSA: the 32-byte payloads and
\* keccak256 of any payload (a hash included: keccak256 takes any bytes).
Digests == {TypedHash(doc) : doc \in Docs} \cup {KeccakOf(p) : p \in Payloads}

\* r||s, and r||s||v with v = 27 + recovery id.
Sig64(k, d) == [key |-> k, digest |-> d, bytes |-> 64, v |-> 0]
Sig65(k, d) == [key |-> k, digest |-> d, bytes |-> 65, v |-> 27 + RecId[k, d]]
Signatures == {Sig64(k, d) : k \in Keys, d \in Digests} \cup {Sig65(k, d) : k \in Keys, d \in Digests}

\* A public key in hex, with or without the 0x prefix.
PublicKeyHex(k) == [key |-> k, prefixed |-> TRUE]
PublicKeys == {[key |-> k, prefixed |-> p] : k \in Keys, p \in BOOLEAN}

\* ethers signDigest and secp256k1.ecdsaSign reject a digest of other than
\* 32 bytes.
EcdsaSign(k, d) == IF d \in Digests THEN Sig64(k, d) ELSE Error

(***************************************************************************)
(* Mutants of the mapped definitions below.                                *)
(***************************************************************************)
SignEcdaNoHash(k, messageBytes) == EcdsaSign(k, messageBytes)
SignTypedDataRsOnly(k, eip712Data) == Sig64(k, TypedHash(eip712Data))
SignTypedDataKeepPrefix(k, eip712Data) ==
    [key |-> k, digest |-> TypedHash(eip712Data), bytes |-> 0, v |-> 0]

(***************************************************************************)
(* The signing methods.                                                    *)
(***************************************************************************)
\* sign: keccak256, signDigest, keep r and s of the split signature.
Sign(k, messageBytes) == EcdsaSign(k, KeccakOf(messageBytes))

\* signEcda: keccak256, then secp256k1.ecdsaSign, which returns r||s.
SignEcda(k, messageBytes) == EcdsaSign(k, KeccakOf(messageBytes))

\* signHashed: signDigest on the caller's bytes, keep r and s.
SignHashed(k, messageHashedBytes) == EcdsaSign(k, messageHashedBytes)

\* signHashedEcda: secp256k1.ecdsaSign on the caller's bytes.
SignHashedEcda(k, messageHashedBytes) == EcdsaSign(k, messageHashedBytes)

\* signTypedData: eth-sig-util V4 returns 0x r s v; the 0x is removed and the
\* rest decoded, 65 bytes.
SignTypedData(k, eip712Data) == Sig65(k, TypedHash(eip712Data))

\* signHashedTypedData: secp256k1.ecdsaSign on the caller's digest: r||s
\* without the recovery id.
SignHashedTypedData(k, eip712Data) == EcdsaSign(k, eip712Data)

(***************************************************************************)
(* recoverTypedSignaturePubKey (outside src/): the EIP-712 hash of the     *)
(* document, fromRpcSig, ecrecover.  fromRpcSig reads v from byte 65, or   *)
(* from the top bit of s for a 64-byte (EIP-2098 compact) signature; s is  *)
(* low, so that bit is 0 and v is 27.  Shorter input throws.               *)
(***************************************************************************)
FromRpcSigV(sig) == IF sig.bytes >= 65 THEN sig.v ELSE 27
RecoverTypedSignaturePubKey(doc, sig) ==
    IF sig.bytes < 64 THEN Error
    ELSE IF sig.digest = TypedHash(doc) /\ FromRpcSigV(sig) = 27 + RecId[sig.key, sig.digest]
         THEN PublicKeyHex(sig.key)
         ELSE PublicKeyHex(Garbage)

\* verifySignature: add a missing 0x, compare with the recovered key.
VerifySignature(sig, eip712, publicKey) ==
    LET publicKeyInHex == [publicKey EXCEPT !.prefixed = TRUE]
        recovered == RecoverTypedSignaturePubKey(eip712, sig)
    IN IF recovered = Error THEN Error
       ELSE IF publicKeyInHex = recovered THEN "true" ELSE "false"

-----------------------------------------------------------------------------
Init ==
    /\ held = None
    /\ verdict = None

Signed(variant, k, input, out) ==
    /\ held' = [variant |-> variant, key |-> k, input |-> input, out |-> out]
    /\ UNCHANGED verdict

SignCall ==
    \E k \in Keys, p \in Payloads : Signed("sign", k, p, Sign(k, p))
SignEcdaCall ==
    \E k \in Keys, p \in Payloads : Signed("signEcda", k, p, SignEcda(k, p))
SignHashedCall ==
    \E k \in Keys, p \in Payloads : Signed("signHashed", k, p, SignHashed(k, p))
SignHashedEcdaCall ==
    \E k \in Keys, p \in Payloads : Signed("signHashedEcda", k, p, SignHashedEcda(k, p))
SignTypedDataCall ==
    \E k \in Keys, doc \in Docs : Signed("signTypedData", k, doc, SignTypedData(k, doc))
SignHashedTypedDataCall ==
    \E k \in Keys, p \in Payloads :
        Signed("signHashedTypedData", k, p, SignHashedTypedData(k, p))

\* The caller verifies the signature it holds (passed as hex) against a
\* document and a public key of its choice.
Verify ==
    /\ held # None
    /\ held.out # Error
    /\ \E doc \in Docs, pk \in PublicKeys :
          verdict' = [sig |-> held, doc |-> doc, publicKey |-> pk,
                      result |-> VerifySignature(held.out, doc, pk)]
    /\ UNCHANGED held

Next ==
    \/ SignCall \/ SignEcdaCall \/ SignHashedCall \/ SignHashedEcdaCall
    \/ SignTypedDataCall \/ SignHashedTypedDataCall
    \/ Verify

Spec == Init /\ [][Next]_vars

-----------------------------------------------------------------------------
\* The digest the caller asked to have signed: keccak256 of the payload for
\* sign and signEcda, the EIP-712 hash for signTypedData, the payload itself
\* for the hashed methods.
IntendedDigest(h) ==
    CASE h.variant \in {"sign", "signEcda"} -> KeccakOf(h.input)
      [] h.variant = "signTypedData" -> TypedHash(h.input)
      [] OTHER -> h.input

\* Every signing method returns a 64- or 65-byte signature or throws.
TypeOK ==
    /\ held = None \/ held.out \in Signatures \cup {Error}
    /\ verdict = None \/ verdict.result \in {"true", "false", Error}

\* Spec 8: a signTypedData signature verifies against its own document and
\* the signer's public key, and against no other key.
TypedSignatureVerifiesExactly ==
    verdict # None /\ verdict.sig.variant = "signTypedData" /\ verdict.doc = verdict.sig.input =>
        (verdict.result = "true" <=> verdict.publicKey.key = verdict.sig.key)

\* verifySignature accepts a signature only for the key that made it and only
\* for a document whose EIP-712 hash is the digest the caller asked that key
\* to sign, whichever signing method was used.
VerifiedOnlyWhatWasSigned ==
    verdict # None /\ verdict.result = "true" =>
        /\ verdict.publicKey.key = verdict.sig.key
        /\ IntendedDigest(verdict.sig) = TypedHash(verdict.doc)

\* Spec 4.3 and 8: a hashed-typed-data signature over a document's EIP-712
\* digest verifies against that document and the signer's public key.
HashedTypedSignatureVerifies ==
    verdict # None /\ verdict.sig.variant = "signHashedTypedData"
    /\ verdict.sig.input = TypedHash(verdict.doc)
    /\ verdict.publicKey.key = verdict.sig.key =>
        verdict.result = "true"
=============================================================================
