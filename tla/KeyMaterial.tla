---------------------------- MODULE KeyMaterial ----------------------------
(***************************************************************************)
(* Construction and export of a PrivateKey (PrivateKey.ts lines 25-131).   *)
(*                                                                         *)
(* A caller holds at most one PrivateKey instance (`wallet`, the key bytes *)
(* of its ethers Wallet) and calls one static constructor or the exporters *)
(* per step.  A constructor that throws leaves the caller's instance as it *)
(* was.  Strings are sequences of one-character strings over a small       *)
(* alphabet, and a key has KeyBytes bytes instead of 32, so that the       *)
(* decoding of hex text (Node's Buffer.from(_, 'hex') and ethers' hexlify) *)
(* is modelled character by character: its truncation rules are what the  *)
(* properties are about.                                                   *)
(***************************************************************************)
EXTENDS Naturals, Sequences, SequencesExt

CONSTANTS
    KeyBytes,       \* bytes in a private key (32 in the code)
    NibbleOf,       \* hex character -> value: the table both decoders use
    LowerDigit,     \* value -> the lower-case character hexlify writes
    BodyChars,      \* characters an input string has after its prefix
    KeyNibbles,     \* nibble values of the bytes of an input byte array
    Mnemonics,      \* phrases a caller may pass to fromMnemonic
    ValidMnemonics, \* those BIP39 accepts; generateMnemonic returns one
    Paths,          \* derivation paths a caller may pass
    ValidPaths,     \* those BIP32 accepts
    DefaultPath,    \* DEFAULT_DERIVATION_PATH
    DerivedKey,     \* [ValidMnemonics \X ValidPaths -> Keys]
    NoKey,          \* the caller holds no instance yet
    Error           \* the constructor threw

VARIABLES wallet, last
vars == <<wallet, last>>

HexChars == DOMAIN NibbleOf
Byte == KeyNibbles \X KeyNibbles
Keys == [1..KeyBytes -> Byte]
ZeroX == <<"0", "x">>

\* Inputs: an optional prefix (the code strips only a lower-case "0x")
\* followed by up to two characters more than a key's hex digits.
InputPrefixes == {<<>>, ZeroX, <<"0", "X">>}
HexStrings == {p \o b : p \in InputPrefixes, b \in SeqOf(BodyChars, 2 * KeyBytes + 2)}
ByteArrays == SeqOf(Byte, KeyBytes + 1)
StringInput(s) == [isString |-> TRUE, value |-> s]
BytesInput(b) == [isString |-> FALSE, value |-> b]

IsHexBody(s) == \A i \in 1..Len(s) : s[i] \in HexChars
StripZeroX(s) == IF IsPrefix(ZeroX, s) THEN SubSeq(s, 3, Len(s)) ELSE s

(***************************************************************************)
(* Mutants of the mapped definitions below.                                *)
(***************************************************************************)
RECURSIVE HexPairsLowerOnly(_)
HexPairsLowerOnly(s) ==
    IF Len(s) < 2 \/ s[1] \notin Range(LowerDigit) \/ s[2] \notin Range(LowerDigit)
    THEN <<>>
    ELSE << <<NibbleOf[s[1]], NibbleOf[s[2]]>> >> \o HexPairsLowerOnly(SubSeq(s, 3, Len(s)))
HexPairsIgnoreNonHex(s) ==
    LET t == SelectSeq(s, LAMBDA c : c \in HexChars)
    IN [i \in 1..(Len(t) \div 2) |-> <<NibbleOf[t[2 * i - 1]], NibbleOf[t[2 * i]]>>]
NewWalletNoLengthCheck(bytes) == bytes
NewWalletFromStringPrefixedOnly(s) ==
    IF IsPrefix(ZeroX, s) /\ IsHexBody(SubSeq(s, 3, Len(s))) /\ Len(s) % 2 = 0
    THEN IF (Len(s) - 2) \div 2 = KeyBytes THEN [i \in 1..KeyBytes |-> <<NibbleOf[s[2 * i + 1]], NibbleOf[s[2 * i + 2]]>>] ELSE Error
    ELSE Error

(***************************************************************************)
(* Buffer.from(hex, 'hex'): decode pairs of hex characters from the start  *)
(* and stop at the first pair that is not two hex digits; a trailing odd   *)
(* character is dropped.                                                   *)
(***************************************************************************)
RECURSIVE HexPairs(_)
HexPairs(s) ==
    IF Len(s) < 2 \/ s[1] \notin HexChars \/ s[2] \notin HexChars
    THEN <<>>
    ELSE << <<NibbleOf[s[1]], NibbleOf[s[2]]>> >> \o HexPairs(SubSeq(s, 3, Len(s)))

\* new Wallet(bytes): ethers' SigningKey accepts exactly KeyBytes bytes.
NewWallet(bytes) == IF Len(bytes) = KeyBytes THEN bytes ELSE Error

\* new Wallet(string): ethers prefixes a bare string of exactly 2*KeyBytes
\* hex digits with 0x; hexlify then requires 0x, hex digits, even length.
NewWalletFromString(s) ==
    LET t == IF IsHexBody(s) /\ Len(s) = 2 * KeyBytes THEN ZeroX \o s ELSE s
        digits == SubSeq(t, 3, Len(t))
    IN IF IsPrefix(ZeroX, t) /\ IsHexBody(digits) /\ Len(digits) % 2 = 0
       THEN NewWallet(HexPairs(digits))
       ELSE Error

\* PrivateKey.fromHex: strip a lower-case 0x from a string, decode it with
\* Buffer.from; a byte array is passed through.
FromHex(in) ==
    LET privateKeyHex == IF in.isString THEN StripZeroX(in.value) ELSE in.value
        privateKeyBuff == IF in.isString THEN HexPairs(privateKeyHex) ELSE in.value
    IN NewWallet(privateKeyBuff)

FromPrivateKey(s) == NewWalletFromString(s)

FromMnemonic(words, path) ==
    IF words \in ValidMnemonics /\ path \in ValidPaths
    THEN DerivedKey[words, path]
    ELSE Error

\* wallet.privateKey: hexlify writes 0x and lower-case digits.
WalletPrivateKey(k) ==
    ZeroX \o FlattenSeq([i \in 1..KeyBytes |-> <<LowerDigit[k[i][1]], LowerDigit[k[i][2]]>>])

ToPrivateKeyHexAlwaysPrefix(k) == ZeroX \o WalletPrivateKey(k)

ToPrivateKeyHex(k) ==
    IF IsPrefix(ZeroX, WalletPrivateKey(k))
    THEN WalletPrivateKey(k)
    ELSE ZeroX \o WalletPrivateKey(k)

\* PublicKey.fromHex(privateKey) and Address (outside src/): the public key
\* and the address are functions of the scalar (spec 4.2).
PublicKeyFromHex(privateKeyHex) == [publicKeyOf |-> HexPairs(StripZeroX(privateKeyHex))]
WalletAddress(k) == [prefix |-> "0x", account |-> k]
ToPublicKey(k) == PublicKeyFromHex(WalletPrivateKey(k))
ToHex(k) ==
    IF WalletAddress(k).prefix = "0x" THEN WalletAddress(k)
    ELSE [WalletAddress(k) EXCEPT !.prefix = "0x"]
ToAddress(k) == [address |-> ToHex(k).account]
ToBech32(k) == [bech32 |-> ToAddress(k).address]

-----------------------------------------------------------------------------
Init ==
    /\ wallet = NoKey
    /\ last = [op |-> "none", input |-> NoKey, result |-> NoKey]

\* A constructor call: the caller keeps the new instance, or its old one
\* when the constructor threw.
Construct(op, in, res) ==
    /\ last' = [op |-> op, input |-> in, result |-> res]
    /\ wallet' = IF res = Error THEN wallet ELSE res

Generate ==
    \E mnemonic \in ValidMnemonics :
        Construct("generate", mnemonic, FromMnemonic(mnemonic, DefaultPath))

FromMnemonicCall ==
    \E words \in Mnemonics, path \in Paths :
        Construct("fromMnemonic", <<words, path>>, FromMnemonic(words, path))

FromPrivateKeyCall ==
    \E s \in HexStrings : Construct("fromPrivateKey", s, FromPrivateKey(s))

FromHexString ==
    \E s \in HexStrings : Construct("fromHex", StringInput(s), FromHex(StringInput(s)))

FromHexBytes ==
    \E b \in ByteArrays : Construct("fromHex", BytesInput(b), FromHex(BytesInput(b)))

Export ==
    /\ wallet # NoKey
    /\ last' = [op |-> "export", input |-> wallet,
                result |-> <<ToPrivateKeyHex(wallet), ToPublicKey(wallet),
                             ToHex(wallet), ToAddress(wallet), ToBech32(wallet)>>]
    /\ UNCHANGED wallet

Next ==
    \/ Generate
    \/ FromMnemonicCall
    \/ FromPrivateKeyCall
    \/ FromHexString
    \/ FromHexBytes
    \/ Export

Spec == Init /\ [][Next]_vars

-----------------------------------------------------------------------------
(***************************************************************************)
(* Reference: what spec 4.1 and 7 say fromHex accepts.  A string, after an *)
(* optional 0x, must be exactly 2*KeyBytes hex digits of either case; a    *)
(* byte array must be KeyBytes long; anything else fails at construction.  *)
(***************************************************************************)
SpecDigits(d) == [i \in 1..(Len(d) \div 2) |-> <<NibbleOf[d[2 * i - 1]], NibbleOf[d[2 * i]]>>]
SpecFromHex(in) ==
    IF ~in.isString
    THEN IF Len(in.value) = KeyBytes THEN in.value ELSE Error
    ELSE LET d == StripZeroX(in.value)
         IN IF Len(d) = 2 * KeyBytes /\ IsHexBody(d) THEN SpecDigits(d) ELSE Error

\* The caller's instance is a key, and the last call is one of the ops.
TypeOK ==
    /\ wallet \in Keys \cup {NoKey}
    /\ last.op \in {"none", "generate", "fromMnemonic", "fromPrivateKey", "fromHex", "export"}

\* Spec 8 round trip: the string toPrivateKeyHex exports for the caller's
\* key is read back to that same key by fromHex and by fromPrivateKey.
RoundTrip ==
    wallet # NoKey =>
        /\ FromHex(StringInput(ToPrivateKeyHex(wallet))) = wallet
        /\ FromPrivateKey(ToPrivateKeyHex(wallet)) = wallet

\* fromHex accepts every well-formed input (with or without 0x, digits in
\* either case, or KeyBytes raw bytes) and yields the key it spells.
FromHexAcceptsWellFormed ==
    last.op = "fromHex" /\ SpecFromHex(last.input) # Error =>
        last.result = SpecFromHex(last.input)

\* fromHex never yields a key other than the one its first 2*KeyBytes
\* characters after the prefix spell: whatever Buffer.from drops, it never
\* reads a digit out of place.
FromHexNeverMisreads ==
    LET d == StripZeroX(last.input.value)
        lead == SubSeq(d, 1, 2 * KeyBytes)
    IN last.op = "fromHex" /\ last.input.isString /\ last.result # Error =>
        /\ Len(lead) = 2 * KeyBytes
        /\ IsHexBody(lead)
        /\ last.result = SpecDigits(lead)

\* fromPrivateKey accepts exactly the well-formed strings, with their key.
FromPrivateKeyMatchesSpec ==
    last.op = "fromPrivateKey" => last.result = SpecFromHex(StringInput(last.input))

\* Spec 4.1 and 7: fromHex fails on every input that is not exactly a key's
\* length ("bad hex length ... fails immediately at construction").
FromHexMatchesSpec ==
    last.op = "fromHex" => last.result = SpecFromHex(last.input)
=============================================================================
