-------------------------- MODULE MessageBuilders --------------------------
(***************************************************************************)
(* The message builders MsgSend (bank/msgs/MsgSend.ts) and                 *)
(* MsgBeginRedelegate (staking/msgs/MsgBeginRedelegate.ts).                *)
(*                                                                         *)
(* A caller builds a message from its params (fromJSON) and renders it in  *)
(* one of four forms per step: the protobuf message (toProto), the JSON of *)
(* proto.toObject() with '@type' (toData), the form placed in EIP-712      *)
(* documents (toWeb3), and {type, message} (toDirectSign).  An object is a *)
(* function from key names to values.  The key renamings that google-      *)
(* protobuf's toObject (camelCase, a `List` suffix on repeated fields) and *)
(* snakecase-keys perform are modelled as tables over the key names these  *)
(* two messages use.  Addresses, denoms and amounts are model values.      *)
(***************************************************************************)
EXTENDS Sequences, FiniteSets, TLC

CONSTANTS
    Addresses,  \* bech32 account and validator addresses
    Denoms,
    Amounts,
    None

VARIABLES msg, out
vars == <<msg, out>>

SendType == "/cosmos.bank.v1beta1.MsgSend"
RedelegateType == "/cosmos.staking.v1beta1.MsgBeginRedelegate"

Coins == [denom : Denoms, amount : Amounts]
SendParams == [amount : Coins, srcInjectiveAddress : Addresses, dstInjectiveAddress : Addresses]
RedelegateParams ==
    [amount : Coins, srcValidatorAddress : Addresses, dstValidatorAddress : Addresses,
     injectiveAddress : Addresses]

\* google-protobuf toObject: the JS name of a proto field, and the fields
\* that are repeated (rendered as <name>List).
CamelOf ==
    ("from_address" :> "fromAddress") @@ ("to_address" :> "toAddress") @@
    ("amount" :> "amount") @@ ("delegator_address" :> "delegatorAddress") @@
    ("validator_src_address" :> "validatorSrcAddress") @@
    ("validator_dst_address" :> "validatorDstAddress")
JsKey(field, repeated) == IF field \in repeated THEN CamelOf[field] \o "List" ELSE CamelOf[field]

\* snakecase-keys on the keys toObject produces.
SnakeOf ==
    ("fromAddress" :> "from_address") @@ ("toAddress" :> "to_address") @@
    ("amountList" :> "amount_list") @@ ("amount" :> "amount") @@
    ("denom" :> "denom") @@ ("delegatorAddress" :> "delegator_address") @@
    ("validatorSrcAddress" :> "validator_src_address") @@
    ("validatorDstAddress" :> "validator_dst_address")
SnakeCaseKeys(obj) == [k \in {SnakeOf[j] : j \in DOMAIN obj} |->
                          obj[CHOOSE j \in DOMAIN obj : SnakeOf[j] = k]]

\* A protobuf message: its type, its fields by proto name, and which of
\* them are repeated.
ProtoMsg(type, fields, repeated) == [type |-> type, fields |-> fields, repeated |-> repeated]
ToObject(proto) ==
    [k \in {JsKey(f, proto.repeated) : f \in DOMAIN proto.fields} |->
        proto.fields[CHOOSE f \in DOMAIN proto.fields : JsKey(f, proto.repeated) = k]]
WithType(type, obj) == ("@type" :> type) @@ obj

(***************************************************************************)
(* Mutants of the mapped definitions below.                                *)
(***************************************************************************)
RedelegateToProtoSwapped(p) ==
    ProtoMsg(RedelegateType,
             ("amount" :> p.amount) @@ ("delegator_address" :> p.injectiveAddress) @@
             ("validator_src_address" :> p.dstValidatorAddress) @@
             ("validator_dst_address" :> p.srcValidatorAddress),
             {})
RedelegateToWeb3NoType(p, proto) == ToObject(proto)
SendToWeb3KeepList(p, proto) ==
    WithType(SendType, ("amount" :> <<p.amount>>) @@ SnakeCaseKeys(ToObject(proto)))

(***************************************************************************)
(* MsgSend                                                                 *)
(***************************************************************************)
\* toProto: a Coin from params.amount, from/to addresses, [coin].
SendToProto(p) ==
    ProtoMsg(SendType,
             ("from_address" :> p.srcInjectiveAddress) @@ ("to_address" :> p.dstInjectiveAddress)
             @@ ("amount" :> <<p.amount>>),
             {"amount"})

\* toWeb3: snake-cased toObject, `amount` set to [params.amount] (its keys
\* are already snake case), `amount_list` deleted, '@type' first.
SendToWeb3(p, proto) ==
    LET message == ("amount" :> <<p.amount>>) @@ SnakeCaseKeys(ToObject(proto))
    IN WithType(SendType, [k \in DOMAIN message \ {"amount_list"} |-> message[k]])

(***************************************************************************)
(* MsgBeginRedelegate                                                      *)
(***************************************************************************)
\* toProto: a Coin, the delegator and the two validators.
RedelegateToProto(p) ==
    ProtoMsg(RedelegateType,
             ("amount" :> p.amount) @@ ("delegator_address" :> p.injectiveAddress) @@
             ("validator_src_address" :> p.srcValidatorAddress) @@
             ("validator_dst_address" :> p.dstValidatorAddress),
             {})

\* toWeb3: '@type' and toObject, keys left in camelCase.
RedelegateToWeb3(p, proto) == WithType(RedelegateType, ToObject(proto))

(***************************************************************************)
(* The operations shared in shape by both builders.                        *)
(***************************************************************************)
ToProto(m) == IF m.type = SendType THEN SendToProto(m.params) ELSE RedelegateToProto(m.params)
ToData(m) == WithType(m.type, ToObject(ToProto(m)))
ToWeb3(m) ==
    IF m.type = SendType THEN SendToWeb3(m.params, ToProto(m))
    ELSE RedelegateToWeb3(m.params, ToProto(m))
ToDirectSign(m) == [type |-> m.type, message |-> ToProto(m)]

-----------------------------------------------------------------------------
Init ==
    /\ msg = None
    /\ out = None

\* fromJSON: new MsgSend(params) or new MsgBeginRedelegate(params).
FromJSON ==
    /\ \/ \E p \in SendParams : msg' = [type |-> SendType, params |-> p]
       \/ \E p \in RedelegateParams : msg' = [type |-> RedelegateType, params |-> p]
    /\ out' = None

Render(form, value) ==
    /\ msg # None
    /\ out' = [form |-> form, value |-> value]
    /\ UNCHANGED msg

ToProtoCall == Render("proto", ToProto(msg))
ToDataCall == Render("data", ToData(msg))
ToWeb3Call == Render("web3", ToWeb3(msg))
ToDirectSignCall == Render("directSign", ToDirectSign(msg))

Next == FromJSON \/ ToProtoCall \/ ToDataCall \/ ToWeb3Call \/ ToDirectSignCall

Spec == Init /\ [][Next]_vars

-----------------------------------------------------------------------------
(***************************************************************************)
(* Reference: the proto field each param fills, read from the params'      *)
(* names, and every name a field may appear under in a rendered object.    *)
(***************************************************************************)
IntendedFields(m) ==
    IF m.type = SendType
    THEN ("from_address" :> m.params.srcInjectiveAddress) @@
         ("to_address" :> m.params.dstInjectiveAddress) @@ ("amount" :> <<m.params.amount>>)
    ELSE ("delegator_address" :> m.params.injectiveAddress) @@
         ("validator_src_address" :> m.params.srcValidatorAddress) @@
         ("validator_dst_address" :> m.params.dstValidatorAddress) @@
         ("amount" :> m.params.amount)
NamesOf(field) ==
    {field, CamelOf[field], CamelOf[field] \o "List", SnakeOf[CamelOf[field]]}
    \cup IF CamelOf[field] \o "List" \in DOMAIN SnakeOf THEN {SnakeOf[CamelOf[field] \o "List"]} ELSE {}

\* The fields of a rendered form, by the proto field their key names.
FieldsOf(form, value) ==
    CASE form = "proto" -> value.fields
      [] form = "directSign" -> value.message.fields
      [] OTHER -> [k \in DOMAIN value \ {"@type"} |-> value[k]]
KeysNameFields(m, keys) ==
    \A k \in keys : \E f \in DOMAIN IntendedFields(m) : k \in NamesOf(f)
FieldUnder(m, f, keys) == {k \in keys : k \in NamesOf(f)}

\* A built message has one of the two types; a JSON form has its '@type'
\* and otherwise holds addresses, coins or lists of coins.
TypeOK ==
    /\ msg = None \/ msg.type \in {SendType, RedelegateType}
    /\ out = None \/ out.form \in {"proto", "data", "web3", "directSign"}
    /\ out # None /\ out.form \in {"data", "web3"} =>
          /\ "@type" \in DOMAIN out.value
          /\ \A k \in DOMAIN out.value \ {"@type"} :
                out.value[k] \in Addresses \cup Coins \cup {<<c>> : c \in Coins}

\* Every form of a built message carries exactly its params: each key names
\* one field of the message type, each field appears under exactly one key,
\* with the param value that field stands for, and the type is the message's.
FormsCarryParams ==
    out # None =>
        LET obj == FieldsOf(out.form, out.value)
        IN /\ KeysNameFields(msg, DOMAIN obj)
           /\ \A f \in DOMAIN IntendedFields(msg) :
                 /\ Cardinality(FieldUnder(msg, f, DOMAIN obj)) = 1
                 /\ \A k \in FieldUnder(msg, f, DOMAIN obj) : obj[k] = IntendedFields(msg)[f]
           /\ out.form \in {"data", "web3"} => out.value["@type"] = msg.type
           /\ out.form \in {"proto", "directSign"} => out.value.type = msg.type
=============================================================================
