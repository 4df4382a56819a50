---------------------------- MODULE ApiClients ----------------------------
(***************************************************************************)
(* The three API clients of the sample: DmmGrpcApi (11 gRPC fetches),      *)
(* SpotChronosApi (2 REST fetches) and UiStakingApi (6 chain fetches).     *)
(*                                                                         *)
(* Every fetch builds a request, awaits one promise from its transport and *)
(* then, in the continuation, transforms the answer or handles the error.  *)
(* The clients keep no state between calls, so one call at a time is      *)
(* modelled: `call` goes idle -> pending (Issue) -> answered (Answer, the  *)
(* transport's promise settles) -> settled (Settle, the continuation runs  *)
(* and the fetch's own promise resolves or rejects).  Transport answers,   *)
(* server data and error texts are model values.                           *)
(***************************************************************************)
EXTENDS Naturals, TLC

CONSTANTS
    Codes,                \* gRPC status codes a GrpcWebError may carry
    UnspecifiedErrorCode, \* the code used for any other error
    ServerMessage,        \* the `message` of an HTTP error body
    TransportMessage,     \* the `message` of a transport error
    Arg,                  \* a non-empty argument value
    Undef,                \* an omitted argument, or a missing field
    None

VARIABLES call
vars == <<call>>

(***************************************************************************)
(* DmmGrpcApi requests: the fields each fetch always sets and those it     *)
(* sets only when the argument is truthy (`if (page)`, `if (status)`, ...) *)
(***************************************************************************)
DmmEpochFields ==
    ("fetchEpochs" :> [required |-> {}, optional |-> {"status"}]) @@
    ("fetchMarketRewards" :> [required |-> {"epochId"}, optional |-> {}]) @@
    ("fetchEligibleAddresses" :> [required |-> {"epochId"}, optional |-> {"page"}]) @@
    ("fetchEpochScores" :> [required |-> {"epochId"}, optional |-> {"page"}])
DmmScoreFields ==
    ("fetchEpochScoresHistory" :> [required |-> {"epochId", "accountAddress"}, optional |-> {"page"}]) @@
    ("fetchTotalScores" :> [required |-> {"epochId", "marketId"}, optional |-> {"page"}]) @@
    ("fetchTotalScoresHistory" :> [required |-> {"epochId", "marketId", "accountAddress"}, optional |-> {"page"}]) @@
    ("fetchLiquiditySnapshots" :> [required |-> {"epochId", "marketId", "accountAddress"}, optional |-> {"page"}])
DmmRewardFields ==
    ("fetchRewardsDistribution" :> [required |-> {"epochId"}, optional |-> {"height", "page"}]) @@
    ("fetchAccountVolumes" :> [required |-> {"epochId", "accountAddress"}, optional |-> {}]) @@
    ("fetchRewardsEligibility" :> [required |-> {}, optional |-> {"epochId", "accountAddress"}])
DmmFields == DmmEpochFields @@ DmmScoreFields @@ DmmRewardFields

DmmMethods == DOMAIN DmmFields
ChronosMethods == {"fetchMarketSummary", "fetchMarketsSummary"}
ListMethods == {"fetchDelegations", "fetchUnbondingDelegations", "fetchReDelegations"}
StakingMethods == {"fetchValidators", "fetchValidator", "fetchValidatorDelegations"} \cup ListMethods
Methods == DmmMethods \cup ChronosMethods \cup StakingMethods

Truthy(x) == x \notin {Undef, ""}

\* The arguments a caller may pass: a required one is a value, an optional
\* one is omitted, empty or a value.
DmmArgs(m) ==
    {a \in [DmmFields[m].required \cup DmmFields[m].optional -> {Undef, "", Arg}] :
        \A f \in DmmFields[m].required : a[f] = Arg}

\* `XRequest.create()` and the assignments that follow it.
DmmRequest(m, args) ==
    [f \in DmmFields[m].required \cup {g \in DmmFields[m].optional : Truthy(args[g])} |-> args[f]]

ChronosRequest(m) ==
    IF m = "fetchMarketSummary"
    THEN [endpoint |-> "chronos/v1/spot/market_summary", marketId |-> Arg, resolution |-> "24h"]
    ELSE [endpoint |-> "chronos/v1/spot/market_summary_all", resolution |-> "24h"]

(***************************************************************************)
(* What the awaited transport promise settles with.                        *)
(***************************************************************************)
\* gRPC: a response the transformer can or cannot map, a GrpcWebError with
\* a code, or any other error.
DmmOutcomes ==
    {[kind |-> "ok", wellFormed |-> w] : w \in BOOLEAN}
    \cup {[kind |-> "grpcWebError", code |-> c] : c \in Codes}
    \cup {[kind |-> "error"]}
\* REST: data; an HTTP error whose response body has a message, has none,
\* or is null; an error with no response.
ChronosOutcomes ==
    {[kind |-> "ok"], [kind |-> "error", response |-> None, message |-> TransportMessage]}
    \cup {[kind |-> "error", response |-> [data |-> d], message |-> TransportMessage] :
            d \in {[message |-> ServerMessage], [message |-> Undef], None}}
\* Chain: a response with an empty or a non-empty list and with or without
\* the validator asked for, or an error.
StakingOutcomes ==
    {[kind |-> "ok", items |-> i, validator |-> v] : i \in {"empty", "items"}, v \in BOOLEAN}
    \cup {[kind |-> "error"]}

Outcomes(m) ==
    CASE m \in DmmMethods -> DmmOutcomes
      [] m \in ChronosMethods -> ChronosOutcomes
      [] OTHER -> StakingOutcomes

Resolved(v) == [kind |-> "resolved", value |-> v]
Rejected(e) == [kind |-> "rejected", error |-> e]
GrpcException(code) ==
    [type |-> "GrpcUnaryRequestException", code |-> code, contextModule |-> "dmm"]
HttpException(message) == [type |-> "HttpException", message |-> message]
TypeError == [type |-> "TypeError"]

\* The empty result fetchValidatorDelegations returns from its catch.
NullPagination == [next |-> None, prev |-> None, current |-> None]
EmptyDelegations == [pagination |-> NullPagination, validatorDelegations |-> "empty"]
\* The [] the list fetches return from their catch.
EmptyList == [list |-> "empty"]

(***************************************************************************)
(* Mutants of the mapped definitions below.                                *)
(***************************************************************************)
DmmCallNoRethrow(m, o) ==
    CASE o.kind = "ok" /\ o.wellFormed -> Resolved([transformed |-> m])
      [] o.kind = "grpcWebError" -> Rejected(GrpcException(o.code))
      [] OTHER -> Resolved(Undef)
DmmCallAlwaysUnspecified(m, o) ==
    IF o.kind = "ok" /\ o.wellFormed THEN Resolved([transformed |-> m])
    ELSE Rejected(GrpcException(UnspecifiedErrorCode))
ChronosCallWholeBody(o) ==
    CASE o.kind = "ok" -> Resolved([marketSummary |-> "data"])
      [] o.response = None -> Rejected(HttpException(o.message))
      [] OTHER -> Rejected(HttpException(o.response.data))
FetchValidatorNoCheck(o) ==
    IF o.kind = "error" THEN Rejected([type |-> "chain error"])
    ELSE Resolved([validator |-> o.validator])

(***************************************************************************)
(* The continuations.                                                      *)
(***************************************************************************)
\* DmmGrpcApi fetch*: transform the response inside the try; the catch
\* keeps a GrpcWebError's code and maps anything else, a transformer failure
\* included, to UnspecifiedErrorCode.
DmmCall(m, o) ==
    CASE o.kind = "ok" /\ o.wellFormed -> Resolved([transformed |-> m])
      [] o.kind = "grpcWebError" -> Rejected(GrpcException(o.code))
      [] OTHER -> Rejected(GrpcException(UnspecifiedErrorCode))

\* SpotChronosApi: `e.response ? e.response.data.message : e.message`; a
\* null body makes the catch itself throw a TypeError.
ChronosCall(o) ==
    CASE o.kind = "ok" -> Resolved([marketSummary |-> "data"])
      [] o.response = None -> Rejected(HttpException(o.message))
      [] o.response.data = None -> Rejected(TypeError)
      [] OTHER -> Rejected(HttpException(o.response.data.message))

\* fetchValidators: no try, the chain error propagates.
FetchValidators(o) ==
    IF o.kind = "error" THEN Rejected([type |-> "chain error"])
    ELSE Resolved([list |-> o.items])

\* fetchValidator: no try; a response without the validator throws.
FetchValidator(o) ==
    CASE o.kind = "error" -> Rejected([type |-> "chain error"])
      [] ~o.validator -> Rejected([type |-> "Error", message |-> "not found"])
      [] OTHER -> Resolved([validator |-> TRUE])

\* fetchValidatorDelegations: any error becomes null pagination, no items.
FetchValidatorDelegations(o) ==
    IF o.kind = "error" THEN Resolved(EmptyDelegations)
    ELSE Resolved([pagination |-> "page", validatorDelegations |-> o.items])

\* fetchDelegations, fetchUnbondingDelegations, fetchReDelegations: any
\* error becomes [].
FetchList(o) == IF o.kind = "error" THEN Resolved(EmptyList) ELSE Resolved([list |-> o.items])

Continue(m, o) ==
    CASE m \in DmmMethods -> DmmCall(m, o)
      [] m \in ChronosMethods -> ChronosCall(o)
      [] m = "fetchValidators" -> FetchValidators(o)
      [] m = "fetchValidator" -> FetchValidator(o)
      [] m = "fetchValidatorDelegations" -> FetchValidatorDelegations(o)
      [] OTHER -> FetchList(o)

-----------------------------------------------------------------------------
Idle == [phase |-> "idle"]

Init == call = Idle

\* A caller starts a fetch: the request is built and sent.
Issue ==
    /\ call.phase \in {"idle", "settled"}
    /\ \/ \E m \in DmmMethods : \E a \in DmmArgs(m) :
              call' = [phase |-> "pending", method |-> m, request |-> DmmRequest(m, a)]
       \/ \E m \in ChronosMethods :
              call' = [phase |-> "pending", method |-> m, request |-> ChronosRequest(m)]
       \/ \E m \in StakingMethods :
              call' = [phase |-> "pending", method |-> m, request |-> None]

\* The transport's promise settles.  Nothing in the clients bounds how long
\* this takes: no fetch sets a timeout.
Answer ==
    /\ call.phase = "pending"
    /\ \E o \in Outcomes(call.method) :
          call' = [call EXCEPT !.phase = "answered"] @@ [outcome |-> o]

\* The continuation after the await runs and the fetch settles.
Settle ==
    /\ call.phase = "answered"
    /\ call' = [call EXCEPT !.phase = "settled"] @@ [result |-> Continue(call.method, call.outcome)]

Next == Issue \/ Answer \/ Settle

Spec == Init /\ [][Next]_vars

-----------------------------------------------------------------------------
Failed(o) == o.kind # "ok" \/ ("wellFormed" \in DOMAIN o /\ ~o.wellFormed)
Swallowing == ListMethods \cup {"fetchValidatorDelegations"}

\* What a fetch may reject with: the mapped exceptions, with a code or a
\* message of the transport's, the chain's error, or a TypeError.
Exceptions ==
    {GrpcException(c) : c \in Codes \cup {UnspecifiedErrorCode}}
    \cup {HttpException(msg) : msg \in {ServerMessage, TransportMessage, Undef}}
    \cup {TypeError, [type |-> "chain error"], [type |-> "Error", message |-> "not found"]}

\* The state of the one call, in each phase; a settled call has resolved, or
\* rejected with one of the Exceptions.
TypeOK ==
    /\ call.phase \in {"idle", "pending", "answered", "settled"}
    /\ call.phase # "idle" => call.method \in Methods
    /\ call.phase = "settled" =>
          \/ call.result.kind = "resolved"
          \/ call.result.kind = "rejected" /\ call.result.error \in Exceptions

\* A fetch whose transport failed, or whose DMM response could not be
\* transformed, rejects, except the four UiStakingApi fetches that return
\* their empty default instead: no failure resolves with a made-up value.
FailuresReject ==
    call.phase = "settled" /\ Failed(call.outcome) =>
        \/ call.result.kind = "rejected"
        \/ /\ call.method \in Swallowing
           /\ call.result.value \in {EmptyList, EmptyDelegations}

\* A rejection carries its cause: a DMM rejection has the GrpcWebError's
\* code, or UnspecifiedErrorCode for any other error; a Chronos rejection has
\* the server's message when the response has a body, and the transport's
\* when there is no response.
RejectionCarriesCause ==
    call.phase = "settled" /\ call.result.kind = "rejected" =>
        /\ call.method \in DmmMethods =>
              call.result.error.code =
                  IF call.outcome.kind = "grpcWebError" THEN call.outcome.code
                  ELSE UnspecifiedErrorCode
        /\ call.method \in ChronosMethods /\ call.outcome.response = None =>
              call.result.error = HttpException(TransportMessage)
        /\ call.method \in ChronosMethods /\ call.outcome.response # None
           /\ call.outcome.response.data # None =>
              call.result.error = HttpException(call.outcome.response.data.message)

\* A fetch resolves with server data only after a successful answer, and
\* fetchValidator only with the validator it asked for; the only other
\* resolution is a swallowing fetch's empty default.
ResolvedOnlyWithServerData ==
    call.phase = "settled" /\ call.result.kind = "resolved" =>
        \/ /\ ~Failed(call.outcome)
           /\ call.method = "fetchValidator" => call.outcome.validator
        \/ /\ call.method \in Swallowing
           /\ call.result.value \in {EmptyList, EmptyDelegations}
=============================================================================
