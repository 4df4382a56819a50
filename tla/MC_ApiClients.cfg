CONSTANTS
    cNotFound = cNotFound
    cUnavailable = cUnavailable
    cUnspecified = cUnspecified
    Codes <- MCCodes
    UnspecifiedErrorCode = cUnspecified
    ServerMessage = ServerMessage
    TransportMessage = TransportMessage
    Arg = Arg
    Undef = Undef
    None = None
SPECIFICATION Spec
INVARIANTS
    TypeOK
    FailuresReject
    RejectionCarriesCause
    ResolvedOnlyWithServerData
