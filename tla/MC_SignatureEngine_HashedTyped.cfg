CONSTANTS
    k1 = k1
    k2 = k2
    d1 = d1
    d2 = d2
    OtherMsg = OtherMsg
    Garbage = Garbage
    Error = Error
    None = None
    Keys <- MCKeys
    Docs <- MCDocs
    RecId <- MCRecId
SPECIFICATION Spec
INVARIANT
    HashedTypedSignatureVerifies
