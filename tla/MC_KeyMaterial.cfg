CONSTANTS
    w1 = w1
    w2 = w2
    wBad = wBad
    pDefault = pDefault
    pBad = pBad
    NoKey = NoKey
    Error = Error
    KeyBytes = 1
    NibbleOf <- MCNibbleOf
    LowerDigit <- MCLowerDigit
    BodyChars <- MCBodyChars
    KeyNibbles <- MCKeyNibbles
    Mnemonics <- MCMnemonics
    ValidMnemonics <- MCValidMnemonics
    Paths <- MCPaths
    ValidPaths <- MCValidPaths
    DefaultPath = pDefault
    DerivedKey <- MCDerivedKey
SPECIFICATION Spec
INVARIANTS
    TypeOK
    RoundTrip
    FromHexAcceptsWellFormed
    FromHexNeverMisreads
    FromPrivateKeyMatchesSpec
