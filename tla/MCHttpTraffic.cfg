SPECIFICATION Spec
CONSTANTS
    CRLF <- MCCrlf
    Rest = "rest"
    NoLength = NoLength
    MaxFound = 8
    NoName = "none"
    NoSymbol = "none"
    Symbol <- MCSymbol
    Opening <- MCOpening
    Header <- MCHeader
    NoFields <- MCNoFields
    UriName <- MCUriName
    ChunkSize <- MCChunkSize
    ZeroEnd <- MCZeroEnd
    Plain <- MCPlain
    Blank <- MCBlank
    Exchanges <- MCExchanges
    MaxExchanges = 3
    MaxCut = 4
    LargeBody = 3
INVARIANTS
    MessagesAsSent
    NoByteTwice
    FilesAsSent
PROPERTIES
    MovesOn
\* Parsing ends.
CHECK_DEADLOCK FALSE
