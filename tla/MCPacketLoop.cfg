SPECIFICATION LoopSpec
CONSTANTS
    Endpoint <- MCEndpoint
    TelemetryEndpoint <- MCTelemetry
    Sizes <- MCSizes
    MinPayload = 2
    MaxPerFlow = 2
    MaxFlows = 2
    DnsEndpoint <- MCDnsEndpoint
    Label <- MCLabel
    EndOfName = "end"
    Pointer <- MCPointer
    RecordType <- MCRecordType
    MaxJumps = 3
    Message <- MCMessage
    TextSize <- MCTextSize
    Blob <- MCBlob
    MinText = 32
    Tunnel <- MCTunnel
    Blocks <- MCBlocks
    MaxBlocks = 5
    BacnetData <- MCBacnetData
    Size <- MCSize
    Asked <- MCAsked
    Texts <- MCTexts
INVARIANTS
    TypeOK
    BudgetPerConversation
    NothingSilent
    ReportBounded
    CandidatesAreFirstOfEach
    DecodedAsCaptured
    ClaimedNeverCarved
    DnsAsSent
\* The file ends.
CHECK_DEADLOCK FALSE
