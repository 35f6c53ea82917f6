SPECIFICATION Spec
CONSTANTS
    NoName = NoName
    Str <- MCStr
    Size <- MCSize
    Extension <- MCExtension
    BaseScore <- MCBaseScore
    Indicators <- MCIndicators
    Carved <- MCCarved
    MinPayloadSize = 16
    CarveRawStreams = TRUE
    Sanitized <- MCSanitized
    Streams <- MCStreams
    MaxStreams = 4
INVARIANTS
    OwnName
    MergedExactly
    SavedIntact
    EveryStreamSaved
\* The report is finished.
CHECK_DEADLOCK FALSE
