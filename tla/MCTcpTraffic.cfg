SPECIFICATION Spec
CONSTANTS
    Endpoint <- MCEndpoint
    SeqSpace = 8
    Conversations <- MCBoth
    Disordered <- MCOne
    SendLen <- MCLen
    Isn <- MCIsn
    MaxPackets = 5
INVARIANTS
    WholeStreams
    OneStreamEach
    ReportedWhenFinished
    PacketsAccounted
    DirectionsNeverMix
PROPERTIES
    NoBufferedByteLost
    EveryBufferedByteDelivered
\* The report is complete.
CHECK_DEADLOCK FALSE
