SPECIFICATION AfterCloseSpec
CONSTANTS
    Endpoint <- MCEndpoint
    SeqSpace = 8
    Conversations <- MCOne
    Disordered <- MCOne
    SendLen <- MCLen
    Isn <- MCIsn
    MaxPackets = 12
INVARIANT
    OneStreamEach
\* The report is complete.
CHECK_DEADLOCK FALSE
