SPECIFICATION SpecFastOpen
CONSTANTS
    SeqSpace = 16
    Isns <- MCIsns
    StreamLen = 4
    MaxSegments = 4
INVARIANT
    RunDelivered
\* The capture ends.
CHECK_DEADLOCK FALSE
