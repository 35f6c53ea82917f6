SPECIFICATION Spec
CONSTANTS
    SeqSpace = 16
    Isns <- MCIsns
    StreamLen = 5
    MaxSegments = 5
INVARIANTS
    NothingForgotten
    HeldBeyondGap
    SegmentLogMatches
    ClosedWhenEnded
    OrderKept
PROPERTY
    InOrderPrefix
\* The capture ends.
CHECK_DEADLOCK FALSE
