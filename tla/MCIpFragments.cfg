SPECIFICATION FragmentsSpec
CONSTANTS
    Keys <- MCKeys
    DatagramLen = 3
    HeaderLen = 1
    MaxFragments = 5
INVARIANTS
    NothingCompleteHeld
    RebuiltInTurn
\* The capture ends.
CHECK_DEADLOCK FALSE
