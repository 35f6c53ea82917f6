SPECIFICATION ReaderSpec
CONSTANTS
    Keys <- MCOneKey
    DatagramLen = 4
    HeaderLen = 1
    MaxFragments = 4
INVARIANT
    OnlyWholeDatagrams
\* The capture ends.
CHECK_DEADLOCK FALSE
