SPECIFICATION ClientSpec
CONSTANTS
    MaxPending = 3
    MaxAssembly = 2
    Zero = Zero
    NoStart = NoStart
    Client = "c"
    Stored <- MCStored
    FileLen <- MCFileLen
    MaxChunk = 2
    InvokeIds <- MCInvokeIds
    MaxCaptured = 5
INVARIANTS
    BytesInPlace
    WholeFiles
PROPERTY
    NoFileByteLost
\* The capture ends.
CHECK_DEADLOCK FALSE
