SPECIFICATION Spec
CONSTANTS
    MaxPending = 1
    MaxAssembly = 2
    Zero = Zero
    NoStart = NoStart
    MaxObservations = 2
    MaxDevices = 2
    MaxDetails = 1
    Nothing = Nothing
    Traffic <- MCTraffic
    MaxPackets = 4
INVARIANTS
    ObservationsExact
    InventoryLatest
    TransfersFlagged
\* The capture ends.
CHECK_DEADLOCK FALSE
