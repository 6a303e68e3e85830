SPECIFICATION SnapshotSpec
CONSTANTS
    Value = {v1}
    PayloadLen <- MCPayloadLen
    MaxStoreBytes = 26
    MaxIndexBytes = 36
    InitialOffset = 0
    MaxOffset = 4
    MaxStoreSize = 40
    EOF = EOF
    None = None
CHECK_DEADLOCK FALSE
INVARIANT SnapshotHoldsApplied
