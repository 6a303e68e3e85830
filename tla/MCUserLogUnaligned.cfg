SPECIFICATION SnapshotSpec
CONSTANTS
    Value = {v1, v2}
    PayloadLen <- MCPayloadLen
    MaxStoreBytes = 40
    MaxIndexBytes = 30
    InitialOffset = 0
    MaxOffset = 4
    MaxStoreSize = 54
    EOF = EOF
    None = None
SYMMETRY MCSymmetry
CHECK_DEADLOCK FALSE
INVARIANTS
    StreamHoldsLog
    NothingLost
    ImageAgrees
PROPERTIES
    ImplementsRecordLog
    RecordsStay
