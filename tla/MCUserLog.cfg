SPECIFICATION SnapshotSpec
CONSTANTS
    Value = {v1, v2}
    PayloadLen <- MCPayloadLen
    MaxStoreBytes = 28
    MaxIndexBytes = 24
    InitialOffset = 0
    MaxOffset = 3
    MaxStoreSize = 41
    EOF = EOF
    None = None
SYMMETRY MCSymmetry
CHECK_DEADLOCK FALSE
INVARIANTS
    ActiveHasRoom
    StreamIsLog
    NothingLost
    ImageAgrees
PROPERTIES
    ReopenPastEveryRecord
    ImplementsRecordLog
    RecordsStay
