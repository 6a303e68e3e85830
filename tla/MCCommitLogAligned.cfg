SPECIFICATION Spec
CONSTANTS
    Value = {v1, v2}
    PayloadLen <- MCPayloadLen
    MaxStoreBytes = 48
    MaxIndexBytes = 36
    InitialOffset = 0
    MaxOffset = 4
    MaxStoreSize = 60
    EOF = EOF
SYMMETRY MCSymmetry
INVARIANTS
    TypeOK
    SegmentsTile
    ReadsOwnRecord
    EndsAreReadable
    ActiveHasRoom
    StreamIsLog
PROPERTIES
    ReopenRestores
    ReopenPastEveryRecord
    ImplementsOffsetLog
