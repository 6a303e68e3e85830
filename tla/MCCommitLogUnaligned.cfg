SPECIFICATION Spec
CONSTANTS
    Value = {v1, v2}
    PayloadLen <- MCPayloadLen
    MaxStoreBytes = 48
    MaxIndexBytes = 30
    InitialOffset = 1
    MaxOffset = 5
    MaxStoreSize = 60
    EOF = EOF
SYMMETRY MCSymmetry
INVARIANTS
    TypeOK
    SegmentsTile
    ReadsOwnRecord
    EndsAreReadable
    StreamHoldsLog
PROPERTIES
    ReopenRestores
    ImplementsOffsetLog
