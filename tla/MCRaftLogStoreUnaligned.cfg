SPECIFICATION ConflictFreeSpec
CONSTANTS
    Value = {v1, v2}
    PayloadLen <- MCPayloadLen
    MaxStoreBytes = 40
    MaxIndexBytes = 30
    InitialOffset = 1
    MaxOffset = 6
    MaxStoreSize = 54
    MaxBatch = 2
    EOF = EOF
CHECK_DEADLOCK FALSE
INVARIANT StoredIsFound
