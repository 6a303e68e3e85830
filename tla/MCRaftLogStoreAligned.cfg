SPECIFICATION ConflictFreeSpec
CONSTANTS
    Value = {v1, v2}
    PayloadLen <- MCPayloadLen
    MaxStoreBytes = 39
    MaxIndexBytes = 24
    InitialOffset = 1
    MaxOffset = 6
    MaxStoreSize = 54
    MaxBatch = 2
    EOF = EOF
CHECK_DEADLOCK FALSE
INVARIANTS
    StoredIsFound
    EndsAgree
