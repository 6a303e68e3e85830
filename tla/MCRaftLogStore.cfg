SPECIFICATION StoreSpec
CONSTANTS
    Value = {v1, v2}
    PayloadLen <- MCPayloadLen
    MaxStoreBytes = 26
    MaxIndexBytes = 30
    InitialOffset = 1
    MaxOffset = 5
    MaxStoreSize = 40
    MaxBatch = 2
    EOF = EOF
CHECK_DEADLOCK FALSE
INVARIANT StoredIsFound
