SPECIFICATION Spec
CONSTANTS
    Value = {v1, v2}
    PayloadLen <- MCPayloadLen
    MaxStoreBytes = 64
    MaxIndexBytes = 30
    InitialOffset = 0
    MaxOffset = 4
    MaxStoreSize = 76
    EOF = EOF
INVARIANT EOFMeansMaxed
