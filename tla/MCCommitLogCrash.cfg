SPECIFICATION CrashSpec
CONSTANTS
    Value = {v1}
    PayloadLen <- MCPayloadLen
    MaxStoreBytes = 64
    MaxIndexBytes = 48
    InitialOffset = 0
    MaxOffset = 4
    MaxStoreSize = 76
    EOF = EOF
PROPERTY ReopenPastEveryRecord
