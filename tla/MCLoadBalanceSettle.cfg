SPECIFICATION LiveSpec
CONSTANTS
    Client = {c1}
    Server = {s1, s2}
    MaxElections = 1
    MaxFaults = 0
    MaxCalls = 0
    None = None
    Dead = Dead
CHECK_DEADLOCK FALSE
PROPERTY ProduceReachesLeader
