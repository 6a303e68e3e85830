SPECIFICATION LiveSpec
CONSTANTS
    Client = {c1}
    Server = {s1, s2}
    MaxElections = 2
    MaxFaults = 3
    MaxCalls = 4
    None = None
    Dead = Dead
CHECK_DEADLOCK FALSE
INVARIANTS TypeOK RolesKept CallsFindReady TurnsEven
PROPERTY ToldLeaderIsPicked
