SPECIFICATION Spec
CONSTANTS
    Client = {c1, c2}
    Server = {s1, s2}
    MaxElections = 1
    MaxFaults = 1
    MaxCalls = 2
    None = None
    Dead = Dead
CHECK_DEADLOCK FALSE
INVARIANTS TypeOK RolesKept TurnsEven
