SPECIFICATION LiveSpec
CONSTANTS
    n1 = n1
    n2 = n2
    n3 = n3
    n4 = n4
    Node = {n1, n2, n3, n4}
    Bootstrap = n1
    Formed <- MCFormed
    Addr <- MCAddr
    rpcAddr <- MCrpcAddr
    MaxChanges = 2
    MaxElections = 2
    None = None
INVARIANTS
    TypeOK
    LeaderIsServer
PROPERTIES
    ServersStay
    LeaderAddsNewcomers
    LeaderRemovesLeavers
CHECK_DEADLOCK FALSE
