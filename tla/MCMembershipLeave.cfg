SPECIFICATION LiveSpec
CONSTANTS
    n1 = n1
    n2 = n2
    n3 = n3
    n4 = n4
    Node = {n1, n2, n3}
    Bootstrap = n1
    Formed <- MCFormedLarge
    Addr <- MCAddr
    rpcAddr <- MCrpcAddr
    MaxChanges = 1
    MaxElections = 2
    None = None
PROPERTY LeftAreRemoved
CHECK_DEADLOCK FALSE
