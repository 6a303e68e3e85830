SPECIFICATION AgentLiveSpec
CONSTANTS
    n1 = n1
    n2 = n2
    p1 = p1
    p2 = p2
    s1 = s1
    s2 = s2
    Node = {n1, n2}
    Self = n1
    Producer = {p1}
    Consumer = {s1, s2}
    MaxRequests = 2
    Call <- MCCall
    at <- MCat
    from <- MCfrom
    None = None
CHECK_DEADLOCK FALSE
INVARIANTS
    AgentTypeOK
    StreamsInOrder
    ProduceInOrder
    HandlersHaveLog
    NilMeansDown
PROPERTIES
    ShutdownCutsNoCall
    AnswersAreStreamed
    OnlyStreamsHoldShutdown
