SPECIFICATION LiveSpec
CONSTANTS
    Node = {n1, n2, n3}
    Call = {c1, c2}
    MaxElections = 2
    None = None
INVARIANTS
    TypeOK
    ReplicasAgree
    AnswersHold
    AtMostOnce
PROPERTIES
    RealTimeOrder
    CallsEnd
    ImplementsSharedLog
    AnswersReachAll
CHECK_DEADLOCK FALSE
