CONSTANTS
    p1 = p1
    p2 = p2
    w1 = w1
    w2 = w2
    x1 = x1
    Pointers = {p1, p2}
    MaxId = 3
    Workers = {w1, w2}
    Points = {}
    ExPoints = {x1}
    NoPointer = NoPointer
    NoPoint = NoPoint
SPECIFICATION Spec
INVARIANTS
    NoStrandedResponse
    QueuesAreOfLiveConnections
    OnlyOrphansGoAstray
    AtMostOneReply
PROPERTY
    RequestAnswered
CHECK_DEADLOCK FALSE
