CONSTANTS
    p1 = p1
    w1 = w1
    e1 = e1
    Pointers = {p1}
    MaxId = 2
    Workers = {w1}
    Points = {e1}
    ExPoints = {}
    NoPointer = NoPointer
    NoPoint = NoPoint
SPECIFICATION Spec
INVARIANT
    ReplyIsToItsRequest
CHECK_DEADLOCK FALSE
