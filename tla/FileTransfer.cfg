CONSTANTS
    p1 = p1
    p2 = p2
    p3 = p3
    Pointers = {p1, p2, p3}
    MaxId = 3
    MaxConnections = 4
    Sizes = {0, 2, 3}
    Buffer = 2
SPECIFICATION Spec
INVARIANTS
    DownloadsAreOfLiveConnections
    BodyIsComplete
    ServedWithinLimit
PROPERTY
    RequestEnds
CHECK_DEADLOCK FALSE
