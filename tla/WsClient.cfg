CONSTANTS
    a = a
    b = b
    Endpoints = {b}
    NoEndpoint = NoEndpoint
    Route <- Routes
    PingPong = TRUE
    MaxId = 3
    MaxMessages = 2
SPECIFICATION Spec
INVARIANTS
    TypeOK
    TablesAreOfLiveConnections
    OneClose
    MessagesKept
PROPERTIES
    ConnectEnds
    UnwantedIsClosed
    EarlyMessageIsSent
CHECK_DEADLOCK FALSE
