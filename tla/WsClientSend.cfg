CONSTANTS
    a = a
    b = b
    Endpoints = {a, b}
    NoEndpoint = NoEndpoint
    Route <- Routes
    PingPong = FALSE
    MaxId = 2
    MaxMessages = 1
SPECIFICATION SpecWithWakeups
PROPERTIES
    SendIsAttempted
CHECK_DEADLOCK FALSE
