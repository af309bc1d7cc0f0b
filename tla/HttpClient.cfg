CONSTANTS
    Setups <- Clients
    Chunk = 2
    HeaderLength = 1
    MaxRedirects = 2
    Proxies = {FALSE, TRUE}
    Tls = {FALSE, TRUE}
    FileErrors = TRUE
    PeerCloses = TRUE
    Cancels = TRUE
SPECIFICATION Spec
INVARIANTS
    TypeOK
    TunnelFirst
    UnreadableIsReported
    BodyIsContentLength
PROPERTY
    RunReturns
CHECK_DEADLOCK FALSE
