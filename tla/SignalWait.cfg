CONSTANTS
    server = server
    worker = worker
    Callers = {server, worker}
    Server = server
    Main = main
    NoThread = NoThread
    MaxRounds = 3
SPECIFICATION Spec
INVARIANTS
    OwnAnswer
PROPERTY
    WaitReturns
CHECK_DEADLOCK FALSE
