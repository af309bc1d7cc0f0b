CONSTANTS
    w1 = w1
    w2 = w2
    w3 = w3
    t1 = t1
    t2 = t2
    t3 = t3
    Workers = {w1, w2, w3}
    Tasks = {t1, t2, t3}
    MinWorkers = 1
    NoThread = NoThread
    NoTask = NoTask
SPECIFICATION Spec
INVARIANTS
    NoSleepOnWork
    QuietAfterStop
PROPERTIES
    Implements
    QueuedIsRun
    NotifiedWorkersEnd
CHECK_DEADLOCK FALSE
