CONSTANTS
    w1 = w1
    t1 = t1
    Workers = {w1}
    Tasks = {t1}
    MinWorkers = 1
    NoThread = NoThread
    NoTask = NoTask
SPECIFICATION Spec
PROPERTY
    StopReturns
CHECK_DEADLOCK FALSE
