CONSTANTS
    p1 = p1
    t1 = t1
    Pointers = {p1}
    MaxId = 2
    AuthModes = {"none", "basic", "bearer", "query"}
    Uri <- ApiSub
    Topics <- MCTopics
    Targets <- ToSub
    Producers = {t1}
    MaxMessages = 2
    Modulus = 2
SPECIFICATION Spec
INVARIANTS
    ReceivedInOrder
    RecordsAreCurrent
    NoMessageAfterClose
    DeliveredToGranted
PROPERTIES
    CloseAllCloses
    SilentClientIsClosed
    MessageDelivered
CHECK_DEADLOCK FALSE
