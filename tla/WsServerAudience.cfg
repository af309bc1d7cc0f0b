CONSTANTS
    p1 = p1
    t1 = t1
    Pointers = {p1}
    MaxId = 1
    AuthModes = {"none"}
    Uri <- ApiSub
    Topics <- MCTopics
    Targets <- ToApi
    Producers = {t1}
    MaxMessages = 1
    Modulus = 2
SPECIFICATION Spec
PROPERTY RelativesReached
CHECK_DEADLOCK FALSE
