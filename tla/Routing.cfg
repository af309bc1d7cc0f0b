CONSTANTS
    u1 = u1
    Anonymous = Anonymous
    Token = Token
    Beyond = Beyond
    ApiRoot <- Root
    Upper <- MCUpper
    Longer <- MCLonger
    Methods = {"GET", "PUT"}
    Plain <- BothSpellings
    Patterns <- ManyPatterns
    WsPoints <- OneWsPoint
    Given <- SomeGiven
    Users = {u1}
    Requests <- ManyRequests
    Unprotected <- ManyUnprotected
    Redirects = {"permanent"}
    Pages <- OnePage
    MaxCalls = 3
SPECIFICATION Spec
INVARIANTS
    TypeOK
    OptionsAreRegistered
    WildcardsRebuildPath
    OnlyAuthorisedAreServed
    NotFoundIsHonest
CHECK_DEADLOCK FALSE
