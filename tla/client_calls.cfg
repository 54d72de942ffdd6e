SPECIFICATION FairSpec
CONSTANTS
    c1 = c1
    c2 = c2
    p1 = p1
    Callers = {c1, c2}
    NoCaller = NoCaller
    Provers = {p1}
    Torn = Torn
    NoJWT = NoJWT
    NoClaim = NoClaim
    NoKey = NoKey
    Issued <- HonestTokens
    Statuses = {200, 500}
    MaxRetries = 1
    BaseDelay = 1
    Timeout = 1
    Buffer = 1
    Fallback = 2
INVARIANTS
    TypeOK
    NoNeedlessFetch
    KeyMatchesProver
    RefusalIsEarned
PROPERTIES
    FirstBearerAlive
    KeepsPromise
    CallsReturn
