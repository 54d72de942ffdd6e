SPECIFICATION FairSpec
CONSTANTS
    Requests = {r1, r2}
    Waiters = {w}
    MaxConcurrency = 1
    MaxRetries = 1
    Accounts = {a1, a2}
    NoAccount = NoAccount
    Zeroized = {a1}
    Overrides = {k}
    NoKey = NoKey
INVARIANTS
    TypeOK
PROPERTIES
    BatchKeepsPromise
    SuccessWasBroadcast
    AuthorizedWithItsKey
    BatchEnds
    WaitEnds
CHECK_DEADLOCK FALSE
