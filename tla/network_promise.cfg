SPECIFICATION Spec
CONSTANTS
    c1 = c1
    Callers = {c1}
    MaxRetries = 2
    BaseDelay = 1
    Timeout = 2
    PollInterval = 1
    Rate = 0
    Answers <- AllAnswers
    Ops = {"raw", "decoded", "wait", "submit", "statepaths"}
    MaxPromised = 2
INVARIANT TypeOK
PROPERTIES
    GetKeepsPromise
    PostsKeepPromise
    RetryAfterHonoured
