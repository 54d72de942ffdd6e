SPECIFICATION FairSpec
CONSTANTS
    c1 = c1
    c2 = c2
    Callers = {c1, c2}
    MaxRetries = 1
    BaseDelay = 1
    Timeout = 1
    PollInterval = 1
    Rate = 2
    Answers <- FewAnswers
    Ops = {"raw", "wait", "submit"}
    MaxPromised = 2
INVARIANT GetsLimited
PROPERTIES
    CallsReturn
    CancelReturns
