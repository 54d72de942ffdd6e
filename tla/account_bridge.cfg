SPECIFICATION FairSpec
CONSTANTS
    Callers = {c1, c2}
    NoCaller = NoCaller
    Functions = {"verify_signature", "authorize", "verify_execution"}
    Programs = {p}
    Owners = {c1, c2}
INVARIANTS
    TypeOK
    ErrorsCross
    StringsAreFreed
    LoadedOnce
    CallsAreIsolated
    SignsWithItsKey
    ReadersSeeTheKey
PROPERTY CallsReturn
