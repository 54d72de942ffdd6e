SPECIFICATION Spec
CONSTANTS
    Callers = {c1}
    NoCaller = NoCaller
    Functions = {"hash"}
    Programs = {p}
    Owners = {}
INVARIANT PayloadDecrypts
