SPECIFICATION FairSpec
CONSTANTS
    t1 = t1
    A = A
    B = B
    C = C
    Tasks = {t1}
    Programs = {A, B, C}
    Credits = Credits
    Sources <- SourcesOfTwo
    Given <- HeldSources
    NoSource = NoSource
    NoProgram = NoProgram
    Inputs = {"given"}
    MaxUpgrades = 0
INVARIANTS
    TypeOK
    ResolvedOnce
    ImportsComplete
    SoundCallAccepted
PROPERTIES
    StepsLeaveLess
    CallsEnd
CHECK_DEADLOCK FALSE
