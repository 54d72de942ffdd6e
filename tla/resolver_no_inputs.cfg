SPECIFICATION Spec
CONSTANTS
    t1 = t1
    A = A
    B = B
    C = C
    Tasks = {t1}
    Programs = {A, B}
    Credits = Credits
    Sources <- Distinct
    Given <- Distinct
    NoSource = NoSource
    NoProgram = NoProgram
    Inputs = {"given", "absent"}
    MaxUpgrades = 0
INVARIANT SoundCallAccepted
CHECK_DEADLOCK FALSE
