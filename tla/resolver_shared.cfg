SPECIFICATION SharedSpec
CONSTANTS
    t1 = t1
    t2 = t2
    A = A
    B = B
    C = C
    Tasks = {t1, t2}
    Programs = {A, B, C}
    Credits = Credits
    Sources <- FewSources
    Given <- FewSources
    NoSource = NoSource
    NoProgram = NoProgram
    Inputs = {"given", "absent"}
    MaxUpgrades = 1
SYMMETRY Symmetry
INVARIANTS
    DependencyOrder
    RequestedOnce
    SourcesWereDeployed
CHECK_DEADLOCK FALSE
