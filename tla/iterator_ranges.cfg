SPECIFICATION Spec
CONSTANTS
    W = 14
    BatchSize = 3
    Starts <- Heights
    Ends <- SafeEnds
INVARIANTS
    TypeOK
    InOrder
    NothingMissed
