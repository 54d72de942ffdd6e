SPECIFICATION Spec
CONSTANTS
    W = 14
    BatchSize = 3
    Starts <- LastStart
    Ends <- LastEnd
INVARIANT InOrder
