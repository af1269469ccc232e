SPECIFICATION Spec
CONSTANTS
    MaxAttempts = 2
    MaxStarts = 2
    MaxEvents = 2
    Loads <- MCLoads
CHECK_DEADLOCK FALSE
INVARIANTS TypeOK OnlyStartsLeak TestIsCurrent
PROPERTIES TestSettles RecoveryEnds
