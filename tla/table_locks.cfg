SPECIFICATION Spec
CONSTANTS
    Thread = {1, 2, 3, 4}
    Lock <- Locks
    Tables = 2
    Mixes <- AllMixes
CHECK_DEADLOCK FALSE
INVARIANTS
    Exclusion
    DroppedIsUnused
    DeadlockNeedsConflictingOrders
PROPERTIES
    UsesLocks
    StatementsEnd
