SPECIFICATION Spec
CONSTANTS
    MaxInserts = 3
    Damaged = {3}
    min_batched = 2
    MaxFaults = 3
CHECK_DEADLOCK FALSE
INVARIANTS
    
    AppliedOnce
    
PROPERTIES
    Delivered
