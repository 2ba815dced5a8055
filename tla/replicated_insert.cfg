SPECIFICATION Spec
CONSTANTS
    r1 = r1
    r2 = r2
    c1 = c1
    c2 = c2
    Replica = {r1, r2}
    Client = {c1, c2}
    Block <- SameBlock
    Reach <- TwoReach
    MaxFaults = 2
CHECK_DEADLOCK FALSE
INVARIANTS
    WrittenOnce
    
    AcknowledgedIsKept
PROPERTIES
    EntriesAreServed
    Converges
