SPECIFICATION Spec
CONSTANTS
    r1 = r1
    r2 = r2
    c1 = c1
    c2 = c2
    Replica = {r1, r2}
    Client = {c1}
    Block <- OneBlock
    Reach <- OneReach
    MaxFaults = 1
CHECK_DEADLOCK FALSE
INVARIANT
    RepeatedInsertWrites
