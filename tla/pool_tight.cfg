SPECIFICATION Spec
CONSTANTS
    Thread = {t1, t2}
    m_totalSize = 17
    Requests <- SmallRequests
    MaxLive = 5
INVARIANTS
    NoOverlap
    FreeListCoalesced
    OnlyTheTopIsLost
CHECK_DEADLOCK FALSE
