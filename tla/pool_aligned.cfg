SPECIFICATION Spec
CONSTANTS
    Thread = {t1, t2}
    m_totalSize = 1600
    Requests <- AlignedRequests
    MaxLive = 3
INVARIANTS
    NoOverlap
CHECK_DEADLOCK FALSE
