SPECIFICATION Spec
CONSTANTS
    blocks_in <- TwoSources
    additional = {1}
    max_threads_ = 2
    MaxThrows = 2
CHECK_DEADLOCK FALSE
INVARIANTS
    SlotsAccounted
    EndMeansComplete
    ExceptionNotLost
PROPERTIES
    ReadReturns
    DestructorEnds
