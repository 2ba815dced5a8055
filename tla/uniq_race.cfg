SPECIFICATION Spec
CONSTANTS
    Value <- Values
    BucketOf <- Buckets
    RankOf <- Ranks
    bucket_count = 2
    max_rank = 3
    capacity = 2
    CounterRange = 16
    MaxRows = 3
    Batches <- RacingRows
INVARIANTS
    SmallSetExact
    RanksAndCountersExact
    MergeMissesOnlyLaterSlots
CHECK_DEADLOCK FALSE
