SPECIFICATION Spec
CONSTANTS
    k1 = k1
    k2 = k2
    k3 = k3
    k4 = k4
    NoKey = NoKey
    NoWord = NoWord
    Key <- Keys
    MurmurHash <- Hashes
    ByteLen <- Lens
    buckets_num = 3
    str_buf_max_sz = 4
    MaxRows = 3
    Batches <- RacingBatches
    ThrowIsFatal = TRUE
INVARIANTS
    NoDuplicateKeys
    RowsGetTheirBucket
    StringsIntact
PROPERTIES
    BucketsKeepTheirString
    
    AddDataEnds
CHECK_DEADLOCK FALSE
