SPECIFICATION Spec
CONSTANTS
    ka = ka
    kb = kb
    kc = kc
    Key = {ka, kb, kc}
    Unset = Unset
    chunks_num = 3
    Inputs <- ManyInputs
    MaxBlocks = 5
    buffer_max_str_num = 2
    buffer_max_size = 5
    hash_table_max_size = 2
    isDataNeeded = TRUE
INVARIANTS
    KeysReadAreQueued
    EveryBlockOnce
    
    
PROPERTIES
    QueryEnds
