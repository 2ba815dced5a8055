----------------------- MODULE CudaStringsAggregator -----------------------
(***************************************************************************)
(* One GROUP BY query on the GPU: the query thread of CudaAggregator, which*)
(* reads blocks and queues them, and the worker thread of each chunk of    *)
(* CudaStringsAggregator, which feeds a chunk's buffer to its hash table.  *)
(*                                                                         *)
(* The two sides hand a chunk over under its mutex with the flag           *)
(* cuda_processing_state and two condition variables; setting the flag on  *)
(* an empty buffer means "no more data".  The GPU works behind their backs:*)
(* copies into the buffers run on copy_stream, kernels on the stream of    *)
(* their chunk, and both only wait for them where the code synchronizes.   *)
(*                                                                         *)
(* Blocks stand for their rows.  The hash table is taken at its contract   *)
(* (StringsTable): a set of keys, one step per call.                       *)
(***************************************************************************)
EXTENDS Integers, Sequences, FiniteSets

CONSTANTS
    chunks_num,
    Key,
    Inputs,               \* the sequences of blocks a query may read
    MaxBlocks,            \* no input is longer
    buffer_max_str_num,   \* rows in one buffer
    buffer_max_size,      \* bytes in one buffer
    hash_table_max_size,  \* keys in one table
    isDataNeeded,         \* uniqHLL12 reads the values, COUNT does not
    Unset                 \* not initialized, not written yet

BlockType == [rows : Nat, key_sz : Nat, val_sz : Nat, keys : SUBSET Key]

\* ColumnString ends every string with a zero byte, so a block with rows has bytes.
ASSUME AggregatorConstants ==
    /\ chunks_num \in Nat \ {0}
    /\ MaxBlocks \in Nat
    /\ Inputs \subseteq {s \in Seq(BlockType) : Len(s) <= MaxBlocks}
    /\ \A s \in Inputs : \A j \in DOMAIN s :
          /\ s[j].rows = 0 <=> s[j].key_sz = 0
          /\ s[j].rows = 0 => s[j].val_sz = 0 /\ s[j].keys = {}
    /\ buffer_max_str_num \in Nat \ {0}
    /\ buffer_max_size \in Nat \ {0}
    /\ hash_table_max_size \in Nat
    /\ isDataNeeded \in BOOLEAN
    /\ IsFiniteSet(Key)
    /\ Unset \notin BOOLEAN \union Nat

VARIABLES
    input, next,                  \* the blocks, and the one to read next
    main, todo, i,                \* query thread: where it is, what the lock is for, loop index
    curr_filling_chunk, is_vals_needed, started,
    cuda_processing_state, owner, \* of each chunk: the flag, and who has the mutex
    keys_blocks, vals_blocks,     \* host side of the two buffers: blocks_sizes
    keys_buf, vals_buf,           \* device side: which block lies at a position
    copy_stream,                  \* copies that were issued and did not run yet
    worker,                       \* worker threads
    group_nums, add_bulk,         \* rows' buckets of the batch; the addBulk kernel in flight
    table_keys, offsets_known,    \* the hash tables, and for which keys offsets[] is right
    group_agg_res,                \* how often a block was added to the aggregates
    values_read,                  \* <<j, v>>: rows of block j were added with the values of v
    agg_result,
    alive                         \* FALSE after std::terminate

query   == <<input, next, main, todo, i, curr_filling_chunk, is_vals_needed, started>>
buffers == <<keys_blocks, vals_blocks>>
device  == <<keys_buf, vals_buf, copy_stream>>
aggr    == <<group_nums, add_bulk, table_keys, offsets_known, group_agg_res, values_read>>
vars    == <<query, cuda_processing_state, owner, buffers, device, worker, aggr, agg_result, alive>>

Chunk == 0..(chunks_num - 1)
Block == 1..MaxBlocks
Pos   == 1..MaxBlocks

SumOf(s, f(_)) ==                 \* total of f over a buffer's blocks
    LET sum[n \in 0..Len(s)] == IF n = 0 THEN 0 ELSE sum[n - 1] + f(s[n])
    IN sum[Len(s)]

RowsIn(s)     == SumOf(s, LAMBDA j : input[j].rows)
KeyBytesIn(s) == SumOf(s, LAMBDA j : input[j].key_sz)
ValBytesIn(s) == SumOf(s, LAMBDA j : input[j].val_sz)

\* CudaColumnString::empty
Empty(c) == RowsIn(keys_blocks[c]) = 0 \/ KeyBytesIn(keys_blocks[c]) = 0

\* Defective variant: a buffer is never filled to the last row
HasSpace_Strict(c, j) ==
    /\ RowsIn(keys_blocks[c]) + input[j].rows < buffer_max_str_num
    /\ KeyBytesIn(keys_blocks[c]) + input[j].key_sz <= buffer_max_size
    /\ RowsIn(vals_blocks[c]) + input[j].rows < buffer_max_str_num
    /\ ValBytesIn(vals_blocks[c]) + input[j].val_sz <= buffer_max_size

\* CudaColumnString::hasSpace, for the keys and for the values of block j.
HasSpace(c, j) ==
    /\ RowsIn(keys_blocks[c]) + input[j].rows <= buffer_max_str_num
    /\ KeyBytesIn(keys_blocks[c]) + input[j].key_sz <= buffer_max_size
    /\ RowsIn(vals_blocks[c]) + input[j].rows <= buffer_max_str_num
    /\ ValBytesIn(vals_blocks[c]) + input[j].val_sz <= buffer_max_size
-----------------------------------------------------------------------------
Init ==
    /\ input \in Inputs
    /\ next = 1
    /\ main = "read" /\ todo = "queue" /\ i = 0
    /\ curr_filling_chunk = 0
    /\ is_vals_needed = Unset
    /\ started = FALSE
    /\ cuda_processing_state = [c \in Chunk |-> FALSE]
    /\ owner = [c \in Chunk |-> "free"]
    /\ keys_blocks = [c \in Chunk |-> <<>>]
    /\ vals_blocks = [c \in Chunk |-> <<>>]
    /\ keys_buf = [c \in Chunk |-> [p \in Pos |-> Unset]]
    /\ vals_buf = [c \in Chunk |-> [p \in Pos |-> Unset]]
    /\ copy_stream = <<>>
    /\ worker = [c \in Chunk |-> "none"]
    /\ group_nums = [c \in Chunk |-> <<>>]
    /\ add_bulk = [c \in Chunk |-> <<>>]
    /\ table_keys = [c \in Chunk |-> {}]
    /\ offsets_known = [c \in Chunk |-> {}]
    /\ group_agg_res = [c \in Chunk |-> [j \in Block |-> 0]]
    /\ values_read = [c \in Chunk |-> {}]
    /\ agg_result = Unset
    /\ alive = TRUE
-----------------------------------------------------------------------------
(***************************************************************************)
(* The query thread: CudaAggregator::execute and executeOnBlock.           *)
(***************************************************************************)
ReadBlock ==
    /\ main = "read" /\ next <= Len(input)
    /\ IF started THEN main' = "lock" /\ UNCHANGED <<started, i>>
                  ELSE main' = "start" /\ started' = TRUE /\ i' = 0
    /\ todo' = "queue"
    /\ UNCHANGED <<input, next, curr_filling_chunk, is_vals_needed, cuda_processing_state, owner,
                   buffers, device, worker, aggr, agg_result, alive>>

\* The end of the source; without a single block there is no aggregator and
\* the assertion of CudaAggregatedDataVariants::waitProcessed fails.
ReadEnd ==
    /\ main = "read" /\ next > Len(input)
    /\ IF started THEN main' = "lock" /\ todo' = "hand_over"
                  ELSE main' = "assert_failed" /\ UNCHANGED todo
    /\ UNCHANGED <<input, next, i, curr_filling_chunk, is_vals_needed, started,
                   cuda_processing_state, owner, buffers, device, worker, aggr, agg_result, alive>>

\* startProcessing: a thread per chunk, and only then the fields they share.
startProcessing ==
    /\ main = "start"
    /\ IF i < chunks_num
         THEN /\ cuda_processing_state' = [cuda_processing_state EXCEPT ![i] = FALSE]
              /\ worker' = [worker EXCEPT ![i] = "erase"]
              /\ i' = i + 1
              /\ UNCHANGED <<main, curr_filling_chunk, is_vals_needed>>
         ELSE /\ curr_filling_chunk' = 0
              /\ is_vals_needed' = isDataNeeded
              /\ main' = "lock"
              /\ UNCHANGED <<cuda_processing_state, worker, i>>
    /\ UNCHANGED <<input, next, todo, started, owner, buffers, device, aggr, agg_result, alive>>

\* The chunk that the query thread locks next.
Target == IF todo = "end_marker" THEN i ELSE curr_filling_chunk

Lock ==
    /\ main = "lock" /\ owner[Target] = "free"
    /\ owner' = [owner EXCEPT ![Target] = "main"]
    /\ main' = "wait"
    /\ UNCHANGED <<input, next, todo, i, curr_filling_chunk, is_vals_needed, started,
                   cuda_processing_state, buffers, device, worker, aggr, agg_result, alive>>

\* Defective variant: the lock is taken and the flag not looked at
Wait_IgnoresState ==
    /\ main = "wait"
    /\ main' = todo
    /\ UNCHANGED <<input, next, todo, i, curr_filling_chunk, is_vals_needed, started, owner,
                   cuda_processing_state, buffers, device, worker, aggr, agg_result, alive>>

\* cv_cuda_processing_end.wait: go on with the lock, or release it and sleep.
Wait ==
    /\ main = "wait"
    /\ IF cuda_processing_state[Target]
         THEN main' = "asleep" /\ owner' = [owner EXCEPT ![Target] = "free"]
         ELSE main' = todo /\ UNCHANGED owner
    /\ UNCHANGED <<input, next, todo, i, curr_filling_chunk, is_vals_needed, started,
                   cuda_processing_state, buffers, device, worker, aggr, agg_result, alive>>

\* Defective variant: the flag is set and nobody told
HandOver_NoNotify(c) ==
    /\ cuda_processing_state' = [cuda_processing_state EXCEPT ![c] = TRUE]
    /\ worker' = worker
    /\ owner' = [owner EXCEPT ![c] = "free"]

\* Set the flag of chunk c, notify its worker and release the mutex.
HandOver(c) ==
    /\ cuda_processing_state' = [cuda_processing_state EXCEPT ![c] = TRUE]
    /\ worker' = [worker EXCEPT ![c] = IF @ = "asleep" THEN "lock" ELSE @]
    /\ owner' = [owner EXCEPT ![c] = "free"]

\* tryQueueData with the lock and an idle chunk: the block fits and its copies
\* are issued; or an empty buffer is too small for it and the exception meets
\* joinable threads on its way out; or the chunk is full and is handed over.
QueueBlock(c, j) ==
    /\ keys_blocks' = [keys_blocks EXCEPT ![c] = Append(@, j)]
    /\ vals_blocks' = IF is_vals_needed THEN [vals_blocks EXCEPT ![c] = Append(@, j)] ELSE vals_blocks
    /\ copy_stream' = copy_stream
            \o <<[buf |-> "keys", chunk |-> c, pos |-> Len(keys_blocks[c]) + 1, block |-> j]>>
            \o (IF is_vals_needed
                  THEN <<[buf |-> "vals", chunk |-> c, pos |-> Len(vals_blocks[c]) + 1, block |-> j]>>
                  ELSE <<>>)

tryQueueData ==
    /\ main = "queue"
    /\ LET c == curr_filling_chunk IN
       IF HasSpace(c, next)
         THEN /\ QueueBlock(c, next)
              /\ next' = next + 1
              /\ owner' = [owner EXCEPT ![c] = "free"]
              /\ main' = "sync"
              /\ UNCHANGED alive
         ELSE /\ main' = IF Empty(c) THEN "threw" ELSE "flush"
              /\ alive' = ~Empty(c)
              /\ UNCHANGED <<next, keys_blocks, vals_blocks, copy_stream, owner>>
    /\ UNCHANGED <<input, todo, i, curr_filling_chunk, is_vals_needed, started, cuda_processing_state,
                   keys_buf, vals_buf, worker, aggr, agg_result>>

\* The chunk to fill after chunk c.
NextChunk(c) == (c + 1) % chunks_num

\* The rest of tryQueueData: wait for the copies and give the chunk away.
FlushChunk ==
    /\ main = "flush" /\ copy_stream = <<>>
    /\ HandOver(curr_filling_chunk)
    /\ curr_filling_chunk' = NextChunk(curr_filling_chunk)
    /\ main' = "lock"
    /\ UNCHANGED <<input, next, todo, i, is_vals_needed, started, buffers, device, aggr, agg_result, alive>>

\* Defective variant: executeOnBlock does not wait for the copies
waitQueueData_NoSync ==
    /\ main = "sync"
    /\ main' = "read"
    /\ UNCHANGED <<input, next, todo, i, curr_filling_chunk, is_vals_needed, started,
                   cuda_processing_state, owner, buffers, device, worker, aggr, agg_result, alive>>

\* executeOnBlock: the block's memory is released only after its copies.
waitQueueData ==
    /\ main = "sync" /\ copy_stream = <<>>
    /\ main' = "read"
    /\ UNCHANGED <<input, next, todo, i, curr_filling_chunk, is_vals_needed, started,
                   cuda_processing_state, owner, buffers, device, worker, aggr, agg_result, alive>>
-----------------------------------------------------------------------------
(***************************************************************************)
(* The query thread: waitProcessed.                                        *)
(***************************************************************************)
\* The chunk being filled goes first, unless nothing is in it.
HandOverLast ==
    /\ main = "hand_over"
    /\ IF Empty(curr_filling_chunk)
         THEN /\ owner' = [owner EXCEPT ![curr_filling_chunk] = "free"]
              /\ UNCHANGED <<cuda_processing_state, worker>>
         ELSE HandOver(curr_filling_chunk)
    /\ main' = "lock" /\ todo' = "end_marker" /\ i' = 0
    /\ UNCHANGED <<input, next, curr_filling_chunk, is_vals_needed, started, buffers, device, aggr,
                   agg_result, alive>>

\* Then every chunk gets the flag on an empty buffer.
SendEndMarker ==
    /\ main = "end_marker"
    /\ IF Empty(i)
         THEN /\ HandOver(i)
              /\ IF i + 1 < chunks_num THEN main' = "lock" /\ i' = i + 1
                                       ELSE main' = "join" /\ i' = 0
              /\ UNCHANGED alive
         ELSE /\ main' = "threw" /\ alive' = FALSE
              /\ UNCHANGED <<i, cuda_processing_state, owner, worker>>
    /\ UNCHANGED <<input, next, todo, curr_filling_chunk, is_vals_needed, started, buffers, device, aggr,
                   agg_result>>

JoinThread ==
    /\ main = "join" /\ worker[i] = "exited"
    /\ IF i + 1 < chunks_num THEN i' = i + 1 /\ UNCHANGED main
                             ELSE i' = 1 /\ main' = "merge"
    /\ UNCHANGED <<input, next, todo, curr_filling_chunk, is_vals_needed, started,
                   cuda_processing_state, owner, buffers, device, worker, aggr, agg_result, alive>>

\* Defective variant: the aggregates of chunk i replace those of chunk 0
MergedAggregates_Overwritten(c) == group_agg_res[c]

\* cudaMergeBulk: the aggregates of chunk c are added to those of chunk 0.
MergedAggregates(c) == [j \in Block |-> group_agg_res[0][j] + group_agg_res[c][j]]

\* mergeToOtherTable and cudaMergeBulk for chunk i, into chunk 0.  The offsets
\* of the chunk that is merged are computed again; those of chunk 0 are not.
MergeChunk ==
    /\ main = "merge" /\ i < chunks_num
    /\ LET merged == table_keys[0] \union table_keys[i] IN
       IF Cardinality(merged) > hash_table_max_size
         THEN main' = "threw" /\ UNCHANGED <<i, aggr>>
         ELSE /\ table_keys' = [table_keys EXCEPT ![0] = merged]
              /\ offsets_known' = [offsets_known EXCEPT ![i] = table_keys[i]]
              /\ group_agg_res' = [group_agg_res EXCEPT ![0] = MergedAggregates(i)]
              /\ i' = i + 1
              /\ UNCHANGED <<main, group_nums, add_bulk, values_read>>
    /\ UNCHANGED <<input, next, todo, curr_filling_chunk, is_vals_needed, started,
                   cuda_processing_state, owner, buffers, device, worker, agg_result, alive>>

\* The keys as the host reads them: right where offsets[] is, and any bytes at
\* all where it is not.
Garbage == "garbage"
KeysAsRead ==
    {s \in [table_keys[0] -> Key \union {Garbage}] :
        \A k \in table_keys[0] \intersect offsets_known[0] : s[k] = k}

BuildResult ==
    /\ main = "merge" /\ i >= chunks_num
    /\ \E key_str \in KeysAsRead :
         IF \E k1, k2 \in table_keys[0] : k1 # k2 /\ key_str[k1] = key_str[k2]
           THEN main' = "threw" /\ UNCHANGED agg_result
           ELSE main' = "done" /\ agg_result' = {key_str[k] : k \in table_keys[0]}
    /\ UNCHANGED <<input, next, todo, i, curr_filling_chunk, is_vals_needed, started,
                   cuda_processing_state, owner, buffers, device, worker, aggr, alive>>
-----------------------------------------------------------------------------
(***************************************************************************)
(* The worker thread of chunk c: processChunk.                             *)
(***************************************************************************)
workerOnly == <<query, cuda_processing_state, buffers, device, agg_result>>

WorkerErase(c) ==
    /\ worker[c] = "erase"
    /\ worker' = [worker EXCEPT ![c] = "lock"]
    /\ table_keys' = [table_keys EXCEPT ![c] = {}]
    /\ group_agg_res' = [group_agg_res EXCEPT ![c] = [j \in Block |-> 0]]
    /\ UNCHANGED <<workerOnly, owner, group_nums, add_bulk, offsets_known, values_read, alive>>

WorkerLock(c) ==
    /\ worker[c] = "lock" /\ owner[c] = "free"
    /\ owner' = [owner EXCEPT ![c] = "worker"]
    /\ worker' = [worker EXCEPT ![c] = "wait"]
    /\ UNCHANGED <<workerOnly, aggr, alive>>

\* cv_buffer_append_end.wait, and the end of data.
WorkerWait(c) ==
    /\ worker[c] = "wait"
    /\ worker' = [worker EXCEPT ![c] =
           CASE ~cuda_processing_state[c] -> "asleep"
             [] cuda_processing_state[c] /\ Empty(c) -> "offsets"
             [] OTHER -> "add_data"]
    /\ owner' = IF cuda_processing_state[c] /\ ~Empty(c) THEN owner ELSE [owner EXCEPT ![c] = "free"]
    /\ UNCHANGED <<workerOnly, aggr, alive>>

\* The blocks whose keys lie in the buffer of chunk c.
KeysRead(c) == [p \in 1..Len(keys_blocks[c]) |-> keys_buf[c][p]]
KeysOf(s)   == UNION {input[s[p]].keys : p \in {q \in DOMAIN s : s[q] # Unset}}

\* addData returns after the stream is idle; its exception leaves the thread.
WorkerAddData(c) ==
    /\ worker[c] = "add_data" /\ add_bulk[c] = <<>>
    /\ LET added == table_keys[c] \union KeysOf(KeysRead(c)) IN
       IF Cardinality(added) > hash_table_max_size
         THEN alive' = FALSE /\ UNCHANGED <<worker, table_keys, group_nums>>
         ELSE /\ table_keys' = [table_keys EXCEPT ![c] = added]
              /\ group_nums' = [group_nums EXCEPT ![c] = KeysRead(c)]
              /\ worker' = [worker EXCEPT ![c] = "add_bulk"]
              /\ UNCHANGED alive
    /\ UNCHANGED <<workerOnly, owner, add_bulk, offsets_known, group_agg_res, values_read>>

\* CudaColumnString::reset, of the keys and of the values.
reset(c) ==
    /\ keys_blocks' = [keys_blocks EXCEPT ![c] = <<>>]
    /\ vals_blocks' = [vals_blocks EXCEPT ![c] = <<>>]

\* The kernel is launched and the chunk given back without waiting for it.
WorkerGiveBack(c) ==
    /\ worker[c] = "add_bulk"
    /\ add_bulk' = [add_bulk EXCEPT ![c] = group_nums[c]]
    /\ reset(c)
    /\ cuda_processing_state' = [cuda_processing_state EXCEPT ![c] = FALSE]
    /\ main' = IF main = "asleep" /\ Target = c THEN "lock" ELSE main
    /\ owner' = [owner EXCEPT ![c] = "free"]
    /\ worker' = [worker EXCEPT ![c] = "lock"]
    /\ UNCHANGED <<input, next, todo, i, curr_filling_chunk, is_vals_needed, started, device,
                   group_nums, table_keys, offsets_known, group_agg_res, values_read, agg_result, alive>>

\* calcOffsets, and the stream idle when the thread ends.
WorkerExit(c) ==
    /\ worker[c] = "offsets" /\ add_bulk[c] = <<>>
    /\ offsets_known' = [offsets_known EXCEPT ![c] = table_keys[c]]
    /\ worker' = [worker EXCEPT ![c] = "exited"]
    /\ UNCHANGED <<workerOnly, owner, group_nums, add_bulk, table_keys, group_agg_res, values_read, alive>>

Worker(c) ==
    \/ WorkerErase(c) \/ WorkerLock(c) \/ WorkerWait(c)
    \/ WorkerAddData(c) \/ WorkerGiveBack(c) \/ WorkerExit(c)
-----------------------------------------------------------------------------
(***************************************************************************)
(* The GPU, and condition variables that wake up for no reason.            *)
(***************************************************************************)
RunCopy ==
    /\ copy_stream # <<>>
    /\ LET copy == Head(copy_stream) IN
       /\ keys_buf' = IF copy.buf = "keys" THEN [keys_buf EXCEPT ![copy.chunk][copy.pos] = copy.block]
                                           ELSE keys_buf
       /\ vals_buf' = IF copy.buf = "vals" THEN [vals_buf EXCEPT ![copy.chunk][copy.pos] = copy.block]
                                           ELSE vals_buf
    /\ copy_stream' = Tail(copy_stream)
    /\ UNCHANGED <<query, cuda_processing_state, owner, buffers, worker, aggr, agg_result, alive>>

\* cudaAddBulk: every row is added once, with the value the kernel finds.
RunAddBulk(c) ==
    /\ add_bulk[c] # <<>>
    /\ group_agg_res' = [group_agg_res EXCEPT ![c] =
           [j \in Block |-> @[j] + Cardinality({p \in DOMAIN add_bulk[c] : add_bulk[c][p] = j})]]
    /\ values_read' = IF is_vals_needed
           THEN [values_read EXCEPT ![c] = @ \union
                    {<<add_bulk[c][p], vals_buf[c][p]>> : p \in DOMAIN add_bulk[c]}]
           ELSE values_read
    /\ add_bulk' = [add_bulk EXCEPT ![c] = <<>>]
    /\ UNCHANGED <<query, cuda_processing_state, owner, buffers, device, worker, group_nums,
                   table_keys, offsets_known, agg_result, alive>>

SpuriousWakeup ==
    /\ \/ main = "asleep" /\ main' = "lock" /\ UNCHANGED worker
       \/ \E c \in Chunk : /\ worker[c] = "asleep"
                           /\ worker' = [worker EXCEPT ![c] = "lock"]
                           /\ UNCHANGED main
    /\ UNCHANGED <<input, next, todo, i, curr_filling_chunk, is_vals_needed, started,
                   cuda_processing_state, owner, buffers, device, aggr, agg_result, alive>>

Main ==
    \/ ReadBlock \/ ReadEnd \/ startProcessing \/ Lock \/ Wait \/ tryQueueData \/ FlushChunk
    \/ waitQueueData \/ HandOverLast \/ SendEndMarker \/ JoinThread \/ MergeChunk \/ BuildResult

Gpu == RunCopy \/ \E c \in Chunk : RunAddBulk(c)

Over == main \in {"done", "threw", "assert_failed"} \/ ~alive

Next ==
    \/ alive /\ (Main \/ Gpu \/ SpuriousWakeup \/ \E c \in Chunk : Worker(c))
    \/ Over /\ UNCHANGED vars

\* Every thread runs when it can and every stream makes progress.  A thread
\* that waits for a mutex gets it when it is free again and again.
Fairness ==
    /\ WF_vars(alive /\ Main) /\ SF_vars(alive /\ Lock)
    /\ WF_vars(alive /\ RunCopy)
    /\ \A c \in Chunk : /\ WF_vars(alive /\ Worker(c))
                        /\ SF_vars(alive /\ WorkerLock(c))
                        /\ WF_vars(alive /\ RunAddBulk(c))

Spec == Init /\ [][Next]_vars /\ Fairness
-----------------------------------------------------------------------------
(***************************************************************************)
(* Properties.                                                             *)
(***************************************************************************)
MainLabel   == {"read", "start", "lock", "wait", "asleep", "queue", "flush", "sync", "hand_over",
                "end_marker", "join", "merge", "done", "threw", "assert_failed"}
WorkerLabel == {"none", "erase", "lock", "wait", "asleep", "add_data", "add_bulk", "offsets", "exited"}
CopyType    == [buf : {"keys", "vals"}, chunk : Chunk, pos : Pos, block : Block]

\* Every variable holds a value of its type; the chunk being filled and the
\* chunk of every copy exist.
TypeOK ==
    /\ input \in Inputs
    /\ next \in 1..(Len(input) + 1)
    /\ main \in MainLabel
    /\ todo \in {"queue", "hand_over", "end_marker"}
    /\ i \in 0..chunks_num
    /\ curr_filling_chunk \in Chunk
    /\ is_vals_needed \in BOOLEAN \union {Unset}
    /\ started \in BOOLEAN
    /\ cuda_processing_state \in [Chunk -> BOOLEAN]
    /\ owner \in [Chunk -> {"free", "main", "worker"}]
    /\ keys_blocks \in [Chunk -> Seq(Block)]
    /\ vals_blocks \in [Chunk -> Seq(Block)]
    /\ keys_buf \in [Chunk -> [Pos -> Block \union {Unset}]]
    /\ vals_buf \in [Chunk -> [Pos -> Block \union {Unset}]]
    /\ copy_stream \in Seq(CopyType)
    /\ worker \in [Chunk -> WorkerLabel]
    /\ group_nums \in [Chunk -> Seq(Block \union {Unset})]
    /\ add_bulk \in [Chunk -> Seq(Block \union {Unset})]
    /\ table_keys \in [Chunk -> SUBSET Key]
    /\ offsets_known \in [Chunk -> SUBSET Key]
    /\ group_agg_res \in [Chunk -> [Block -> Nat]]
    /\ values_read \in [Chunk -> SUBSET ((Block \union {Unset}) \X (Block \union {Unset}))]
    /\ alive \in BOOLEAN

AllKeys == UNION {input[j].keys : j \in DOMAIN input}

\* A worker reads exactly the blocks that were queued in its chunk: when it
\* processes the buffer, all copies into it have run.
KeysReadAreQueued ==
    \A c \in Chunk : worker[c] = "add_data" => KeysRead(c) = keys_blocks[c]

\* When all chunks are merged, the rows of every block were aggregated exactly
\* once, and chunk 0 has the keys of all blocks, whatever the way the blocks
\* were spread over the chunks.
EveryBlockOnce ==
    TypeOK /\
    (main \in {"merge", "done"} /\ i >= chunks_num =>
        /\ \A j \in DOMAIN input : input[j].rows > 0 => group_agg_res[0][j] = 1
        /\ table_keys[0] = AllKeys)

\* The server dies only of data that exceed a limit: a block that does not fit
\* into an empty buffer, or more keys than the table has buckets, and never of "host
\* buffer is not empty after transfer" at an end marker; and the assertion of
\* CudaAggregatedDataVariants::waitProcessed fails only for a source without
\* blocks, for which no aggregator was made (the known deviation).
DiesOnlyIfExceeded ==
    /\ main = "assert_failed" => input = <<>>
    /\ ~alive =>
              \/ Cardinality(AllKeys) > hash_table_max_size
              \/ \E j \in DOMAIN input : \/ input[j].rows > buffer_max_str_num
                                         \/ input[j].key_sz > buffer_max_size
                                         \/ input[j].val_sz > buffer_max_size

\* The result has the keys of the blocks.
ResultCorrect == main = "done" => agg_result = AllKeys

\* A row is aggregated with its own value, or with the value of a later block
\* that was appended after the worker had given the chunk back while its last
\* kernel was still reading (the known deviation): never with memory that no
\* copy has filled, and never with what an earlier block left there.
ValuesAreNeverStale ==
    \A c \in Chunk : \A r \in values_read[c] : r[1] # Unset /\ r[2] # Unset /\ r[1] <= r[2]

\* Every query ends, with a result or an error: no wakeup between the query
\* thread and the workers is lost.
QueryEnds == <>Over
=============================================================================
