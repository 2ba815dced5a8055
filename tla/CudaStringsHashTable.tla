------------------------ MODULE CudaStringsHashTable ------------------------
(***************************************************************************)
(* The GPU hash table of string keys (Common/HashTable/Cuda).              *)
(*                                                                         *)
(* addData runs on a CUDA stream: kerFillZero, kerAddData (one GPU thread  *)
(* per row, all of them racing on the buckets), a scan of the lengths of   *)
(* the new strings, kerCopyAddedStrings (one GPU thread per row again),    *)
(* and a host part that throws or commits.  Each read, atomicCAS and       *)
(* string comparison of a GPU thread is an action of its own.              *)
(*                                                                         *)
(* Memory.  A pointer is a device address: Null is 0, RowPtr(i) is the     *)
(* string of row i in the caller's buffer, StrPtr(a) is word a of the      *)
(* table's own str_buf.  Sizes are in words of 8 bytes, the unit in which  *)
(* both kernels read and write strings.                                    *)
(***************************************************************************)
EXTENDS Integers, Sequences, FiniteSets

CONSTANTS
    Key,             \* the strings, told apart by their contents
    NoKey,           \* a row to skip: its length is DBMS_CUDA_EMPTY_LEN_VAL
    NoWord,          \* a word of str_buf that was never written
    MurmurHash,      \* [Key -> Nat]      cudaMurmurHash64
    ByteLen,         \* [Key -> Nat\{0}]  the length with the final '\0'
    buckets_num,
    str_buf_max_sz,  \* in words
    MaxRows,         \* no batch has more rows
    Batches,         \* the batches callers may pass to addData
    ThrowIsFatal     \* addData is called by a worker thread: nobody catches

ASSUME TableConstants ==
    /\ NoKey \notin Key
    /\ MurmurHash \in [Key -> Nat]
    /\ ByteLen \in [Key -> Nat \ {0}]
    /\ buckets_num \in Nat \ {0}
    /\ str_buf_max_sz \in Nat
    /\ MaxRows \in Nat
    /\ Batches \subseteq {s \in Seq(Key \cup {NoKey}) : Len(s) \in 1..MaxRows}
    /\ ThrowIsFatal \in BOOLEAN

VARIABLES
    hashes, lens, pointers,      \* the three arrays of a bucket
    str_buf, str_buf_sz,         \* the table's own copy of its strings
    new_strings_lens,            \* buf1
    new_strings_offsets,         \* buf2
    res_buckets,                 \* the caller's array: row -> bucket
    table_is_full,               \* a __device__ global, shared by all tables
    batch,                       \* the rows of the running addData
    phase,                       \* where the stream of addData has got to
    pc, bucket_i, ptr, our_string,  \* registers of the GPU thread of a row
    overrun                      \* a kernel wrote behind the end of str_buf

table   == <<hashes, lens, pointers>>
strings == <<str_buf, str_buf_sz, overrun>>
scan    == <<new_strings_lens, new_strings_offsets>>
regs    == <<pc, bucket_i, ptr, our_string>>
vars    == <<table, strings, scan, res_buckets, table_is_full, batch, phase, regs>>

Bucket   == 0..(buckets_num - 1)
NoBucket == -1                    \* ~((SizeType)0)
Row      == 1..MaxRows
EmptyHash == 0
EmptyLen  == 0

Null      == 0
RowPtr(i) == i
StrPtr(a) == MaxRows + 1 + a
InStrBuf(p) == p > MaxRows
StrAddr(p)  == p - MaxRows - 1

\* The hash a key is filed under; 0 means "no hash" and is avoided.
HashOf(k) == IF MurmurHash[k] = EmptyHash THEN MurmurHash[k] + 1 ELSE MurmurHash[k]
Home(k)   == HashOf(k) % buckets_num

NextBucket(b) == (b + 1) % buckets_num

\* A thread that is back at its home bucket has tried all of them.
TriedAll_Never(k, next) == FALSE                        \* defective variant
TriedAll(k, next) == next = Home(k)

\* The 8-byte reads that take a string from its begin to its end; word w of
\* string k is the pair <<k, w>>.
StoredLen(k) == (ByteLen[k] + 7) \div 8

\* The words that are set aside for it in str_buf.
ReservedLen_RoundedDown(k) == ByteLen[k] \div 8         \* defective variant
ReservedLen(k) == ((ByteLen[k] - 1) \div 8) + 1

\* The word-by-word comparison of kerAddData: string k is found at address p.
StringAt(p, k) ==
    IF InStrBuf(p)
      THEN /\ StrAddr(p) + StoredLen(k) <= str_buf_max_sz
           /\ \A w \in 0..(StoredLen(k) - 1) : str_buf[StrAddr(p) + w] = <<k, w>>
      ELSE p \in DOMAIN batch /\ batch[p] = k

Holds(b, k) == pointers[b] # Null /\ StringAt(pointers[b], k)

\* Rows that have a thread: kernels return at once for a length of 0.
Active == {i \in DOMAIN batch : batch[i] # NoKey}
-----------------------------------------------------------------------------
Init ==
    /\ hashes = [b \in Bucket |-> EmptyHash]
    /\ lens = [b \in Bucket |-> EmptyLen]
    /\ pointers = [b \in Bucket |-> Null]
    /\ str_buf = [a \in 0..(str_buf_max_sz - 1) |-> NoWord]
    /\ str_buf_sz = 0
    /\ overrun = FALSE
    /\ new_strings_lens = [b \in Bucket |-> 0]
    /\ new_strings_offsets = [b \in Bucket |-> 0]
    /\ res_buckets = [i \in Row |-> 0]
    /\ batch = <<>>
    /\ phase = "idle"
    /\ pc = [i \in Row |-> "done"]
    /\ bucket_i = [i \in Row |-> 0]
    /\ ptr = [i \in Row |-> Null]
    /\ our_string = [i \in Row |-> FALSE]
    /\ table_is_full = FALSE

kerErase ==
    /\ hashes' = [b \in Bucket |-> EmptyHash]
    /\ lens' = [b \in Bucket |-> EmptyLen]
    /\ pointers' = [b \in Bucket |-> Null]

kerFillZero == new_strings_lens' = [b \in Bucket |-> 0]

kerFillEmptyResBucket(rows) ==
    res_buckets' = [i \in Row |-> IF i \in DOMAIN rows THEN NoBucket ELSE res_buckets[i]]

\* A query's table: constructed anew with the arrays around it, and erased by
\* processChunk before its first use.  After a throw that the query thread
\* catches the next query gets here too; nothing resets table_is_full.
erase ==
    /\ phase = "idle" \/ (phase = "failed" /\ ~ThrowIsFatal)
    /\ kerErase
    /\ str_buf' = [a \in 0..(str_buf_max_sz - 1) |-> NoWord]
    /\ str_buf_sz' = 0
    /\ overrun' = FALSE
    /\ new_strings_lens' = [b \in Bucket |-> 0]
    /\ new_strings_offsets' = [b \in Bucket |-> 0]
    /\ res_buckets' = [i \in Row |-> 0]
    /\ batch' = <<>>
    /\ phase' = "idle"
    /\ UNCHANGED <<table_is_full, regs>>

\* kerFillZero, and the threads of kerAddData up to their first bucket.
Launch(rows) ==
    /\ phase = "idle"
    /\ phase' = "kerAddData"
    /\ batch' = rows
    /\ kerFillZero
    /\ pc' = [i \in Row |-> IF i \in DOMAIN rows /\ rows[i] # NoKey
                              THEN "hash" ELSE "done"]
    /\ bucket_i' = [i \in Row |-> IF i \in DOMAIN rows /\ rows[i] # NoKey
                                    THEN Home(rows[i]) ELSE 0]
    /\ ptr' = [i \in Row |-> Null]
    /\ our_string' = [i \in Row |-> FALSE]
    /\ UNCHANGED <<table, strings, new_strings_offsets, table_is_full>>

addData(rows) == Launch(rows) /\ UNCHANGED res_buckets

\* The other table's buckets, empty ones included, become the rows; the caller
\* tells the empty ones apart later by the ~0 that kerFillEmptyResBucket wrote.
mergeToOtherTable(rows) == Launch(rows) /\ kerFillEmptyResBucket(rows)
-----------------------------------------------------------------------------
(***************************************************************************)
(* kerAddData.  The reads of hashes, table_lens and ptrs are plain loads   *)
(* that race with the atomicCAS of other threads: a load of a bucket that  *)
(* was empty at launch returns what the bucket holds now or the stale      *)
(* empty value.                                                            *)
(***************************************************************************)
Loads(b, now, empty) == IF InStrBuf(pointers[b]) THEN {now} ELSE {now, empty}

\* Linear probing; back at the home bucket the thread gives up.
Probe(i) ==
    LET next == NextBucket(bucket_i[i]) IN
    /\ bucket_i' = [bucket_i EXCEPT ![i] = next]
    /\ IF TriedAll(batch[i], next)
         THEN table_is_full' = TRUE /\ pc' = [pc EXCEPT ![i] = "full"]
         ELSE UNCHANGED table_is_full /\ pc' = [pc EXCEPT ![i] = "hash"]
    /\ UNCHANGED <<table, ptr, our_string, res_buckets, new_strings_lens>>

\* The thread goes on with this bucket and touches nothing but its own state.
Goto(i, label) ==
    /\ pc' = [pc EXCEPT ![i] = label]
    /\ UNCHANGED <<table, bucket_i, ptr, our_string, table_is_full, res_buckets, new_strings_lens>>

ReadHash(i) ==
    /\ pc[i] = "hash"
    /\ \E x \in Loads(bucket_i[i], hashes[bucket_i[i]], EmptyHash) :
         \/ x = EmptyHash /\ Goto(i, "hashCAS")
         \/ x = HashOf(batch[i]) /\ Goto(i, "len")
         \/ x \notin {EmptyHash, HashOf(batch[i])} /\ Probe(i)

\* Defective variant: a plain store in place of the atomicCAS.
CasHash_PlainStore(i) ==
    /\ pc[i] = "hashCAS"
    /\ hashes' = [hashes EXCEPT ![bucket_i[i]] = HashOf(batch[i])]
    /\ pc' = [pc EXCEPT ![i] = "len"]
    /\ UNCHANGED <<lens, pointers, bucket_i, ptr, our_string, table_is_full, res_buckets,
                   new_strings_lens>>

CasHash(i) ==
    LET b == bucket_i[i]
        h == HashOf(batch[i])
    IN /\ pc[i] = "hashCAS"
       /\ \/ /\ hashes[b] = EmptyHash
             /\ hashes' = [hashes EXCEPT ![b] = h]
             /\ pc' = [pc EXCEPT ![i] = "len"]
             /\ UNCHANGED <<lens, pointers, bucket_i, ptr, our_string, table_is_full, res_buckets,
                            new_strings_lens>>
          \/ hashes[b] = h /\ Goto(i, "len")
          \/ hashes[b] \notin {EmptyHash, h} /\ Probe(i)

ReadLen(i) ==
    /\ pc[i] = "len"
    /\ \E x \in Loads(bucket_i[i], lens[bucket_i[i]], EmptyLen) :
         \/ x = EmptyLen /\ Goto(i, "lenCAS")
         \/ x = ByteLen[batch[i]] /\ Goto(i, "ptr")
         \/ x \notin {EmptyLen, ByteLen[batch[i]]} /\ Probe(i)

CasLen(i) ==
    LET b == bucket_i[i]
        n == ByteLen[batch[i]]
    IN /\ pc[i] = "lenCAS"
       /\ \/ /\ lens[b] = EmptyLen
             /\ lens' = [lens EXCEPT ![b] = n]
             /\ pc' = [pc EXCEPT ![i] = "ptr"]
             /\ UNCHANGED <<hashes, pointers, bucket_i, ptr, our_string, table_is_full, res_buckets,
                            new_strings_lens>>
          \/ lens[b] = n /\ Goto(i, "ptr")
          \/ lens[b] \notin {EmptyLen, n} /\ Probe(i)

ReadPtr(i) ==
    /\ pc[i] = "ptr"
    /\ \E p \in Loads(bucket_i[i], pointers[bucket_i[i]], Null) :
         /\ ptr' = [ptr EXCEPT ![i] = p]
         /\ pc' = [pc EXCEPT ![i] = IF p = Null THEN "ptrCAS" ELSE "compare"]
    /\ UNCHANGED <<table, bucket_i, our_string, table_is_full, res_buckets, new_strings_lens>>

CasPtr(i) ==
    LET b == bucket_i[i] IN
    /\ pc[i] = "ptrCAS"
    /\ IF pointers[b] = Null
         THEN /\ pointers' = [pointers EXCEPT ![b] = RowPtr(i)]
              /\ ptr' = [ptr EXCEPT ![i] = RowPtr(i)]
              /\ our_string' = [our_string EXCEPT ![i] = TRUE]
         ELSE /\ ptr' = [ptr EXCEPT ![i] = pointers[b]]
              /\ UNCHANGED <<pointers, our_string>>
    /\ pc' = [pc EXCEPT ![i] = "compare"]
    /\ UNCHANGED <<hashes, lens, bucket_i, table_is_full, res_buckets, new_strings_lens>>

\* Defective variant: equal hash and length are taken for equal strings.
Compare_NoStrings(i) ==
    /\ pc[i] = "compare"
    /\ res_buckets' = [res_buckets EXCEPT ![i] = bucket_i[i]]
    /\ new_strings_lens' = IF our_string[i]
          THEN [new_strings_lens EXCEPT ![bucket_i[i]] = ReservedLen(batch[i])]
          ELSE new_strings_lens
    /\ pc' = [pc EXCEPT ![i] = "done"]
    /\ UNCHANGED <<table, bucket_i, ptr, our_string, table_is_full>>

Compare(i) ==
    LET b == bucket_i[i] IN
    /\ pc[i] = "compare"
    /\ IF StringAt(ptr[i], batch[i])
         THEN /\ res_buckets' = [res_buckets EXCEPT ![i] = b]
              /\ new_strings_lens' = IF our_string[i]
                    THEN [new_strings_lens EXCEPT ![b] = ReservedLen(batch[i])]
                    ELSE new_strings_lens
              /\ pc' = [pc EXCEPT ![i] = "done"]
              /\ UNCHANGED <<table, bucket_i, ptr, our_string, table_is_full>>
         ELSE Probe(i)

kerAddData(i) ==
    /\ phase = "kerAddData"
    /\ \/ ReadHash(i) \/ CasHash(i)
       \/ ReadLen(i)  \/ CasLen(i)
       \/ ReadPtr(i)  \/ CasPtr(i)
       \/ Compare(i)
    /\ UNCHANGED <<strings, new_strings_offsets, batch, phase>>
-----------------------------------------------------------------------------
\* cub::DeviceScan::ExclusiveSum: entry b counts the words f gives to the
\* buckets before b.
WordsBefore(f, b) == UNION {{c} \X (1..f[c]) : c \in 0..(b - 1)}
ExclusiveSum(f)   == [b \in Bucket |-> Cardinality(WordsBefore(f, b))]

Scan ==
    /\ phase = "kerAddData"
    /\ \A i \in Active : pc[i] \in {"done", "full"}
    /\ new_strings_offsets' = ExclusiveSum(new_strings_lens)
    /\ phase' = "kerCopyAddedStrings"
    /\ pc' = [i \in Row |-> IF i \in Active THEN "copy" ELSE pc[i]]
    /\ bucket_i' = [i \in Row |-> 0]
    /\ ptr' = [i \in Row |-> Null]
    /\ our_string' = [i \in Row |-> FALSE]
    /\ UNCHANGED <<table, strings, new_strings_lens, res_buckets, table_is_full, batch>>

\* Where the string that is new in bucket b goes.
CopyAddress_FromZero(b) == new_strings_offsets[b]       \* defective variant
CopyAddress(b) == str_buf_sz + new_strings_offsets[b]

\* A row without a bucket (kerAddData gave up) finds some other row's pointer
\* in res_buckets' stale entry and copies nothing.
kerCopyAddedStrings(i) ==
    LET b == res_buckets[i]
        k == batch[i]
        a == CopyAddress(b)
    IN /\ phase = "kerCopyAddedStrings"
       /\ pc[i] = "copy"
       /\ pc' = [pc EXCEPT ![i] = "done"]
       /\ IF b \in Bucket /\ pointers[b] = RowPtr(i)
            THEN /\ str_buf' = [x \in DOMAIN str_buf |->
                                  IF x \in a..(a + StoredLen(k) - 1)
                                    THEN <<k, x - a>> ELSE str_buf[x]]
                 /\ overrun' = (overrun \/ a + StoredLen(k) > str_buf_max_sz)
                 /\ pointers' = [pointers EXCEPT ![b] = StrPtr(a)]
            ELSE UNCHANGED <<str_buf, overrun, pointers>>
       /\ UNCHANGED <<hashes, lens, str_buf_sz, scan, res_buckets, table_is_full, batch, phase,
                      bucket_i, ptr, our_string>>

TotalAddedLen == new_strings_offsets[buckets_num - 1] + new_strings_lens[buckets_num - 1]

StringsFit == str_buf_sz + TotalAddedLen <= str_buf_max_sz

\* The two errors of addData.
AddFails_OnlyStrings == ~StringsFit                     \* defective variant
AddFails == table_is_full \/ ~StringsFit

\* The host after cudaStreamSynchronize: throw, or account for the new strings.
Finish ==
    /\ phase = "kerCopyAddedStrings"
    /\ \A i \in Active : pc[i] = "done"
    /\ IF AddFails
         THEN phase' = "failed" /\ UNCHANGED str_buf_sz
         ELSE phase' = "idle" /\ str_buf_sz' = str_buf_sz + TotalAddedLen
    /\ UNCHANGED <<table, str_buf, overrun, scan, res_buckets, table_is_full, batch, regs>>

Next ==
    \/ erase
    \/ \E rows \in Batches : addData(rows)
    \/ \E rows \in Batches : mergeToOtherTable(rows)
    \/ \E i \in Row : kerAddData(i)
    \/ Scan
    \/ \E i \in Row : kerCopyAddedStrings(i)
    \/ Finish

\* Every GPU thread of a launched kernel is scheduled, and the stream goes on
\* once a kernel has ended.
Fairness ==
    /\ \A i \in Row : WF_vars(kerAddData(i)) /\ WF_vars(kerCopyAddedStrings(i))
    /\ WF_vars(Scan)
    /\ WF_vars(Finish)

Spec == Init /\ [][Next]_vars /\ Fairness
-----------------------------------------------------------------------------
(***************************************************************************)
(* Properties.                                                             *)
(***************************************************************************)
Label == {"hash", "hashCAS", "len", "lenCAS", "ptr", "ptrCAS", "compare", "full", "copy", "done"}

\* The type of the table's arrays and of the registers of the GPU threads.
TypeOK ==
    /\ hashes \in [Bucket -> Nat]
    /\ lens \in [Bucket -> Nat]
    /\ pointers \in [Bucket -> Nat]
    /\ str_buf \in [0..(str_buf_max_sz - 1) -> (Key \X Nat) \cup {NoWord}]
    /\ str_buf_sz \in 0..str_buf_max_sz
    /\ new_strings_lens \in [Bucket -> Nat]
    /\ new_strings_offsets \in [Bucket -> Nat]
    /\ res_buckets \in [Row -> Bucket \cup {NoBucket}]
    /\ table_is_full \in BOOLEAN
    /\ batch \in Batches \cup {<<>>}
    /\ phase \in {"idle", "kerAddData", "kerCopyAddedStrings", "failed"}
    /\ pc \in [Row -> Label]
    /\ bucket_i \in [Row -> Bucket]
    /\ ptr \in [Row -> Nat]
    /\ our_string \in [Row -> BOOLEAN]
    /\ overrun \in BOOLEAN

\* However the GPU threads interleave, no string is ever in two buckets; the
\* host throws "seems there are duplicates in GPU table" if one is.
NoDuplicateKeys ==
    \A b, c \in Bucket : \A k \in Key : Holds(b, k) /\ Holds(c, k) => b = c

\* A row that addData does not give up on gets the bucket of its own string,
\* never that of a string that only collides with it; the aggregate functions
\* add the row's value to that bucket.
RowsGetTheirBucket ==
    \A i \in Active :
        pc[i] \in {"done", "copy"} /\ ~table_is_full /\ ~overrun
            => res_buckets[i] \in Bucket /\ Holds(res_buckets[i], batch[i])

\* Between two addData, each string of the table lies inside the used part of
\* str_buf and no other string was copied over it.
StringsIntact ==
    phase = "idle" =>
        \A b \in Bucket : pointers[b] # Null =>
            /\ InStrBuf(pointers[b])
            /\ \E k \in Key :
                 /\ StringAt(pointers[b], k)
                 /\ StrAddr(pointers[b]) + StoredLen(k) <= str_buf_sz

BatchKeys == {batch[i] : i \in Active}

\* A bucket that holds a string keeps it until the table is erased: neither a
\* later batch nor the copying of a string into str_buf changes it.
BucketsKeepTheirString ==
    [][~erase => \A b \in Bucket : \A k \in Key :
          Holds(b, k) /\ ~overrun' => Holds(b, k)']_vars

\* Every addData returns or throws: no thread probes for ever.
AddDataEnds == phase = "kerAddData" ~> phase \in {"idle", "failed"}
=============================================================================
