--------------------- MODULE CudaStringsHashTableProofs ---------------------
(***************************************************************************)
(* Theorems on CudaStringsHashTable, for every number of buckets, every    *)
(* hash function, every set of batches and every interleaving: facts about *)
(* its operators, the proof that its variables keep their types, how a GPU *)
(* thread of kerAddData searches, that every step of a kernel preserves    *)
(* the invariant, and what follows from that.                              *)
(***************************************************************************)
EXTENDS CudaStringsHashTableInvariant, TLAPS

-----------------------------------------------------------------------------
(***************************************************************************)
(* Facts about the operators.                                              *)
(***************************************************************************)
\* The hash of a key is never the empty value, and its home is a bucket.
LEMMA HashFacts ==
    ASSUME NEW k \in Key
    PROVE  /\ HashOf(k) \in Nat /\ HashOf(k) # EmptyHash
           /\ Home(k) \in Bucket
           /\ ByteLen[k] \in Nat /\ ByteLen[k] # EmptyLen
<1>1. HashOf(k) \in Nat /\ HashOf(k) # EmptyHash
  BY TableConstants DEF HashOf, EmptyHash
<1>2. Home(k) \in Bucket
  BY <1>1, TableConstants DEF Home, Bucket
<1> QED
  BY Zenon, <1>1, <1>2, TableConstants DEF EmptyLen

\* The words that are set aside for a string are the words it takes.
LEMMA LenFacts ==
    ASSUME NEW k \in Key
    PROVE  StoredLen(k) \in Nat \ {0} /\ ReservedLen(k) = StoredLen(k)
<1>1. ByteLen[k] \in Nat \ {0}
  BY Zenon, TableConstants
<1>2. \A n \in Nat \ {0} : (n + 7) \div 8 \in Nat \ {0} /\ ((n - 1) \div 8) + 1 = (n + 7) \div 8
  OBVIOUS
<1> QED
  BY Zenon, <1>1, <1>2 DEF StoredLen, ReservedLen

\* The next bucket is a bucket, and 0 follows the last one.
LEMMA NextBucketFacts ==
    ASSUME NEW b \in Bucket
    PROVE  /\ NextBucket(b) \in Bucket
           /\ NextBucket(b) = IF b + 1 = buckets_num THEN 0 ELSE b + 1
  BY TableConstants DEF NextBucket, Bucket

\* One step of the linear search adds the bucket it leaves to those passed.
LEMMA BetweenStep ==
    ASSUME NEW h \in Bucket, NEW b \in Bucket, NextBucket(b) # h
    PROVE  Between(h, NextBucket(b)) \subseteq Between(h, b) \cup {b}
<1>1. CASE b + 1 = buckets_num
  <2>1. NextBucket(b) = 0
    BY Zenon, <1>1, NextBucketFacts
  <2> QED
    BY <1>1, <2>1, TableConstants DEF Between, Bucket
<1>2. CASE b + 1 # buckets_num
  <2>1. NextBucket(b) = b + 1
    BY Zenon, <1>2, NextBucketFacts
  <2> QED
    BY <2>1, TableConstants DEF Between, Bucket
<1> QED
  BY Zenon, <1>1, <1>2

\* Nothing has been passed at the home bucket.
LEMMA BetweenHome ==
    ASSUME NEW h \in Bucket
    PROVE  Between(h, h) = {}
  BY TableConstants DEF Between, Bucket

\* Of two buckets, one is passed on the way to the other.
LEMMA BetweenTotal ==
    ASSUME NEW h \in Bucket, NEW b \in Bucket, NEW c \in Bucket, b # c
    PROVE  b \in Between(h, c) \/ c \in Between(h, b)
  BY TableConstants DEF Between, Bucket

\* Only buckets are passed.
LEMMA BetweenBuckets ==
    ASSUME NEW h \in Bucket, NEW b \in Bucket
    PROVE  Between(h, b) \subseteq Bucket
  BY TableConstants DEF Between, Bucket

\* The rows of a batch are keys, or rows to skip.
LEMMA BatchFacts ==
    ASSUME NEW rows \in Batches \cup {<<>>}
    PROVE  /\ DOMAIN rows \subseteq Row
           /\ \A i \in DOMAIN rows : rows[i] \in Key \cup {NoKey}
<1>1. CASE rows = <<>>
  BY <1>1
<1>2. CASE rows \in Batches
  <2>1. rows \in Seq(Key \cup {NoKey}) /\ Len(rows) \in 1..MaxRows
    BY Zenon, <1>2, TableConstants
  <2> QED
    BY <2>1, TableConstants DEF Row
<1> QED
  BY Zenon, <1>1, <1>2

\* An exclusive sum gives different buckets disjoint ranges.
ExclusiveSums ==
    \A f \in [Bucket -> Nat] :
        /\ ExclusiveSum(f) \in [Bucket -> Nat]
        /\ \A b, c \in Bucket : b < c => ExclusiveSum(f)[b] + f[b] <= ExclusiveSum(f)[c]
-----------------------------------------------------------------------------
(***************************************************************************)
(* Types.                                                                  *)
(***************************************************************************)
\* Active rows are rows of the batch with a key.
LEMMA ActiveFacts ==
    ASSUME TypeOK
    PROVE  Active \subseteq Row /\ \A i \in Active : i \in DOMAIN batch /\ batch[i] \in Key
<1>1. batch \in Batches \cup {<<>>}
  BY Zenon DEF TypeOK
<1> QED
  BY Zenon, <1>1, BatchFacts DEF Active

\* A row that takes a step in kerAddData is a row of the batch.
LEMMA KernelRow ==
    ASSUME TypeInv, NEW i \in Row, pc[i] # "done"
    PROVE  i \in Active /\ i \in DOMAIN batch /\ batch[i] \in Key /\ bucket_i[i] \in Bucket
<1>1. i \in Active
  BY Zenon DEF TypeInv, Threads
<1> QED
  BY Zenon, <1>1, ActiveFacts DEF TypeInv, TypeOK

\* The types hold for a new table.
LEMMA TypeInvInit == Init => TypeInv
<1> SUFFICES ASSUME Init PROVE TypeInv
  OBVIOUS
<1>1. 0 \in Bucket
  BY TableConstants DEF Bucket
<1>2. TypeOK
  <2>1. /\ hashes \in [Bucket -> Nat] /\ lens \in [Bucket -> Nat] /\ pointers \in [Bucket -> Nat]
        /\ str_buf_sz \in 0..str_buf_max_sz
        /\ new_strings_lens \in [Bucket -> Nat] /\ new_strings_offsets \in [Bucket -> Nat]
    BY TableConstants DEF Init, EmptyHash, EmptyLen, Null
  <2>2. str_buf \in [0..(str_buf_max_sz - 1) -> (Key \X Nat) \cup {NoWord}]
    BY Zenon DEF Init
  <2>3. /\ pc \in [Row -> Label] /\ bucket_i \in [Row -> Bucket] /\ ptr \in [Row -> Nat]
        /\ our_string \in [Row -> BOOLEAN] /\ res_buckets \in [Row -> Bucket \cup {NoBucket}]
    BY Zenon, <1>1 DEF Init, Label, Null
  <2> QED
    BY Zenon, <2>1, <2>2, <2>3 DEF Init, TypeOK
<1>3. Threads
  BY Zenon DEF Init, Threads, Active
<1> QED
  BY Zenon, <1>2, <1>3 DEF TypeInv

\* Probing keeps the registers well-typed.
LEMMA ProbeType ==
    ASSUME TypeInv, NEW i \in Row, pc[i] # "done", phase = "kerAddData", Probe(i),
           UNCHANGED <<strings, new_strings_offsets, batch, phase>>
    PROVE  TypeInv'
<1>1. i \in Active /\ bucket_i[i] \in Bucket
  BY Zenon, KernelRow
<1>2. NextBucket(bucket_i[i]) \in Bucket
  BY Zenon, <1>1, NextBucketFacts
<1>3. /\ bucket_i' \in [Row -> Bucket]
      /\ table_is_full' \in BOOLEAN
      /\ \E l \in {"hash", "full"} : pc' = [pc EXCEPT ![i] = l]
  BY Zenon, <1>2 DEF Probe, TypeInv, TypeOK
<1>4. TypeOK'
  BY Zenon, <1>3 DEF Probe, TypeInv, TypeOK, Label, table, strings
<1>5. Threads'
  BY <1>1, <1>3 DEF Probe, TypeInv, TypeOK, Threads, Active, Working
<1> QED
  BY Zenon, <1>4, <1>5 DEF TypeInv

\* A thread that only changes its label keeps the types.
LEMMA GotoType ==
    ASSUME TypeInv, NEW i \in Row, pc[i] # "done", phase = "kerAddData",
           NEW l \in Working, Goto(i, l), UNCHANGED <<strings, new_strings_offsets, batch, phase>>
    PROVE  TypeInv'
<1>1. i \in Active
  BY Zenon, KernelRow
<1>2. TypeOK'
  BY Zenon DEF Goto, TypeInv, TypeOK, Label, Working, table, strings
<1>3. Threads'
  BY <1>1 DEF Goto, TypeInv, TypeOK, Threads, Active, Working
<1> QED
  BY Zenon, <1>2, <1>3 DEF TypeInv

\* Every step of kerAddData keeps the types.
LEMMA KernelType ==
    ASSUME TypeInv, NEW i \in Row, kerAddData(i)
    PROVE  TypeInv'
<1>1. phase = "kerAddData" /\ UNCHANGED <<strings, new_strings_offsets, batch, phase>>
  BY Zenon DEF kerAddData
<1>2. pc[i] # "done"
  BY Zenon DEF kerAddData, ReadHash, CasHash, ReadLen, CasLen, ReadPtr, CasPtr, Compare
<1>3. i \in Active /\ i \in DOMAIN batch /\ batch[i] \in Key /\ bucket_i[i] \in Bucket
  BY Zenon, <1>2, KernelRow
<1>4. /\ HashOf(batch[i]) \in Nat
      /\ ByteLen[batch[i]] \in Nat
      /\ ReservedLen(batch[i]) \in Nat
  BY Zenon, <1>3, HashFacts, LenFacts
<1>5. ASSUME NEW l \in Working, Goto(i, l)
      PROVE  TypeInv'
  BY Zenon, <1>1, <1>2, <1>5, GotoType
<1>6. ASSUME Probe(i)
      PROVE  TypeInv'
  BY Zenon, <1>1, <1>2, <1>6, ProbeType
<1>7. CASE ReadHash(i)
  BY Zenon, <1>5, <1>6, <1>7 DEF ReadHash, Working
<1>8. CASE CasHash(i)
  <2>1. CASE /\ hashes' = [hashes EXCEPT ![bucket_i[i]] = HashOf(batch[i])]
             /\ pc' = [pc EXCEPT ![i] = "len"]
             /\ UNCHANGED <<lens, pointers, bucket_i, ptr, our_string, table_is_full, res_buckets,
                            new_strings_lens>>
    <3>1. TypeOK'
      BY Zenon, <1>1, <1>3, <1>4, <2>1 DEF TypeInv, TypeOK, Label, strings
    <3>2. Threads'
      BY <1>1, <1>3, <2>1 DEF TypeInv, TypeOK, Threads, Active, Working
    <3> QED
      BY Zenon, <3>1, <3>2 DEF TypeInv
  <2> QED
    BY Zenon, <1>5, <1>6, <1>8, <2>1 DEF CasHash, Working
<1>9. CASE ReadLen(i)
  BY Zenon, <1>5, <1>6, <1>9 DEF ReadLen, Working
<1>10. CASE CasLen(i)
  <2>1. CASE /\ lens' = [lens EXCEPT ![bucket_i[i]] = ByteLen[batch[i]]]
             /\ pc' = [pc EXCEPT ![i] = "ptr"]
             /\ UNCHANGED <<hashes, pointers, bucket_i, ptr, our_string, table_is_full, res_buckets,
                            new_strings_lens>>
    <3>1. TypeOK'
      BY Zenon, <1>1, <1>3, <1>4, <2>1 DEF TypeInv, TypeOK, Label, strings
    <3>2. Threads'
      BY <1>1, <1>3, <2>1 DEF TypeInv, TypeOK, Threads, Active, Working
    <3> QED
      BY Zenon, <3>1, <3>2 DEF TypeInv
  <2> QED
    BY Zenon, <1>5, <1>6, <1>10, <2>1 DEF CasLen, Working
<1>11. CASE ReadPtr(i)
  <2>1. PICK p \in Nat :
             /\ ptr' = [ptr EXCEPT ![i] = p]
             /\ pc' = [pc EXCEPT ![i] = IF p = Null THEN "ptrCAS" ELSE "compare"]
    <3>1. Loads(bucket_i[i], pointers[bucket_i[i]], Null) \subseteq Nat
      BY <1>3 DEF Loads, TypeInv, TypeOK, Null
    <3> QED
      BY Zenon, <1>11, <3>1 DEF ReadPtr
  <2>2. UNCHANGED <<table, bucket_i, our_string, table_is_full, res_buckets, new_strings_lens>>
    BY Zenon, <1>11 DEF ReadPtr
  <2>3. TypeOK'
    BY Zenon, <1>1, <2>1, <2>2 DEF TypeInv, TypeOK, Label, strings, table
  <2>4. Threads'
    BY <1>1, <1>3, <2>1 DEF TypeInv, TypeOK, Threads, Active, Working
  <2> QED
    BY Zenon, <2>3, <2>4 DEF TypeInv
<1>12. CASE CasPtr(i)
  <2>1. RowPtr(i) \in Nat /\ pointers[bucket_i[i]] \in Nat
    BY <1>3, TableConstants DEF RowPtr, Row, TypeInv, TypeOK
  <2>2. /\ pointers' \in [Bucket -> Nat]
        /\ ptr' \in [Row -> Nat]
        /\ our_string' \in [Row -> BOOLEAN]
    BY Zenon, <1>12, <2>1 DEF CasPtr, TypeInv, TypeOK
  <2>3. TypeOK'
    BY Zenon, <1>1, <1>12, <2>2 DEF CasPtr, TypeInv, TypeOK, Label, strings
  <2>4. Threads'
    BY <1>1, <1>3, <1>12 DEF CasPtr, TypeInv, TypeOK, Threads, Active, Working
  <2> QED
    BY Zenon, <2>3, <2>4 DEF TypeInv
<1>13. CASE Compare(i)
  <2>1. CASE Probe(i)
    BY Zenon, <1>6, <2>1
  <2>2. CASE /\ res_buckets' = [res_buckets EXCEPT ![i] = bucket_i[i]]
             /\ new_strings_lens' = IF our_string[i]
                   THEN [new_strings_lens EXCEPT ![bucket_i[i]] = ReservedLen(batch[i])]
                   ELSE new_strings_lens
             /\ pc' = [pc EXCEPT ![i] = "done"]
             /\ UNCHANGED <<table, bucket_i, ptr, our_string, table_is_full>>
    <3>1. TypeOK'
      BY Zenon, <1>1, <1>3, <1>4, <2>2 DEF TypeInv, TypeOK, Label, strings, table
    <3>2. Threads'
      BY <1>1, <1>3, <2>2 DEF TypeInv, TypeOK, Threads, Active, Working
    <3> QED
      BY Zenon, <3>1, <3>2 DEF TypeInv
  <2> QED
    BY Zenon, <1>13, <2>1, <2>2 DEF Compare
<1> QED
  BY Zenon, <1>7, <1>8, <1>9, <1>10, <1>11, <1>12, <1>13 DEF kerAddData

\* A launch, by addData or mergeToOtherTable, keeps the types.
LEMMA LaunchType ==
    ASSUME TypeInv, NEW rows \in Batches, addData(rows) \/ mergeToOtherTable(rows)
    PROVE  TypeInv'
<1>1. Launch(rows)
  BY Zenon DEF addData, mergeToOtherTable, kerFillEmptyResBucket
<1>2. \A i \in DOMAIN rows : i \in Row /\ rows[i] \in Key \cup {NoKey}
  BY Zenon, BatchFacts
<1>3. 0 \in Bucket
  BY TableConstants DEF Bucket
<1>4. bucket_i' \in [Row -> Bucket]
  BY Zenon, <1>1, <1>2, <1>3, HashFacts DEF Launch, kerFillZero
<1>5. pc' \in [Row -> Label]
  BY Zenon, <1>1 DEF Launch, kerFillZero, Label
<1>6. res_buckets' \in [Row -> Bucket \cup {NoBucket}]
  BY Zenon DEF addData, mergeToOtherTable, kerFillEmptyResBucket, TypeInv, TypeOK
<1>7. TypeOK'
  BY Zenon, <1>1, <1>4, <1>5, <1>6 DEF Launch, kerFillZero, TypeInv, TypeOK, Null, table, strings
<1>8. Threads'
  BY Zenon, <1>1, <1>2 DEF Launch, kerFillZero, Threads, Active, Working
<1> QED
  BY Zenon, <1>7, <1>8 DEF TypeInv

\* Erasing keeps the types.
LEMMA EraseType ==
    ASSUME TypeInv, erase
    PROVE  TypeInv'
<1>1. 0 \in Bucket
  BY TableConstants DEF Bucket
<1>2. TypeOK'
  <2>1. /\ hashes' \in [Bucket -> Nat] /\ lens' \in [Bucket -> Nat]
        /\ pointers' \in [Bucket -> Nat] /\ str_buf_sz' \in 0..str_buf_max_sz
        /\ new_strings_lens' \in [Bucket -> Nat] /\ new_strings_offsets' \in [Bucket -> Nat]
    BY TableConstants DEF erase, kerErase, EmptyHash, EmptyLen, Null
  <2>2. str_buf' \in [0..(str_buf_max_sz - 1) -> (Key \X Nat) \cup {NoWord}]
    BY Zenon DEF erase, kerErase
  <2>3. res_buckets' \in [Row -> Bucket \cup {NoBucket}]
    BY Zenon, <1>1 DEF erase, kerErase
  <2> QED
    BY Zenon, <2>1, <2>2, <2>3 DEF erase, kerErase, TypeInv, TypeOK, regs
<1>3. Threads'
  BY Zenon DEF erase, kerErase, TypeInv, Threads, Active, regs
<1> QED
  BY Zenon, <1>2, <1>3 DEF TypeInv

\* The scan keeps the types.
LEMMA ScanType ==
    ASSUME ExclusiveSums, TypeInv, Scan
    PROVE  TypeInv'
<1>1. 0 \in Bucket
  BY TableConstants DEF Bucket
<1>2. new_strings_offsets' \in [Bucket -> Nat]
  BY Zenon DEF ExclusiveSums, Scan, TypeInv, TypeOK
<1>3. pc' \in [Row -> Label]
  BY Zenon DEF Scan, TypeInv, TypeOK, Label
<1>4. TypeOK'
  BY Zenon, <1>1, <1>2, <1>3 DEF Scan, TypeInv, TypeOK, Null, table, strings
<1>5. Threads'
  BY Zenon, ActiveFacts DEF Scan, TypeInv, Threads, Active
<1> QED
  BY Zenon, <1>4, <1>5 DEF TypeInv

\* Copying a string keeps the types.
LEMMA CopyType ==
    ASSUME TypeInv, NEW i \in Row, kerCopyAddedStrings(i)
    PROVE  TypeInv'
<1> DEFINE b == res_buckets[i]
           k == batch[i]
           a == CopyAddress(b)
<1>1. pc[i] = "copy" /\ i \in Active /\ batch[i] \in Key /\ phase = "kerCopyAddedStrings"
  BY Zenon, KernelRow DEF kerCopyAddedStrings
<1>2. pc' = [pc EXCEPT ![i] = "done"]
  BY Zenon DEF kerCopyAddedStrings
<1>3. Threads'
  BY <1>1, <1>2 DEF kerCopyAddedStrings, TypeInv, TypeOK, Threads, Active
<1>4. CASE b \in Bucket /\ pointers[b] = RowPtr(i)
  <2>1. a \in Nat /\ StrPtr(a) \in Nat
    <3>1. new_strings_offsets[b] \in Nat /\ str_buf_sz \in Nat
      BY <1>4, TableConstants DEF TypeInv, TypeOK
    <3> QED
      BY <3>1, TableConstants DEF CopyAddress, StrPtr
  <2>2. /\ str_buf' = [x \in DOMAIN str_buf |-> IF x \in a..(a + StoredLen(k) - 1)
                                                  THEN <<k, x - a>> ELSE str_buf[x]]
        /\ overrun' = (overrun \/ a + StoredLen(k) > str_buf_max_sz)
        /\ pointers' = [pointers EXCEPT ![b] = StrPtr(a)]
    BY Zenon, <1>4 DEF kerCopyAddedStrings
  <2>3. \A x \in a..(a + StoredLen(k) - 1) : <<k, x - a>> \in Key \X Nat
    BY <1>1, <2>1, LenFacts
  <2>4. str_buf' \in [0..(str_buf_max_sz - 1) -> (Key \X Nat) \cup {NoWord}]
    <3> HIDE DEF a, k
    <3> QED
      BY Zenon, <2>2, <2>3 DEF TypeInv, TypeOK
  <2>5. pointers' \in [Bucket -> Nat] /\ overrun' \in BOOLEAN
    BY Zenon, <2>1, <2>2 DEF TypeInv, TypeOK
  <2>6. TypeOK'
    BY Zenon, <1>2, <2>4, <2>5 DEF kerCopyAddedStrings, TypeInv, TypeOK, Label, scan
  <2> QED
    BY Zenon, <1>3, <2>6 DEF TypeInv
<1>5. CASE ~(b \in Bucket /\ pointers[b] = RowPtr(i))
  <2>1. UNCHANGED <<str_buf, overrun, pointers>>
    BY Zenon, <1>5 DEF kerCopyAddedStrings
  <2>2. TypeOK'
    BY Zenon, <1>2, <2>1 DEF kerCopyAddedStrings, TypeInv, TypeOK, Label, scan
  <2> QED
    BY Zenon, <1>3, <2>2 DEF TypeInv
<1> QED
  BY Zenon, <1>4, <1>5

\* The host part of addData keeps the types.
LEMMA FinishType ==
    ASSUME TypeInv, Finish
    PROVE  TypeInv'
<1>1. TotalAddedLen \in Nat
  BY TableConstants DEF TotalAddedLen, TypeInv, TypeOK, Bucket
<1>2. str_buf_sz' \in 0..str_buf_max_sz
  BY <1>1, TableConstants DEF Finish, AddFails, StringsFit, TypeInv, TypeOK
<1>3. TypeOK'
  BY Zenon, <1>2 DEF Finish, TypeInv, TypeOK, table, scan, regs
<1>4. Threads'
  BY Zenon DEF Finish, TypeInv, Threads, Active, regs
<1> QED
  BY Zenon, <1>3, <1>4 DEF TypeInv

\* Stuttering keeps the types.
LEMMA StutterType ==
    ASSUME TypeInv, UNCHANGED vars
    PROVE  TypeInv'
  BY Zenon DEF TypeInv, TypeOK, Threads, Active, vars, table, strings, scan, regs

\* Every step keeps the types.
LEMMA TypeInvStep ==
    ASSUME ExclusiveSums, TypeInv, [Next]_vars
    PROVE  TypeInv'
  BY Zenon, EraseType, LaunchType, KernelType, ScanType, CopyType, FinishType, StutterType DEF Next

-----------------------------------------------------------------------------
(***************************************************************************)
(* The search paths.                                                       *)
(***************************************************************************)
\* Going on from a bucket that rejects the key extends the path.
LEMMA PathExtends ==
    ASSUME NEW h, NEW l, NEW own, NEW k \in Key, NEW b \in Bucket,
           PathTo(h, l, own, k, b), Rejects(h, l, own, b, k), NextBucket(b) # Home(k)
    PROVE  PathTo(h, l, own, k, NextBucket(b))
<1>1. Between(Home(k), NextBucket(b)) \subseteq Between(Home(k), b) \cup {b}
  BY Zenon, HashFacts, BetweenStep
<1> QED
  BY Zenon, <1>1 DEF PathTo

\* No bucket is passed before the home bucket.
LEMMA PathStarts ==
    ASSUME NEW h, NEW l, NEW own, NEW k \in Key
    PROVE  PathTo(h, l, own, k, Home(k))
  BY Zenon, HashFacts, BetweenHome DEF PathTo

\* Two paths of one key cannot end in different buckets that take the key.
LEMMA PathsMeet ==
    ASSUME NEW h, NEW l, NEW own, NEW k \in Key, NEW b \in Bucket, NEW c \in Bucket,
           PathTo(h, l, own, k, b), ~Rejects(h, l, own, b, k),
           PathTo(h, l, own, k, c), ~Rejects(h, l, own, c, k)
    PROVE  b = c
<1> SUFFICES ASSUME b # c PROVE FALSE
  OBVIOUS
<1>1. b \in Between(Home(k), c) \/ c \in Between(Home(k), b)
  BY Zenon, HashFacts, BetweenTotal
<1> QED
  BY Zenon, <1>1 DEF PathTo
-----------------------------------------------------------------------------
(***************************************************************************)
(* Steps of kerAddData.                                                    *)
(***************************************************************************)
\* A step of row i that claims at most a hash or a length, and touches nothing
\* of other rows.
LEMMA KernelFrame ==
    ASSUME TypeInv, TypeInv', phase = "kerAddData", NEW own \in OwnerFun, Owned(own), NEW i \in Active,
           UNCHANGED <<strings, new_strings_offsets, batch, phase, pointers, res_buckets,
                       new_strings_lens>>,
           \A c \in Bucket : /\ hashes[c] # EmptyHash => hashes'[c] = hashes[c]
                             /\ lens[c] # EmptyLen => lens'[c] = lens[c],
           \A j \in Row \ {i} : /\ pc'[j] = pc[j]
                                /\ bucket_i'[j] = bucket_i[j]
                                /\ ptr'[j] = ptr[j]
                                /\ our_string'[j] = our_string[j],
           table_is_full => table_is_full',
           \A b \in Bucket : pointers[b] # i,
           Thread(own, i)'
    PROVE  Owned(own)'
<1>1. Active' = Active /\ Active \subseteq Row /\ \A j \in Active : batch[j] \in Key
  BY Zenon, ActiveFacts DEF Active, TypeInv
<1>2. ASSUME NEW k \in Key, NEW b \in Bucket, PathTo(hashes, lens, own, k, b)
      PROVE  PathTo(hashes', lens', own, k, b)
  <2>1. \A c \in Between(Home(k), b) : c \in Bucket /\ Rejects(hashes, lens, own, c, k)
    BY Zenon, <1>2, HashFacts, BetweenBuckets DEF PathTo
  <2> QED
    BY Zenon, <2>1 DEF PathTo, Rejects
<1>3. Owners(own)'
  <2> SUFFICES ASSUME NEW b \in Bucket
               PROVE  /\ pointers[b] = Null <=> own[b] = NoKey
                      /\ own[b] # NoKey =>
                           /\ hashes'[b] = HashOf(own[b])
                           /\ lens'[b] = ByteLen[own[b]]
                           /\ PathTo(hashes', lens', own, own[b], b)
    BY Zenon DEF Owners
  <2>1. /\ pointers[b] = Null <=> own[b] = NoKey
        /\ own[b] # NoKey => /\ hashes[b] = HashOf(own[b])
                             /\ lens[b] = ByteLen[own[b]]
                             /\ PathTo(hashes, lens, own, own[b], b)
    BY Zenon DEF Owned, Owners
  <2>2. own[b] \in Key \cup {NoKey}
    BY Zenon DEF OwnerFun
  <2> QED
    BY Zenon, <1>2, <2>1, <2>2, HashFacts
<1>4. Distinct(own)'
  BY Zenon DEF Owned, Distinct
<1>5. ASSUME NEW j \in Active
      PROVE  Thread(own, j)'
  <2>1. CASE j = i
    BY Zenon, <2>1
  <2>2. CASE j # i
    <3>1. Thread(own, j)
      BY Zenon DEF Owned
    <3>2. j \in Row \ {i} /\ batch[j] \in Key /\ bucket_i[j] \in Bucket
      BY Zenon, <1>1, <2>2 DEF TypeInv, TypeOK
    <3>3. /\ hashes[bucket_i[j]] = HashOf(batch[j]) => hashes'[bucket_i[j]] = HashOf(batch[j])
          /\ lens[bucket_i[j]] = ByteLen[batch[j]] => lens'[bucket_i[j]] = ByteLen[batch[j]]
      BY Zenon, <3>2, HashFacts
    <3>4. PathTo(hashes, lens, own, batch[j], bucket_i[j]) =>
              PathTo(hashes', lens', own, batch[j], bucket_i[j])
      BY Zenon, <1>2, <3>2
    <3> QED
      BY Zenon, <3>1, <3>2, <3>3, <3>4 DEF Thread, RowPtr
  <2> QED
    BY Zenon, <2>1, <2>2
<1>6. ASSUME NEW b \in Bucket, pointers[b] \in Row
      PROVE  RowPointer(own, b)'
  <2>1. RowPointer(own, b) /\ pointers[b] \in Row \ {i}
    BY Zenon, <1>6 DEF Owned
  <2> QED
    BY Zenon, <1>1, <2>1 DEF RowPointer
<1>7. ASSUME NEW b \in Bucket, InStrBuf(pointers[b])
      PROVE  StrPointer(own, b)'
  <2>1. StrPointer(own, b)
    BY Zenon, <1>7 DEF Owned
  <2> QED
    BY Zenon, <2>1 DEF StrPointer, strings, StrAddr
<1> QED
  BY Zenon, <1>1, <1>3, <1>4, <1>5, <1>6, <1>7 DEF Owned, InStrBuf

\* A row that is still searching has no string in the table.
LEMMA SearchingRow ==
    ASSUME TypeInv, phase = "kerAddData", NEW own \in OwnerFun, Owned(own), NEW i \in Active,
           \/ pc[i] \in Working \ {"compare"}
           \/ pc[i] = "compare" /\ ~StringAt(ptr[i], batch[i])
    PROVE  (\A b \in Bucket : pointers[b] # i) /\ ~our_string[i]
<1>1. i \in Row /\ i \in DOMAIN batch /\ bucket_i[i] \in Bucket
  BY Zenon, ActiveFacts DEF TypeInv, TypeOK
<1>2. Thread(own, i)
  BY Zenon DEF Owned
<1>3. ASSUME NEW b \in Bucket, pointers[b] = i
      PROVE  FALSE
  <2>1. RowPointer(own, b)
    BY Zenon, <1>1, <1>3 DEF Owned
  <2>2. pc[i] = "compare" /\ bucket_i[i] = b
    BY Zenon, <1>3, <2>1 DEF RowPointer, Working
  <2>3. ptr[i] = i
    BY Zenon, <1>2, <1>3, <2>2 DEF Thread
  <2>4. ~InStrBuf(i)
    BY <1>1, TableConstants DEF InStrBuf, Row
  <2> QED
    BY Zenon, <1>1, <2>2, <2>3, <2>4 DEF StringAt, Working
<1>4. ~our_string[i]
  BY Zenon, <1>1, <1>2, <1>3 DEF Thread, Working, RowPtr
<1> QED
  BY Zenon, <1>3, <1>4

\* A thread that leaves a bucket that rejects its key keeps the invariant.
LEMMA ProbeInv ==
    ASSUME TypeInv, phase = "kerAddData", NEW own \in OwnerFun, Owned(own), NEW i \in Active,
           pc[i] \in Working,
           \A b \in Bucket : pointers[b] # i, ~our_string[i],
           Rejects(hashes, lens, own, bucket_i[i], batch[i]),
           Probe(i), UNCHANGED <<strings, new_strings_offsets, batch, phase>>
    PROVE  Owned(own)'
<1> DEFINE b == bucket_i[i]
           k == batch[i]
<1>1. i \in Row /\ k \in Key /\ b \in Bucket
  BY Zenon, ActiveFacts DEF TypeInv, TypeOK
<1>2. TypeInv'
  BY Zenon, <1>1, ProbeType DEF Working
<1>3. Thread(own, i)
  BY Zenon DEF Owned
<1>4. /\ bucket_i' = [bucket_i EXCEPT ![i] = NextBucket(b)]
      /\ IF NextBucket(b) = Home(k)
           THEN table_is_full' = TRUE /\ pc' = [pc EXCEPT ![i] = "full"]
           ELSE table_is_full' = table_is_full /\ pc' = [pc EXCEPT ![i] = "hash"]
      /\ UNCHANGED <<hashes, lens, pointers, ptr, our_string, res_buckets, new_strings_lens>>
  BY Zenon DEF Probe, TriedAll, table
<1>5. NextBucket(b) # Home(k) => PathTo(hashes, lens, own, k, NextBucket(b))
  BY Zenon, <1>1, <1>3, PathExtends DEF Thread
<1>6. Thread(own, i)'
  <2>1. bucket_i'[i] = NextBucket(b) /\ pc'[i] \in {"hash", "full"}
    BY Zenon, <1>1, <1>4 DEF TypeInv, TypeOK
  <2>2. pc'[i] = "hash" => PathTo(hashes', lens', own, batch'[i], bucket_i'[i])
    BY Zenon, <1>1, <1>4, <1>5, <2>1 DEF TypeInv, TypeOK
  <2>3. pc'[i] = "full" => table_is_full'
    BY Zenon, <1>1, <1>4 DEF TypeInv, TypeOK
  <2> QED
    BY Zenon, <1>4, <2>1, <2>2, <2>3 DEF Thread, Working, HashFits, LenFits
<1>7. /\ \A c \in Bucket : /\ hashes[c] # EmptyHash => hashes'[c] = hashes[c]
                           /\ lens[c] # EmptyLen => lens'[c] = lens[c]
      /\ \A j \in Row \ {i} : /\ pc'[j] = pc[j]
                              /\ bucket_i'[j] = bucket_i[j]
                              /\ ptr'[j] = ptr[j]
                              /\ our_string'[j] = our_string[j]
      /\ table_is_full => table_is_full'
  BY Zenon, <1>1, <1>4 DEF TypeInv, TypeOK
<1> QED
  BY Zenon, <1>2, <1>4, <1>6, <1>7, KernelFrame

\* The row stays at its bucket and learns what the label says.
LEMMA MoveInv ==
    ASSUME TypeInv, TypeInv', phase = "kerAddData", NEW own \in OwnerFun, Owned(own), NEW i \in Active,
           pc[i] \in Working \ {"compare"},
           NEW l \in Working, pc' = [pc EXCEPT ![i] = l],
           \A c \in Bucket : /\ hashes[c] # EmptyHash => hashes'[c] = hashes[c]
                             /\ lens[c] # EmptyLen => lens'[c] = lens[c],
           \A j \in Row \ {i} : ptr'[j] = ptr[j],
           l \in HashFits => hashes'[bucket_i[i]] = HashOf(batch[i]),
           l \in LenFits => lens'[bucket_i[i]] = ByteLen[batch[i]],
           l = "compare" => ptr'[i] = pointers[bucket_i[i]] /\ ptr'[i] # Null,
           UNCHANGED <<strings, new_strings_offsets, batch, phase, pointers, bucket_i, our_string,
                       res_buckets, new_strings_lens, table_is_full>>
    PROVE  Owned(own)'
<1> DEFINE b == bucket_i[i]
           k == batch[i]
<1>1. i \in Row /\ k \in Key /\ b \in Bucket
  BY Zenon, ActiveFacts DEF TypeInv, TypeOK
<1>2. (\A c \in Bucket : pointers[c] # i) /\ ~our_string[i]
  BY Zenon, SearchingRow
<1>3. Thread(own, i)
  BY Zenon DEF Owned
<1>4. PathTo(hashes', lens', own, k, b)
  <2>1. \A c \in Between(Home(k), b) : c \in Bucket /\ Rejects(hashes, lens, own, c, k)
    BY Zenon, <1>1, <1>3, HashFacts, BetweenBuckets DEF Thread, PathTo
  <2> QED
    BY Zenon, <2>1 DEF PathTo, Rejects
<1>5. pc'[i] = l /\ \A j \in Row \ {i} : pc'[j] = pc[j]
  BY Zenon, <1>1 DEF TypeInv, TypeOK
<1>6. Thread(own, i)'
  BY Zenon, <1>2, <1>4, <1>5 DEF Thread, Working
<1> QED
  BY Zenon, <1>2, <1>5, <1>6, KernelFrame

\* The string that is found in a bucket is its owner's.
LEMMA HoldsOwner ==
    ASSUME TypeInv, NEW own \in OwnerFun, Owned(own), NEW b \in Bucket, NEW k \in Key, Holds(b, k)
    PROVE  own[b] = k
<1>1. pointers[b] \in Nat /\ pointers[b] # Null /\ own[b] \in Key
  BY Zenon DEF TypeInv, TypeOK, Holds, Owned, Owners, OwnerFun
<1>2. CASE InStrBuf(pointers[b])
  <2> DEFINE a == StrAddr(pointers[b])
  <2>1. StrPointer(own, b)
    BY Zenon, <1>2 DEF Owned
  <2>2. StoredLen(k) \in Nat \ {0} /\ StoredLen(own[b]) \in Nat \ {0}
    BY Zenon, <1>1, LenFacts
  <2>3. a \in Nat
    BY <1>1, <1>2, TableConstants DEF InStrBuf, StrAddr
  <2>4. a + StoredLen(k) <= str_buf_max_sz /\ str_buf[a + 0] = <<k, 0>>
    BY <1>2, <2>2 DEF Holds, StringAt
  <2>5. a + 0 < str_buf_max_sz
    BY <2>2, <2>3, <2>4, TableConstants
  <2>6. str_buf[a + 0] = <<own[b], 0>>
    BY <2>1, <2>2, <2>5 DEF StrPointer
  <2>7. <<k, 0>> = <<own[b], 0>>
    BY Zenon, <2>4, <2>6
  <2> QED
    BY Zenon, <2>7
<1>3. CASE ~InStrBuf(pointers[b])
  <2>1. pointers[b] \in Row
    BY <1>1, <1>3, TableConstants DEF InStrBuf, Row, Null
  <2> QED
    BY Zenon, <1>3, <2>1 DEF Owned, RowPointer, Holds, StringAt
<1> QED
  BY Zenon, <1>2, <1>3

\* The string of a bucket's owner is found there, unless it was cut off.
LEMMA OwnerHolds ==
    ASSUME TypeInv, NEW own \in OwnerFun, Owned(own), NEW b \in Bucket, own[b] # NoKey,
           phase \in {"idle", "kerAddData"} \/ ~overrun
    PROVE  own[b] \in Key /\ Holds(b, own[b])
<1>1. pointers[b] \in Nat /\ pointers[b] # Null /\ own[b] \in Key
  BY Zenon DEF TypeInv, TypeOK, Owned, Owners, OwnerFun
<1>2. CASE InStrBuf(pointers[b])
  <2> DEFINE a == StrAddr(pointers[b])
             n == StoredLen(own[b])
  <2>1. StrPointer(own, b)
    BY Zenon, <1>2 DEF Owned
  <2>2. n \in Nat \ {0}
    BY Zenon, <1>1, LenFacts
  <2>3. a \in Nat
    BY <1>1, <1>2, TableConstants DEF InStrBuf, StrAddr
  <2>4. str_buf_sz \in Nat /\ str_buf_sz <= str_buf_max_sz
    BY TableConstants DEF TypeInv, TypeOK
  <2>5. a + n <= str_buf_max_sz
    <3>1. a + n <= str_buf_sz \/ a + n <= str_buf_max_sz
      BY Zenon, <2>1 DEF StrPointer
    <3> QED
      BY <2>2, <2>3, <2>4, <3>1, TableConstants
  <2>6. \A w \in 0..(n - 1) : a + w < str_buf_max_sz
    BY <2>2, <2>3, <2>5, TableConstants
  <2>7. \A w \in 0..(n - 1) : str_buf[a + w] = <<own[b], w>>
    BY Zenon, <2>1, <2>6 DEF StrPointer
  <2> QED
    BY Zenon, <1>1, <1>2, <2>5, <2>7 DEF Holds, StringAt
<1>3. CASE ~InStrBuf(pointers[b])
  <2>1. pointers[b] \in Row
    BY <1>1, <1>3, TableConstants DEF InStrBuf, Row, Null
  <2>2. RowPointer(own, b)
    BY Zenon, <2>1 DEF Owned
  <2>3. pointers[b] \in DOMAIN batch /\ batch[pointers[b]] = own[b]
    BY Zenon, <2>2 DEF RowPointer, Active
  <2> QED
    BY Zenon, <1>1, <1>3, <2>3 DEF Holds, StringAt
<1> QED
  BY Zenon, <1>2, <1>3

\* The atomicCAS that makes row i's string the string of its bucket.  No other
\* bucket has this string: the two search paths would have met.
LEMMA ClaimInv ==
    ASSUME TypeInv, phase = "kerAddData", NEW own \in OwnerFun, Owned(own), NEW i \in Active,
           pc[i] = "ptrCAS", pointers[bucket_i[i]] = Null, CasPtr(i),
           UNCHANGED <<strings, new_strings_offsets, batch, phase>>
    PROVE  \E new \in OwnerFun : Owned(new)' /\ Extends(own, new)
<1> DEFINE b == bucket_i[i]
           k == batch[i]
<1>1. i \in Row /\ k \in Key /\ b \in Bucket /\ i # Null
  <2>1. i \in Row /\ k \in Key /\ b \in Bucket
    BY Zenon, ActiveFacts DEF TypeInv, TypeOK
  <2> QED
    BY <2>1, TableConstants DEF Row, Null
<1>2. Thread(own, i)
  BY Zenon DEF Owned
<1>3. (\A c \in Bucket : pointers[c] # i) /\ ~our_string[i]
  BY Zenon, SearchingRow DEF Working
<1>4. /\ hashes[b] = HashOf(k) /\ lens[b] = ByteLen[k]
      /\ PathTo(hashes, lens, own, k, b)
  BY Zenon, <1>2 DEF Thread, HashFits, LenFits, Working
<1>5. own[b] = NoKey
  BY Zenon, <1>1 DEF Owned, Owners
<1>6. /\ pointers' = [pointers EXCEPT ![b] = i]
      /\ ptr' = [ptr EXCEPT ![i] = i]
      /\ our_string' = [our_string EXCEPT ![i] = TRUE]
      /\ pc' = [pc EXCEPT ![i] = "compare"]
      /\ UNCHANGED <<hashes, lens, bucket_i, table_is_full, res_buckets, new_strings_lens>>
  BY Zenon DEF CasPtr, RowPtr
<1>7. PICK new \in OwnerFun : new = [own EXCEPT ![b] = k]
  BY Zenon, <1>1 DEF OwnerFun
<1>8. new[b] = k /\ \A c \in Bucket \ {b} : new[c] = own[c]
  BY Zenon, <1>1, <1>7 DEF OwnerFun
<1>9. pointers'[b] = i /\ \A c \in Bucket \ {b} : pointers'[c] = pointers[c]
  BY Zenon, <1>1, <1>6 DEF TypeInv, TypeOK
<1>10. ASSUME NEW m \in Key, NEW c \in Bucket, PathTo(hashes, lens, own, m, c)
       PROVE  PathTo(hashes, lens, new, m, c)
  <2>1. \A d \in Between(Home(m), c) : d \in Bucket /\ Rejects(hashes, lens, own, d, m)
    BY Zenon, <1>10, HashFacts, BetweenBuckets DEF PathTo
  <2> QED
    BY Zenon, <1>5, <1>8, <2>1 DEF PathTo, Rejects
<1>11. Active' = Active /\ Active \subseteq Row /\ \A j \in Active : batch[j] \in Key
  BY Zenon, ActiveFacts DEF Active, TypeInv
<1>12. Owners(new)'
  <2> SUFFICES ASSUME NEW c \in Bucket
               PROVE  /\ pointers'[c] = Null <=> new[c] = NoKey
                      /\ new[c] # NoKey => /\ hashes[c] = HashOf(new[c])
                                           /\ lens[c] = ByteLen[new[c]]
                                           /\ PathTo(hashes, lens, new, new[c], c)
    BY Zenon, <1>6 DEF Owners
  <2>1. CASE c = b
    BY Zenon, <1>1, <1>4, <1>8, <1>9, <1>10, <2>1, TableConstants
  <2>2. CASE c # b
    <3>1. /\ pointers[c] = Null <=> own[c] = NoKey
          /\ own[c] # NoKey => /\ hashes[c] = HashOf(own[c])
                               /\ lens[c] = ByteLen[own[c]]
                               /\ PathTo(hashes, lens, own, own[c], c)
      BY Zenon DEF Owned, Owners
    <3>2. own[c] \in Key \cup {NoKey} /\ new[c] = own[c] /\ pointers'[c] = pointers[c]
      BY Zenon, <1>8, <1>9, <2>2 DEF OwnerFun
    <3> QED
      BY Zenon, <1>10, <3>1, <3>2
  <2> QED
    BY Zenon, <2>1, <2>2
<1>13. Distinct(new)'
  <2>1. ASSUME NEW c \in Bucket, c # b
        PROVE  own[c] # k
    <3> SUFFICES ASSUME own[c] = k PROVE FALSE
      OBVIOUS
    <3>1. own[c] # NoKey
      BY Zenon, <1>1, TableConstants
    <3>2. hashes[c] = HashOf(k) /\ lens[c] = ByteLen[k] /\ PathTo(hashes, lens, own, k, c)
      BY Zenon, <3>1 DEF Owned, Owners
    <3>3. ~Rejects(hashes, lens, own, c, k) /\ ~Rejects(hashes, lens, own, b, k)
      BY Zenon, <1>4, <1>5, <3>2 DEF Rejects
    <3> QED
      BY Zenon, <1>1, <1>4, <2>1, <3>2, <3>3, PathsMeet
  <2>2. Distinct(own)
    BY Zenon DEF Owned
  <2> QED
    BY Zenon, <1>8, <2>1, <2>2 DEF Distinct
<1>14. ASSUME NEW j \in Active
       PROVE  Thread(new, j)'
  <2>1. CASE j = i
    <3>1. /\ pc'[i] = "compare" /\ ptr'[i] = i /\ our_string'[i] /\ bucket_i'[i] = b
      BY Zenon, <1>1, <1>6 DEF TypeInv, TypeOK
    <3>2. PathTo(hashes, lens, new, k, b)
      BY Zenon, <1>1, <1>4, <1>10
    <3> QED
      BY Zenon, <1>1, <1>4, <1>6, <1>9, <2>1, <3>1, <3>2 DEF Thread, RowPtr
  <2>2. CASE j # i
    <3>1. Thread(own, j)
      BY Zenon DEF Owned
    <3>2. j \in Row /\ batch[j] \in Key /\ bucket_i[j] \in Bucket /\ j # Null
      BY <1>11, TableConstants DEF TypeInv, TypeOK, Row, Null
    <3>3. /\ pc'[j] = pc[j] /\ ptr'[j] = ptr[j] /\ our_string'[j] = our_string[j]
      BY Zenon, <1>1, <1>6, <2>2, <3>2 DEF TypeInv, TypeOK
    <3>4. PathTo(hashes, lens, own, batch[j], bucket_i[j]) =>
              PathTo(hashes, lens, new, batch[j], bucket_i[j])
      BY Zenon, <1>10, <3>2
    <3>5. pointers[bucket_i[j]] # Null => pointers'[bucket_i[j]] = pointers[bucket_i[j]]
      BY Zenon, <1>9, <3>2
    <3>6. res_buckets[j] \in Bucket /\ own[res_buckets[j]] = batch[j] => new[res_buckets[j]] = batch[j]
      BY Zenon, <1>5, <1>8, <3>2, TableConstants
    <3> QED
      BY Zenon, <1>6, <3>1, <3>2, <3>3, <3>4, <3>5, <3>6 DEF Thread, RowPtr
  <2> QED
    BY Zenon, <2>1, <2>2
<1>15. ASSUME NEW c \in Bucket, pointers'[c] \in Row
       PROVE  RowPointer(new, c)'
  <2>1. CASE c = b
    <3>1. pc'[i] = "compare" /\ our_string'[i] /\ bucket_i'[i] = b
      BY Zenon, <1>1, <1>6 DEF TypeInv, TypeOK
    <3> QED
      BY Zenon, <1>8, <1>9, <1>11, <2>1, <3>1 DEF RowPointer
  <2>2. CASE c # b
    <3>1. RowPointer(own, c) /\ pointers[c] \in Row \ {i} /\ pointers'[c] = pointers[c] /\ new[c] = own[c]
      BY Zenon, <1>3, <1>8, <1>9, <1>15, <2>2 DEF Owned
    <3>2. \A j \in Row \ {i} : pc'[j] = pc[j] /\ our_string'[j] = our_string[j]
      BY Zenon, <1>6 DEF TypeInv, TypeOK
    <3> QED
      BY <1>6, <1>11, <3>1, <3>2 DEF RowPointer
  <2> QED
    BY Zenon, <2>1, <2>2
<1>16. ASSUME NEW c \in Bucket, InStrBuf(pointers'[c])
       PROVE  StrPointer(new, c)'
  <2>1. ~InStrBuf(i)
    BY <1>1, TableConstants DEF InStrBuf, Row
  <2>2. c # b
    BY Zenon, <1>9, <1>16, <2>1
  <2>3. pointers'[c] = pointers[c] /\ new[c] = own[c]
    BY Zenon, <1>8, <1>9, <2>2
  <2>4. StrPointer(own, c)
    BY Zenon, <1>16, <2>3 DEF Owned
  <2> QED
    BY Zenon, <1>6, <2>3, <2>4 DEF StrPointer, strings, StrAddr
<1>17. Owned(new)'
  BY Zenon, <1>11, <1>12, <1>13, <1>14, <1>15, <1>16 DEF Owned, InStrBuf
<1>18. Extends(own, new)
  BY Zenon, <1>5, <1>8 DEF Extends
<1> QED
  BY Zenon, <1>17, <1>18
-----------------------------------------------------------------------------
(***************************************************************************)
(* The steps of kerAddData.                                                *)
(***************************************************************************)
\* A row that finds its own string is done and knows its bucket.
LEMMA FoundInv ==
    ASSUME TypeInv, phase = "kerAddData", NEW own \in OwnerFun, Owned(own), NEW i \in Active,
           pc[i] = "compare", StringAt(ptr[i], batch[i]), Compare(i),
           UNCHANGED <<strings, new_strings_offsets, batch, phase>>
    PROVE  Owned(own)'
<1> DEFINE b == bucket_i[i]
           k == batch[i]
<1>1. i \in Row /\ k \in Key /\ b \in Bucket
  BY Zenon, ActiveFacts DEF TypeInv, TypeOK
<1>2. Thread(own, i)
  BY Zenon DEF Owned
<1>3. own[b] = k
  <2>1. Holds(b, k)
    BY Zenon, <1>2 DEF Thread, Holds
  <2> QED
    BY Zenon, <1>1, <2>1, HoldsOwner
<1>4. /\ res_buckets' = [res_buckets EXCEPT ![i] = b]
      /\ new_strings_lens' = IF our_string[i]
            THEN [new_strings_lens EXCEPT ![b] = ReservedLen(k)]
            ELSE new_strings_lens
      /\ pc' = [pc EXCEPT ![i] = "done"]
      /\ UNCHANGED <<hashes, lens, pointers, bucket_i, ptr, our_string, table_is_full>>
  BY Zenon DEF Compare, table
<1>5. /\ pc'[i] = "done" /\ res_buckets'[i] = b
      /\ \A j \in Row \ {i} : pc'[j] = pc[j] /\ res_buckets'[j] = res_buckets[j]
  BY Zenon, <1>1, <1>4 DEF TypeInv, TypeOK
<1>6. /\ our_string[i] => pointers[b] = i /\ new_strings_lens'[b] = StoredLen(k)
      /\ \A c \in Bucket : c # b \/ ~our_string[i] => new_strings_lens'[c] = new_strings_lens[c]
  BY Zenon, <1>1, <1>2, <1>4, LenFacts DEF Thread, RowPtr, TypeInv, TypeOK
<1>7. Active' = Active /\ Active \subseteq Row /\ \A j \in Active : batch[j] \in Key
  BY Zenon, ActiveFacts DEF Active, TypeInv
<1>8. Owners(own)' /\ Distinct(own)'
  BY Zenon, <1>4 DEF Owned, Owners, Distinct
<1>9. ASSUME NEW j \in Active
      PROVE  Thread(own, j)'
  <2>1. CASE j = i
    BY Zenon, <1>1, <1>3, <1>4, <1>5, <2>1 DEF Thread, Working, HashFits, LenFits
  <2>2. CASE j # i
    <3>1. Thread(own, j) /\ j \in Row
      BY Zenon, <1>7 DEF Owned
    <3> QED
      BY Zenon, <1>4, <1>5, <2>2, <3>1 DEF Thread
  <2> QED
    BY Zenon, <2>1, <2>2
<1>10. ASSUME NEW c \in Bucket, pointers[c] \in Row
       PROVE  RowPointer(own, c)'
  <2>1. RowPointer(own, c)
    BY Zenon, <1>10 DEF Owned
  <2>2. CASE pointers[c] = i
    <3>1. our_string[i] /\ c = b
      BY Zenon, <2>1, <2>2 DEF RowPointer
    <3> QED
      BY <1>3, <1>4, <1>5, <1>6, <1>7, <2>2, <3>1, SMTT(30) DEF RowPointer
  <2>3. CASE pointers[c] # i
    <3>1. new_strings_lens'[c] = new_strings_lens[c]
      BY Zenon, <1>6, <2>3
    <3> QED
      BY <1>4, <1>5, <1>7, <1>10, <2>1, <2>3, <3>1, SMTT(30) DEF RowPointer
  <2> QED
    BY Zenon, <2>2, <2>3
<1>11. ASSUME NEW c \in Bucket, InStrBuf(pointers[c])
       PROVE  StrPointer(own, c)'
  <2>1. StrPointer(own, c)
    BY Zenon, <1>11 DEF Owned
  <2> QED
    BY Zenon, <1>4, <2>1 DEF StrPointer, strings, StrAddr
<1> QED
  BY Zenon, <1>4, <1>7, <1>8, <1>9, <1>10, <1>11 DEF Owned, InStrBuf

\* Every step of kerAddData keeps the invariant, possibly with one more owner.
LEMMA KernelInv ==
    ASSUME TypeInv, NEW own \in OwnerFun, Owned(own), NEW i \in Row, kerAddData(i)
    PROVE  \E new \in OwnerFun : Owned(new)' /\ Extends(own, new)
<1> DEFINE b == bucket_i[i]
           k == batch[i]
<1>1. phase = "kerAddData" /\ UNCHANGED <<strings, new_strings_offsets, batch, phase>>
  BY Zenon DEF kerAddData
<1>2. pc[i] # "done"
  BY Zenon DEF kerAddData, ReadHash, CasHash, ReadLen, CasLen, ReadPtr, CasPtr, Compare
<1>3. i \in Active /\ k \in Key /\ b \in Bucket
  BY Zenon, <1>2, KernelRow
<1>4. TypeInv'
  BY Zenon, KernelType
<1>5. Thread(own, i)
  BY Zenon, <1>1, <1>3 DEF Owned
<1> SUFFICES Owned(own)' \/ (\E new \in OwnerFun : Owned(new)' /\ Extends(own, new))
  BY Zenon DEF Extends
<1>6. ASSUME pc[i] \in Working \ {"compare"}, Probe(i), Rejects(hashes, lens, own, b, k)
      PROVE  Owned(own)'
  <2>1. (\A c \in Bucket : pointers[c] # i) /\ ~our_string[i]
    BY Zenon, <1>1, <1>3, <1>6, SearchingRow
  <2> QED
    BY Zenon, <1>1, <1>3, <1>6, <2>1, ProbeInv
<1>7. ASSUME pc[i] \in Working \ {"compare"}, NEW l \in Working \ {"compare"}, Goto(i, l),
             l \in HashFits => hashes[b] = HashOf(k),
             l \in LenFits => lens[b] = ByteLen[k]
      PROVE  Owned(own)'
  <2>1. /\ pc' = [pc EXCEPT ![i] = l]
        /\ UNCHANGED <<hashes, lens, pointers, bucket_i, ptr, our_string, table_is_full, res_buckets,
                       new_strings_lens>>
    BY Zenon, <1>7 DEF Goto, table
  <2> QED
    BY Zenon, <1>1, <1>3, <1>4, <1>7, <2>1, MoveInv
<1>8. CASE ReadHash(i)
  <2>1. pc[i] = "hash" /\ pc[i] \in Working \ {"compare"}
    BY Zenon, <1>8 DEF ReadHash, Working
  <2>2. PICK x \in {hashes[b], EmptyHash} :
             \/ x = EmptyHash /\ Goto(i, "hashCAS")
             \/ x = HashOf(k) /\ Goto(i, "len")
             \/ x \notin {EmptyHash, HashOf(k)} /\ Probe(i)
    BY Zenon, <1>8 DEF ReadHash, Loads
  <2>3. CASE x = EmptyHash /\ Goto(i, "hashCAS")
    BY Zenon, <1>7, <2>1, <2>3 DEF Working, HashFits, LenFits
  <2>4. CASE x = HashOf(k) /\ Goto(i, "len")
    <3>1. hashes[b] = HashOf(k)
      BY Zenon, <1>3, <2>4, HashFacts
    <3> QED
      BY Zenon, <1>7, <2>1, <2>4, <3>1 DEF Working, HashFits, LenFits
  <2>5. CASE x \notin {EmptyHash, HashOf(k)} /\ Probe(i)
    <3>1. Rejects(hashes, lens, own, b, k)
      BY Zenon, <2>5 DEF Rejects
    <3> QED
      BY Zenon, <1>6, <2>1, <2>5, <3>1
  <2> QED
    BY Zenon, <2>2, <2>3, <2>4, <2>5
<1>9. CASE CasHash(i)
  <2>1. pc[i] = "hashCAS" /\ pc[i] \in Working \ {"compare"}
    BY Zenon, <1>9 DEF CasHash, Working
  <2>2. CASE /\ hashes[b] = EmptyHash
             /\ hashes' = [hashes EXCEPT ![b] = HashOf(k)]
             /\ pc' = [pc EXCEPT ![i] = "len"]
             /\ UNCHANGED <<lens, pointers, bucket_i, ptr, our_string, table_is_full, res_buckets,
                            new_strings_lens>>
    <3>1. \A c \in Bucket : /\ hashes[c] # EmptyHash => hashes'[c] = hashes[c]
                            /\ lens[c] # EmptyLen => lens'[c] = lens[c]
      BY Zenon, <1>3, <2>2 DEF TypeInv, TypeOK
    <3>2. hashes'[b] = HashOf(k)
      BY Zenon, <1>3, <2>2 DEF TypeInv, TypeOK
    <3> QED
      BY Zenon, <1>1, <1>3, <1>4, <2>1, <2>2, <3>1, <3>2, MoveInv DEF Working, HashFits, LenFits
  <2>3. CASE hashes[b] = HashOf(k) /\ Goto(i, "len")
    BY Zenon, <1>7, <2>1, <2>3 DEF Working, HashFits, LenFits
  <2>4. CASE hashes[b] \notin {EmptyHash, HashOf(k)} /\ Probe(i)
    <3>1. Rejects(hashes, lens, own, b, k)
      BY Zenon, <2>4 DEF Rejects
    <3> QED
      BY Zenon, <1>6, <2>1, <2>4, <3>1
  <2> QED
    BY Zenon, <1>9, <2>2, <2>3, <2>4 DEF CasHash
<1>10. CASE ReadLen(i)
  <2>1. pc[i] = "len" /\ pc[i] \in Working \ {"compare"} /\ hashes[b] = HashOf(k)
    BY Zenon, <1>5, <1>10 DEF ReadLen, Working, Thread, HashFits
  <2>2. PICK x \in {lens[b], EmptyLen} :
             \/ x = EmptyLen /\ Goto(i, "lenCAS")
             \/ x = ByteLen[k] /\ Goto(i, "ptr")
             \/ x \notin {EmptyLen, ByteLen[k]} /\ Probe(i)
    BY Zenon, <1>10 DEF ReadLen, Loads
  <2>3. CASE x = EmptyLen /\ Goto(i, "lenCAS")
    BY Zenon, <1>7, <2>1, <2>3 DEF Working, HashFits, LenFits
  <2>4. CASE x = ByteLen[k] /\ Goto(i, "ptr")
    <3>1. lens[b] = ByteLen[k]
      BY Zenon, <1>3, <2>4, HashFacts
    <3> QED
      BY Zenon, <1>7, <2>1, <2>4, <3>1 DEF Working, HashFits, LenFits
  <2>5. CASE x \notin {EmptyLen, ByteLen[k]} /\ Probe(i)
    <3>1. Rejects(hashes, lens, own, b, k)
      BY Zenon, <1>3, <2>1, <2>5, HashFacts DEF Rejects
    <3> QED
      BY Zenon, <1>6, <2>1, <2>5, <3>1
  <2> QED
    BY Zenon, <2>2, <2>3, <2>4, <2>5
<1>11. CASE CasLen(i)
  <2>1. pc[i] = "lenCAS" /\ pc[i] \in Working \ {"compare"} /\ hashes[b] = HashOf(k)
    BY Zenon, <1>5, <1>11 DEF CasLen, Working, Thread, HashFits
  <2>2. CASE /\ lens[b] = EmptyLen
             /\ lens' = [lens EXCEPT ![b] = ByteLen[k]]
             /\ pc' = [pc EXCEPT ![i] = "ptr"]
             /\ UNCHANGED <<hashes, pointers, bucket_i, ptr, our_string, table_is_full, res_buckets,
                            new_strings_lens>>
    <3>1. \A c \in Bucket : /\ hashes[c] # EmptyHash => hashes'[c] = hashes[c]
                            /\ lens[c] # EmptyLen => lens'[c] = lens[c]
      BY Zenon, <1>3, <2>2 DEF TypeInv, TypeOK
    <3>2. lens'[b] = ByteLen[k] /\ hashes'[b] = HashOf(k)
      BY Zenon, <1>3, <2>1, <2>2 DEF TypeInv, TypeOK
    <3> QED
      BY Zenon, <1>1, <1>3, <1>4, <2>1, <2>2, <3>1, <3>2, MoveInv DEF Working, HashFits, LenFits
  <2>3. CASE lens[b] = ByteLen[k] /\ Goto(i, "ptr")
    BY Zenon, <1>7, <2>1, <2>3 DEF Working, HashFits, LenFits
  <2>4. CASE lens[b] \notin {EmptyLen, ByteLen[k]} /\ Probe(i)
    <3>1. Rejects(hashes, lens, own, b, k)
      BY Zenon, <1>3, <2>1, <2>4, HashFacts DEF Rejects
    <3> QED
      BY Zenon, <1>6, <2>1, <2>4, <3>1
  <2> QED
    BY Zenon, <1>11, <2>2, <2>3, <2>4 DEF CasLen
<1>12. CASE ReadPtr(i)
  <2>1. /\ pc[i] = "ptr" /\ pc[i] \in Working \ {"compare"}
        /\ hashes[b] = HashOf(k) /\ lens[b] = ByteLen[k]
    BY Zenon, <1>5, <1>12 DEF ReadPtr, Working, Thread, HashFits, LenFits
  <2>2. PICK p \in {pointers[b], Null} :
             /\ ptr' = [ptr EXCEPT ![i] = p]
             /\ pc' = [pc EXCEPT ![i] = IF p = Null THEN "ptrCAS" ELSE "compare"]
    BY Zenon, <1>12 DEF ReadPtr, Loads
  <2>3. UNCHANGED <<hashes, lens, pointers, bucket_i, our_string, table_is_full, res_buckets,
                    new_strings_lens>>
    BY Zenon, <1>12 DEF ReadPtr, table
  <2>4. ptr'[i] = p /\ \A j \in Row \ {i} : ptr'[j] = ptr[j]
    BY Zenon, <2>2 DEF TypeInv, TypeOK
  <2>5. PICK l \in {"ptrCAS", "compare"} : l = IF p = Null THEN "ptrCAS" ELSE "compare"
    OBVIOUS
  <2>6. l \in Working /\ (l = "compare" => ptr'[i] = pointers[b] /\ ptr'[i] # Null)
    BY Zenon, <2>2, <2>4, <2>5 DEF Working
  <2>7. Owned(own)'
    BY Zenon, <1>1, <1>3, <1>4, <2>1, <2>2, <2>3, <2>4, <2>5, <2>6, MoveInv
  <2> QED
    BY Zenon, <2>7
<1>13. CASE CasPtr(i)
  <2>1. /\ pc[i] = "ptrCAS" /\ pc[i] \in Working \ {"compare"}
        /\ hashes[b] = HashOf(k) /\ lens[b] = ByteLen[k]
    BY Zenon, <1>5, <1>13 DEF CasPtr, Working, Thread, HashFits, LenFits
  <2>2. CASE pointers[b] = Null
    BY Zenon, <1>1, <1>3, <1>13, <2>1, <2>2, ClaimInv
  <2>3. CASE pointers[b] # Null
    <3>1. /\ ptr' = [ptr EXCEPT ![i] = pointers[b]]
          /\ pc' = [pc EXCEPT ![i] = "compare"]
          /\ UNCHANGED <<hashes, lens, pointers, bucket_i, our_string, table_is_full, res_buckets,
                         new_strings_lens>>
      BY Zenon, <1>13, <2>3 DEF CasPtr
    <3>2. ptr'[i] = pointers[b] /\ \A j \in Row \ {i} : ptr'[j] = ptr[j]
      BY Zenon, <3>1 DEF TypeInv, TypeOK
    <3>3. Owned(own)'
      BY Zenon, <1>1, <1>3, <1>4, <2>1, <2>3, <3>1, <3>2, MoveInv DEF Working
    <3> QED
      BY Zenon, <3>3
  <2> QED
    BY Zenon, <2>2, <2>3
<1>14. CASE Compare(i)
  <2>1. pc[i] = "compare"
    BY Zenon, <1>14 DEF Compare
  <2>2. CASE StringAt(ptr[i], k)
    <3>1. Owned(own)'
      BY Zenon, <1>1, <1>3, <1>14, <2>1, <2>2, FoundInv
    <3> QED
      BY Zenon, <3>1
  <2>3. CASE ~StringAt(ptr[i], k)
    <3>1. Probe(i)
      BY Zenon, <1>14, <2>3 DEF Compare
    <3>2. (\A c \in Bucket : pointers[c] # i) /\ ~our_string[i]
      BY Zenon, <1>1, <1>3, <2>1, <2>3, SearchingRow
    <3>3. pointers[b] # Null /\ ptr[i] = pointers[b] /\ hashes[b] = HashOf(k)
      BY Zenon, <1>5, <2>1 DEF Thread, HashFits
    <3>4. own[b] # NoKey
      BY Zenon, <1>3, <3>3 DEF Owned, Owners
    <3>5. own[b] # k
      <4>1. Holds(b, own[b])
        BY Zenon, <1>1, <1>3, <3>4, OwnerHolds
      <4> QED
        BY Zenon, <2>3, <3>3, <4>1 DEF Holds
    <3>6. Rejects(hashes, lens, own, b, k)
      BY Zenon, <1>3, <3>3, <3>4, <3>5, HashFacts DEF Rejects
    <3>7. Owned(own)'
      BY Zenon, <1>1, <1>3, <2>1, <3>1, <3>2, <3>6, ProbeInv DEF Working
    <3> QED
      BY Zenon, <3>7
  <2> QED
    BY Zenon, <2>2, <2>3
<1> QED
  BY Zenon, <1>8, <1>9, <1>10, <1>11, <1>12, <1>13, <1>14 DEF kerAddData

-----------------------------------------------------------------------------
(***************************************************************************)
(* The other steps.                                                        *)
(***************************************************************************)
\* The invariant holds for a new table: no bucket has an owner.
LEMMA InvInit == Init => Inv
<1> SUFFICES ASSUME Init PROVE Inv
  OBVIOUS
<1>1. PICK own \in OwnerFun : own = [b \in Bucket |-> NoKey]
  BY Zenon DEF OwnerFun
<1>2. ~InStrBuf(Null) /\ Null \notin Row
  BY TableConstants DEF InStrBuf, Row, Null
<1>3. \A b \in Bucket : own[b] = NoKey /\ pointers[b] = Null
  BY Zenon, <1>1 DEF Init
<1>4. Owned(own)
  BY <1>2, <1>3, SMTT(30) DEF Init, Owned, Owners, Distinct, Active
<1> QED
  BY Zenon, <1>4, TypeInvInit DEF Init, Inv

\* After erase no bucket has an owner.
LEMMA EraseInv ==
    ASSUME erase
    PROVE  \E own \in OwnerFun : Owned(own)'
<1>1. PICK own \in OwnerFun : own = [b \in Bucket |-> NoKey]
  BY Zenon DEF OwnerFun
<1>2. ~InStrBuf(Null) /\ Null \notin Row
  BY TableConstants DEF InStrBuf, Row, Null
<1>3. \A b \in Bucket : own[b] = NoKey /\ pointers'[b] = Null
  BY Zenon, <1>1 DEF erase, kerErase
<1>4. Owned(own)'
  BY <1>2, <1>3, SMTT(30) DEF erase, kerErase, Owned, Owners, Distinct, Active, InStrBuf
<1> QED
  BY Zenon, <1>4

\* A new batch finds all strings in the used part of str_buf.
LEMMA LaunchInv ==
    ASSUME TypeInv, NEW own \in OwnerFun, Owned(own), NEW rows \in Batches, Launch(rows)
    PROVE  Owned(own)'
<1>1. /\ phase = "idle" /\ phase' = "kerAddData" /\ batch' = rows
      /\ UNCHANGED <<hashes, lens, pointers, strings>>
  BY Zenon DEF Launch, kerFillZero, table
<1>2. \A b \in Bucket : pointers[b] \notin Row
  BY Zenon, <1>1 DEF Owned, RowPointer
<1>3. Owners(own)' /\ Distinct(own)'
  BY Zenon, <1>1 DEF Owned, Owners, Distinct
<1>4. ASSUME NEW i \in Active'
      PROVE  Thread(own, i)'
  <2>1. i \in DOMAIN rows /\ rows[i] # NoKey
    BY Zenon, <1>1, <1>4 DEF Active
  <2>2. i \in Row /\ rows[i] \in Key
    BY Zenon, <2>1, BatchFacts
  <2>3. pc'[i] = "hash" /\ bucket_i'[i] = Home(rows[i]) /\ ~our_string'[i]
    BY Zenon, <2>1, <2>2 DEF Launch, kerFillZero
  <2>4. PathTo(hashes', lens', own, rows[i], Home(rows[i]))
    BY Zenon, <2>2, PathStarts
  <2> QED
    BY Zenon, <1>1, <2>3, <2>4 DEF Thread, Working, HashFits, LenFits
<1>5. ASSUME NEW b \in Bucket, InStrBuf(pointers[b])
      PROVE  StrPointer(own, b)'
  <2>1. StrPointer(own, b)
    BY Zenon, <1>5 DEF Owned
  <2> QED
    BY Zenon, <1>1, <2>1 DEF StrPointer, strings, StrAddr
<1> QED
  BY Zenon, <1>1, <1>2, <1>3, <1>4, <1>5 DEF Owned, InStrBuf

\* The scan lays the new strings out one after the other, and keeps the owners.
LEMMA ScanInv ==
    ASSUME ExclusiveSums, TypeInv, NEW own \in OwnerFun, Owned(own), Scan
    PROVE  Owned(own)' /\ Layout'
<1>1. /\ phase = "kerAddData" /\ phase' = "kerCopyAddedStrings"
      /\ UNCHANGED <<hashes, lens, pointers, strings, new_strings_lens, res_buckets, table_is_full, batch>>
      /\ new_strings_offsets' = ExclusiveSum(new_strings_lens)
      /\ \A i \in Active : pc[i] \in {"done", "full"}
  BY Zenon DEF Scan, table
<1>2. Active' = Active /\ Active \subseteq Row
  BY Zenon, <1>1, ActiveFacts DEF Active, TypeInv
<1>3. \A i \in Active : pc'[i] = "copy"
  BY Zenon, <1>2 DEF Scan
<1>4. Owners(own)' /\ Distinct(own)'
  BY Zenon, <1>1 DEF Owned, Owners, Distinct
<1>5. ASSUME NEW b \in Bucket, pointers[b] \in Row
      PROVE  RowPointer(own, b)'
  <2>1. RowPointer(own, b)
    BY Zenon, <1>5 DEF Owned
  <2>2. pointers[b] \in Active /\ pc[pointers[b]] = "done"
    BY Zenon, <1>1, <2>1 DEF RowPointer
  <2> QED
    BY Zenon, <1>1, <1>2, <1>3, <2>1, <2>2 DEF RowPointer
<1>6. ASSUME NEW b \in Bucket, InStrBuf(pointers[b])
      PROVE  StrPointer(own, b)'
  <2>1. StrPointer(own, b)
    BY Zenon, <1>6 DEF Owned
  <2> QED
    BY Zenon, <1>1, <2>1 DEF StrPointer, strings, StrAddr
<1>7. ASSUME NEW i \in Active, ~table_is_full
      PROVE  res_buckets[i] \in Bucket /\ own[res_buckets[i]] = batch[i]
  <2>1. Thread(own, i)
    BY Zenon, <1>1 DEF Owned
  <2> QED
    BY Zenon, <1>1, <1>7, <2>1 DEF Thread
<1>8. Layout'
  <2>1. new_strings_lens \in [Bucket -> Nat]
    BY Zenon DEF TypeInv, TypeOK
  <2> QED
    BY Zenon, <1>1, <2>1 DEF Layout, ExclusiveSums
<1>9. Owned(own)'
  BY Zenon, <1>1, <1>2, <1>4, <1>5, <1>6, <1>7 DEF Owned, InStrBuf
<1> QED
  BY Zenon, <1>8, <1>9

\* A word of another string in a buffer of max words lies outside the n words
\* from address a on.
LEMMA WordOutside ==
    ASSUME NEW a \in Nat, NEW n \in Nat \ {0}, NEW d \in Nat, NEW m \in Nat \ {0}, NEW max \in Nat,
           NEW w \in 0..(m - 1), d + w < max, d + m <= a \/ a + n <= d
    PROVE  d + w \in 0..(max - 1) /\ d + w \notin a..(a + n - 1)
  OBVIOUS

\* Row i copies its string: into words that nobody else has.
LEMMA CopiedInv ==
    ASSUME TypeInv, Layout, NEW own \in OwnerFun, Owned(own), NEW i \in Row, kerCopyAddedStrings(i),
           NEW b \in Bucket, b = res_buckets[i], pointers[b] = RowPtr(i)
    PROVE  Owned(own)'
<1> DEFINE k == batch[i]
           a == CopyAddress(b)
           n == StoredLen(k)
<1>1. /\ phase = "kerCopyAddedStrings" /\ pc[i] = "copy"
      /\ pc' = [pc EXCEPT ![i] = "done"]
      /\ str_buf' = [x \in DOMAIN str_buf |-> IF x \in a..(a + n - 1) THEN <<k, x - a>> ELSE str_buf[x]]
      /\ overrun' = (overrun \/ a + n > str_buf_max_sz)
      /\ pointers' = [pointers EXCEPT ![b] = StrPtr(a)]
      /\ UNCHANGED <<hashes, lens, str_buf_sz, new_strings_lens, new_strings_offsets, res_buckets,
                     table_is_full, batch, phase, bucket_i, ptr, our_string>>
  BY Zenon DEF kerCopyAddedStrings, scan
<1>2. i \in Active /\ k \in Key /\ n \in Nat \ {0}
  BY Zenon, <1>1, KernelRow, LenFacts
<1>3. own[b] = k /\ new_strings_lens[b] = n
  <2>1. pointers[b] = i
    BY Zenon DEF RowPtr
  <2>2. RowPointer(own, b)
    BY Zenon, <2>1 DEF Owned
  <2> QED
    BY Zenon, <1>1, <2>1, <2>2 DEF RowPointer
<1>4. new_strings_offsets[b] \in Nat /\ str_buf_sz \in Nat /\ a \in Nat /\ a = str_buf_sz + new_strings_offsets[b]
  BY TableConstants, SMTT(30) DEF TypeInv, TypeOK, CopyAddress
<1>5. InStrBuf(StrPtr(a)) /\ StrAddr(StrPtr(a)) = a /\ StrPtr(a) \notin Row /\ StrPtr(a) # Null
  BY <1>4, TableConstants DEF InStrBuf, StrAddr, StrPtr, Row, Null
<1>6. pointers'[b] = StrPtr(a) /\ \A c \in Bucket \ {b} : pointers'[c] = pointers[c]
  BY Zenon, <1>1 DEF TypeInv, TypeOK
<1>7. Active' = Active
  BY Zenon, <1>1 DEF Active
<1>8. Owners(own)' /\ Distinct(own)'
  <2>1. \A c \in Bucket : pointers'[c] = Null <=> own[c] = NoKey
    BY Zenon, <1>2, <1>3, <1>5, <1>6, TableConstants DEF Owned, Owners
  <2> QED
    BY Zenon, <1>1, <2>1 DEF Owned, Owners, Distinct
<1>9. ASSUME NEW c \in Bucket, pointers'[c] \in Row
      PROVE  RowPointer(own, c)'
  <2>1. c # b
    BY Zenon, <1>5, <1>6, <1>9
  <2>2. pointers'[c] = pointers[c] /\ RowPointer(own, c)
    BY Zenon, <1>6, <1>9, <2>1 DEF Owned
  <2>3. res_buckets[pointers[c]] = c
    BY Zenon, <1>1, <2>2 DEF RowPointer
  <2>4. pointers[c] \in Row \ {i}
    BY Zenon, <1>9, <2>1, <2>2, <2>3
  <2>5. pc'[pointers[c]] = pc[pointers[c]]
    BY Zenon, <1>1, <2>4 DEF TypeInv, TypeOK
  <2>6. pointers[c] \in Active /\ own[c] = batch[pointers[c]] /\ pc[pointers[c]] = "copy"
        /\ new_strings_lens[c] = StoredLen(own[c])
    BY Zenon, <1>1, <2>2 DEF RowPointer
  <2>7. UNCHANGED <<phase, batch, res_buckets, new_strings_lens>> /\ phase = "kerCopyAddedStrings"
    BY Zenon, <1>1
  <2>8. /\ pointers'[c] \in Active' /\ own[c] = batch'[pointers'[c]] /\ phase' = "kerCopyAddedStrings"
        /\ pc'[pointers'[c]] = "copy" /\ res_buckets'[pointers'[c]] = c /\ new_strings_lens'[c] = StoredLen(own[c])
    BY Zenon, <1>7, <2>2, <2>3, <2>5, <2>6, <2>7
  <2> QED
    BY Zenon, <2>8 DEF RowPointer
<1>10. DOMAIN str_buf = 0..(str_buf_max_sz - 1)
  BY Zenon DEF TypeInv, TypeOK
<1>11. StrPointer(own, b)'
  <2>1. \A w \in 0..(n - 1) : a + w < str_buf_max_sz => str_buf'[a + w] = <<k, w>>
    <3> SUFFICES ASSUME NEW w \in 0..(n - 1), a + w < str_buf_max_sz
                 PROVE  str_buf'[a + w] = <<k, w>>
      OBVIOUS
    <3> HIDE DEF a, n, k
    <3>1. a \in Nat /\ n \in Nat \ {0} /\ str_buf_max_sz \in Nat
      BY Zenon, <1>2, <1>4, TableConstants
    <3>2. a + w \in 0..(str_buf_max_sz - 1)
      BY <3>1
    <3>3. a + w \in a..(a + n - 1) /\ (a + w) - a = w
      BY <3>1
    <3> QED
      BY Zenon, <1>1, <1>10, <3>2, <3>3
  <2> HIDE DEF a, n, k
  <2>2. ~overrun' => a + n <= str_buf_max_sz
    <3>1. ~overrun' => ~(a + n > str_buf_max_sz)
      BY Zenon, <1>1
    <3>2. a + n \in Nat /\ str_buf_max_sz \in Nat
      BY <1>2, <1>4, TableConstants
    <3> QED
      BY <3>1, <3>2
  <2>3. StoredLen(own[b]) = n
    BY Zenon, <1>3 DEF n, k
  <2>4. StrAddr(pointers'[b]) = a
    BY Zenon, <1>5, <1>6
  <2> QED
    BY Zenon, <1>1, <1>3, <1>4, <2>1, <2>2, <2>3, <2>4 DEF StrPointer, StrAddr
<1>12. ASSUME NEW c \in Bucket, c # b, InStrBuf(pointers[c])
       PROVE  StrPointer(own, c)'
  <2> DEFINE d == StrAddr(pointers[c])
             m == StoredLen(own[c])
  <2>1. StrPointer(own, c)
    BY Zenon, <1>12 DEF Owned
  <2>2. d \in Nat
    <3>1. pointers[c] \in Nat
      BY Zenon DEF TypeInv, TypeOK
    <3>2. MaxRows \in Nat
      BY Zenon, TableConstants
    <3> QED
      BY <1>12, <3>1, <3>2 DEF StrAddr, InStrBuf
  <2>3. own[c] \in Key
    <3>1. MaxRows \in Nat
      BY Zenon, TableConstants
    <3>2. pointers[c] # Null
      BY <1>12, <3>1 DEF InStrBuf, Null
    <3>3. Owners(own)
      BY Zenon DEF Owned
    <3>4. own[c] # NoKey
      BY Zenon, <3>2, <3>3 DEF Owners
    <3> QED
      BY Zenon, <3>4 DEF OwnerFun
  <2>4. m \in Nat \ {0}
    BY Zenon, <2>3, LenFacts
  <2>5. d + m <= a \/ a + n <= d
    <3>1. new_strings_offsets[c] \in Nat /\ new_strings_lens[c] \in Nat
      BY Zenon DEF TypeInv, TypeOK
    <3>2. CASE d + m <= str_buf_sz
      <4>1. a \in Nat /\ str_buf_sz \in Nat /\ str_buf_sz <= a
        BY <1>4
      <4> HIDE DEF a, d, m
      <4> QED
        BY <2>2, <2>4, <3>2, <4>1
    <3>3. CASE d = str_buf_sz + new_strings_offsets[c] /\ m = new_strings_lens[c]
      <4>1. \/ new_strings_offsets[c] + new_strings_lens[c] <= new_strings_offsets[b]
            \/ new_strings_offsets[b] + new_strings_lens[b] <= new_strings_offsets[c]
        BY <1>12, TableConstants DEF Layout, Bucket
      <4> QED
        BY <1>2, <1>3, <1>4, <3>1, <3>3, <4>1
    <3> QED
      BY Zenon, <2>1, <3>2, <3>3 DEF StrPointer
  <2>6. ASSUME NEW w \in 0..(m - 1), d + w < str_buf_max_sz
        PROVE  str_buf'[d + w] = <<own[c], w>>
    <3>2. str_buf[d + w] = <<own[c], w>>
      BY Zenon, <2>1, <2>6 DEF StrPointer
    <3> HIDE DEF a, n, k, d, m
    <3>1. d + w \in 0..(str_buf_max_sz - 1) /\ d + w \notin a..(a + n - 1)
      BY Zenon, <1>2, <1>4, <2>2, <2>4, <2>5, <2>6, WordOutside, TableConstants
    <3> QED
      BY Zenon, <1>1, <1>10, <3>1, <3>2
  <2>7. ~overrun' => ~overrun
    BY Zenon, <1>1 DEF TypeInv, TypeOK
  <2>8. pointers'[c] = pointers[c]
    BY Zenon, <1>6, <1>12
  <2> HIDE DEF a, n, k
  <2> QED
    BY Zenon, <1>1, <2>1, <2>6, <2>7, <2>8 DEF StrPointer
<1>13. ASSUME NEW c \in Bucket, InStrBuf(pointers'[c])
       PROVE  StrPointer(own, c)'
  BY Zenon, <1>6, <1>11, <1>12, <1>13
<1> HIDE DEF a, n, k
<1> QED
  BY Zenon, <1>1, <1>7, <1>8, <1>9, <1>13 DEF Owned, InStrBuf

\* A thread of kerCopyAddedStrings keeps the invariant, copying or not.
LEMMA CopyInv ==
    ASSUME TypeInv, Layout, NEW own \in OwnerFun, Owned(own), NEW i \in Row, kerCopyAddedStrings(i)
    PROVE  Owned(own)' /\ Layout'
<1>1. Layout'
  BY Zenon DEF kerCopyAddedStrings, Layout, scan
<1>2. CASE res_buckets[i] \in Bucket /\ pointers[res_buckets[i]] = RowPtr(i)
  BY Zenon, <1>1, <1>2, CopiedInv
<1>3. CASE ~(res_buckets[i] \in Bucket /\ pointers[res_buckets[i]] = RowPtr(i))
  <2>1. /\ phase = "kerCopyAddedStrings" /\ pc[i] = "copy"
        /\ pc' = [pc EXCEPT ![i] = "done"]
        /\ UNCHANGED <<hashes, lens, pointers, str_buf, overrun, str_buf_sz, new_strings_lens,
                       new_strings_offsets, res_buckets, table_is_full, batch, phase, bucket_i, ptr,
                       our_string>>
    BY Zenon, <1>3 DEF kerCopyAddedStrings, scan
  <2>2. Active' = Active
    BY Zenon, <2>1 DEF Active
  <2>3. Owners(own)' /\ Distinct(own)'
    BY Zenon, <2>1 DEF Owned, Owners, Distinct
  <2>4. ASSUME NEW c \in Bucket, pointers[c] \in Row
        PROVE  RowPointer(own, c)'
    <3>1. RowPointer(own, c)
      BY Zenon, <2>4 DEF Owned
    <3>2. res_buckets[pointers[c]] = c
      BY Zenon, <2>1, <3>1 DEF RowPointer
    <3>3. pointers[c] # i
      BY Zenon, <1>3, <3>2 DEF RowPtr
    <3>4. pc'[pointers[c]] = pc[pointers[c]]
      BY Zenon, <2>1, <2>4, <3>3 DEF TypeInv, TypeOK
    <3> QED
      BY Zenon, <2>1, <2>2, <3>1, <3>4 DEF RowPointer
  <2>5. ASSUME NEW c \in Bucket, InStrBuf(pointers[c])
        PROVE  StrPointer(own, c)'
    <3>1. StrPointer(own, c)
      BY Zenon, <2>5 DEF Owned
    <3> QED
      BY Zenon, <2>1, <3>1 DEF StrPointer, StrAddr
  <2>6. Owned(own)'
    BY Zenon, <2>1, <2>2, <2>3, <2>4, <2>5 DEF Owned, InStrBuf
  <2> QED
    BY Zenon, <1>1, <2>6
<1> QED
  BY Zenon, <1>2, <1>3

\* The host accounts for the new strings, or throws.
LEMMA FinishInv ==
    ASSUME TypeInv, Layout, NEW own \in OwnerFun, Owned(own), Finish
    PROVE  Owned(own)' /\ Layout'
<1>1. /\ phase = "kerCopyAddedStrings"
      /\ \A i \in Active : pc[i] = "done"
      /\ UNCHANGED <<hashes, lens, pointers, str_buf, overrun, new_strings_lens, new_strings_offsets,
                     res_buckets, table_is_full, batch, pc, bucket_i, ptr, our_string>>
      /\ \/ phase' = "failed" /\ str_buf_sz' = str_buf_sz
         \/ phase' = "idle" /\ str_buf_sz' = str_buf_sz + TotalAddedLen
  BY Zenon DEF Finish, table, scan, regs
<1>2. Layout'
  BY Zenon, <1>1 DEF Layout
<1>3. Active' = Active
  BY Zenon, <1>1 DEF Active
<1>4. Owners(own)' /\ Distinct(own)'
  BY Zenon, <1>1 DEF Owned, Owners, Distinct
<1>5. \A c \in Bucket : pointers[c] \notin Row
  BY Zenon, <1>1 DEF Owned, RowPointer
<1>6. ASSUME NEW c \in Bucket, InStrBuf(pointers[c])
      PROVE  StrPointer(own, c)'
  <2>1. StrPointer(own, c)
    BY Zenon, <1>6 DEF Owned
  <2>2. CASE phase' = "failed" /\ str_buf_sz' = str_buf_sz
    BY Zenon, <1>1, <2>1, <2>2 DEF StrPointer, StrAddr
  <2>3. CASE phase' = "idle" /\ str_buf_sz' = str_buf_sz + TotalAddedLen
    <3> DEFINE a == StrAddr(pointers[c])
               n == StoredLen(own[c])
               last == buckets_num - 1
    <3>1. last \in Bucket /\ last \in Nat
      BY TableConstants DEF Bucket
    <3>2. /\ new_strings_offsets[c] \in Nat /\ new_strings_lens[c] \in Nat
          /\ new_strings_offsets[last] \in Nat /\ new_strings_lens[last] \in Nat
          /\ str_buf_sz \in Nat
      BY <3>1, TableConstants DEF TypeInv, TypeOK
    <3>3. TotalAddedLen = new_strings_offsets[last] + new_strings_lens[last]
      BY Zenon DEF TotalAddedLen
    <3>4. new_strings_offsets[c] + new_strings_lens[c] <= TotalAddedLen
      <4>1. CASE c = last
        BY <3>2, <3>3, <4>1
      <4>2. CASE c < last
        BY <3>1, <3>2, <3>3, <4>2 DEF Layout
      <4> QED
        BY <4>1, <4>2, TableConstants DEF Bucket
    <3>5. own[c] \in Key
      <4>1. pointers[c] # Null
        BY <1>6, TableConstants DEF InStrBuf, Null
      <4> QED
        BY Zenon, <4>1 DEF Owned, Owners, OwnerFun
    <3>6. a \in Nat /\ n \in Nat
      BY <1>6, <3>5, LenFacts, TableConstants DEF StrAddr, InStrBuf, TypeInv, TypeOK
    <3>7. a + n <= str_buf_sz \/ (a = str_buf_sz + new_strings_offsets[c] /\ n = new_strings_lens[c])
      BY Zenon, <2>1 DEF StrPointer
    <3>8. a + n <= str_buf_sz'
      BY <2>3, <3>2, <3>3, <3>4, <3>6, <3>7
    <3> QED
      BY Zenon, <1>1, <2>1, <2>3, <3>8 DEF StrPointer, StrAddr
  <2> QED
    BY Zenon, <1>1, <2>2, <2>3
<1>7. Owned(own)'
  BY Zenon, <1>1, <1>3, <1>4, <1>5, <1>6 DEF Owned, InStrBuf
<1> QED
  BY Zenon, <1>2, <1>7

\* Stuttering keeps the invariant.
LEMMA StutterInv ==
    ASSUME NEW own \in OwnerFun, Owned(own), UNCHANGED vars
    PROVE  Owned(own)'
<1>1. /\ UNCHANGED <<hashes, lens, pointers, str_buf, str_buf_sz, overrun, new_strings_lens,
                     new_strings_offsets, res_buckets, table_is_full, batch, phase>>
      /\ UNCHANGED <<pc, bucket_i, ptr, our_string>>
  BY Zenon DEF vars, table, strings, scan, regs
<1>2. Active' = Active
  BY Zenon, <1>1 DEF Active
<1>3. Owners(own)' /\ Distinct(own)'
  BY Zenon, <1>1 DEF Owned, Owners, Distinct
<1>4. phase = "kerAddData" => \A i \in Active : Thread(own, i)'
  BY Zenon, <1>1 DEF Owned, Thread
<1>5. \A b \in Bucket : pointers[b] \in Row => RowPointer(own, b)'
  BY Zenon, <1>1, <1>2 DEF Owned, RowPointer
<1>6. \A b \in Bucket : InStrBuf(pointers[b]) => StrPointer(own, b)'
  BY Zenon, <1>1 DEF Owned, StrPointer, StrAddr
<1> QED
  BY Zenon, <1>1, <1>2, <1>3, <1>4, <1>5, <1>6 DEF Owned, InStrBuf

\* Every step keeps the invariant, and every step but erase keeps the owners.
LEMMA OwnedStep ==
    ASSUME ExclusiveSums, TypeInv, phase \in {"kerCopyAddedStrings", "failed"} => Layout,
           NEW own \in OwnerFun, Owned(own), [Next]_vars
    PROVE  /\ \E new \in OwnerFun : Owned(new)' /\ (~erase => Extends(own, new))
           /\ phase' \in {"kerCopyAddedStrings", "failed"} => Layout'
<1> DEFINE Kept == /\ \E new \in OwnerFun : Owned(new)' /\ (~erase => Extends(own, new))
                   /\ phase' \in {"kerCopyAddedStrings", "failed"} => Layout'
<1>1. Extends(own, own)
  BY Zenon DEF Extends
<1>2. CASE erase
  <2>1. phase' = "idle"
    BY Zenon, <1>2 DEF erase, kerErase
  <2> QED
    BY Zenon, <1>2, <2>1, EraseInv
<1>3. ASSUME NEW rows \in Batches, addData(rows) \/ mergeToOtherTable(rows)
      PROVE  Kept
  <2>1. Launch(rows)
    BY Zenon, <1>3 DEF addData, mergeToOtherTable, kerFillEmptyResBucket
  <2>2. phase' = "kerAddData"
    BY Zenon, <2>1 DEF Launch, kerFillZero
  <2>3. Owned(own)'
    BY Zenon, <2>1, LaunchInv
  <2> QED
    BY Zenon, <1>1, <2>2, <2>3
<1>4. ASSUME NEW i \in Row, kerAddData(i)
      PROVE  Kept
  <2>1. phase' = "kerAddData"
    BY Zenon, <1>4 DEF kerAddData
  <2> QED
    BY Zenon, <1>4, <2>1, KernelInv
<1>5. CASE Scan
  BY Zenon, <1>1, <1>5, ScanInv
<1>6. ASSUME NEW i \in Row, kerCopyAddedStrings(i)
      PROVE  Kept
  <2>1. phase = "kerCopyAddedStrings"
    BY Zenon, <1>6 DEF kerCopyAddedStrings
  <2> QED
    BY Zenon, <1>1, <1>6, <2>1, CopyInv
<1>7. CASE Finish
  <2>1. phase = "kerCopyAddedStrings"
    BY Zenon, <1>7 DEF Finish
  <2> QED
    BY Zenon, <1>1, <1>7, <2>1, FinishInv
<1>8. CASE UNCHANGED vars
  <2>1. (phase \in {"kerCopyAddedStrings", "failed"} => Layout)'
    BY Zenon, <1>8 DEF vars, scan, Layout
  <2> QED
    BY Zenon, <1>1, <1>8, <2>1, StutterInv
<1> QED
  BY Zenon, <1>2, <1>3, <1>4, <1>5, <1>6, <1>7, <1>8 DEF Next

\* Every step keeps the invariant.
LEMMA InvStep ==
    ASSUME ExclusiveSums, Inv, [Next]_vars
    PROVE  Inv'
<1>1. PICK own \in OwnerFun : Owned(own)
  BY Zenon DEF Inv
<1>2. TypeInv'
  BY Zenon, TypeInvStep DEF Inv
<1>3. /\ \E new \in OwnerFun : Owned(new)'
      /\ phase' \in {"kerCopyAddedStrings", "failed"} => Layout'
  BY Zenon, <1>1, OwnedStep DEF Inv
<1> QED
  BY Zenon, <1>2, <1>3 DEF Inv

-----------------------------------------------------------------------------
(***************************************************************************)
(* The exclusive sum.                                                      *)
(***************************************************************************)
FST == INSTANCE FiniteSetTheorems

\* The cardinality that these theorems are about is that of the model.
LEMMA SameCardinality == ASSUME NEW S PROVE FST!Cardinality(S) = Cardinality(S)
  BY Zenon DEF FST!Cardinality, Cardinality

\* An exclusive sum gives different buckets disjoint ranges.
LEMMA DisjointRanges ==
    ASSUME NEW f \in [Bucket -> Nat]
    PROVE  /\ ExclusiveSum(f) \in [Bucket -> Nat]
           /\ \A b, c \in Bucket : b < c => ExclusiveSum(f)[b] + f[b] <= ExclusiveSum(f)[c]
<1>1. ASSUME NEW b \in Bucket
      PROVE  FST!IsFiniteSet(WordsBefore(f, b)) /\ FST!Cardinality(WordsBefore(f, b)) \in Nat
  <2>1. FST!IsFiniteSet(0..(b - 1))
    BY FST!FS_Interval, TableConstants DEF Bucket
  <2>2. \A c \in 0..(b - 1) : c \in Bucket /\ FST!IsFiniteSet({c} \X (1..f[c]))
    <3> TAKE c \in 0..(b - 1)
    <3>1. c \in Bucket /\ f[c] \in Nat
      BY TableConstants DEF Bucket
    <3>2. FST!IsFiniteSet(1..f[c])
      BY <3>1, FST!FS_Interval
    <3>3. FST!IsFiniteSet({c})
      BY Zenon, FST!FS_Singleton
    <3> QED
      BY Zenon, <3>1, <3>2, <3>3, FST!FS_Product
  <2> DEFINE W == {{c} \X (1..f[c]) : c \in 0..(b - 1)}
  <2>3. FST!IsFiniteSet(W)
    <3> DEFINE g == [c \in 0..(b - 1) |-> {c} \X (1..f[c])]
    <3>1. g \in FST!Surjection(0..(b - 1), W)
      BY Zenon DEF FST!Surjection
    <3> QED
      BY <2>1, <3>1, FST!FS_Surjection
  <2>4. FST!IsFiniteSet(UNION W)
    BY Zenon, <2>2, <2>3, FST!FS_UNION
  <2> QED
    BY Zenon, <2>4, FST!FS_CardinalityType DEF WordsBefore
<1>2. ASSUME NEW b \in Bucket, NEW c \in Bucket, b < c
      PROVE  FST!Cardinality(WordsBefore(f, b)) + f[b] <= FST!Cardinality(WordsBefore(f, c))
  <2> DEFINE A == WordsBefore(f, b)
             B == {b} \X (1..f[b])
             C == WordsBefore(f, c)
  <2>1. FST!IsFiniteSet(A) /\ FST!IsFiniteSet(C)
    BY Zenon, <1>1
  <2>2. f[b] \in Nat
    OBVIOUS
  <2>3. FST!IsFiniteSet(B) /\ FST!Cardinality(B) = f[b]
    <3>1. FST!IsFiniteSet(1..f[b]) /\ FST!Cardinality(1..f[b]) = f[b]
      BY <2>2, FST!FS_Interval
    <3>2. FST!IsFiniteSet({b}) /\ FST!Cardinality({b}) = 1
      BY Zenon, FST!FS_Singleton
    <3>3. FST!IsFiniteSet(B) /\ FST!Cardinality(B) = 1 * f[b]
      BY <3>1, <3>2, FST!FS_Product
    <3> QED
      BY <3>3, <2>2
  <2>4. A \cap B = {}
    BY <1>2, TableConstants DEF WordsBefore, Bucket
  <2>5. A \cup B \subseteq C
    <3>1. A \subseteq C
      <4>1. 0..(b - 1) \subseteq 0..(c - 1)
        BY <1>2, TableConstants DEF Bucket
      <4> QED
        BY Zenon, <4>1 DEF WordsBefore
    <3>2. b \in 0..(c - 1)
      BY <1>2, TableConstants DEF Bucket
    <3>3. B \subseteq C
      BY Zenon, <3>2 DEF WordsBefore
    <3> QED
      BY Zenon, <3>1, <3>3
  <2>6. FST!Cardinality(A \cup B) = FST!Cardinality(A) + FST!Cardinality(B)
    <3>1. FST!Cardinality(A \cap B) = 0
      BY Zenon, <2>4, FST!FS_EmptySet
    <3>2. FST!Cardinality(A) \in Nat /\ FST!Cardinality(B) \in Nat
      BY Zenon, <2>1, <2>3, FST!FS_CardinalityType
    <3>3. FST!Cardinality(A \cup B) = FST!Cardinality(A) + FST!Cardinality(B) - FST!Cardinality(A \cap B)
      BY Zenon, <2>1, <2>3, FST!FS_Union
    <3> QED
      BY <3>1, <3>2, <3>3
  <2>7. FST!Cardinality(A \cup B) <= FST!Cardinality(C)
    BY Zenon, <2>1, <2>5, FST!FS_Subset
  <2> QED
    BY Zenon, <2>3, <2>6, <2>7
<1>3. ExclusiveSum(f) = [b \in Bucket |-> FST!Cardinality(WordsBefore(f, b))]
  BY Zenon, SameCardinality DEF ExclusiveSum
<1> QED
  BY Zenon, <1>1, <1>2, <1>3

\* The ranges that Scan gives to new strings are disjoint.
LEMMA ExclusiveSumFacts == ExclusiveSums
  BY Zenon, DisjointRanges DEF ExclusiveSums
-----------------------------------------------------------------------------
(***************************************************************************)
(* Results.                                                                *)
(***************************************************************************)
\* Every interleaving of the GPU threads keeps the arrays and the registers
\* well-typed: no bucket index leaves the table, and the strings that addData
\* accounted for fit into str_buf.
THEOREM TypeCorrect == Spec => []TypeOK
<1>1. Init => TypeInv
  BY Zenon, TypeInvInit
<1>2. TypeInv /\ [Next]_vars => TypeInv'
  BY Zenon, ExclusiveSumFacts, TypeInvStep
<1>3. TypeInv => TypeOK
  BY Zenon DEF TypeInv
<1> QED
  BY <1>1, <1>2, <1>3, PTL DEF Spec

\* In every reachable state each claimed bucket of the table has one owner, and
\* every bucket before it, from the owner's home on, rejects the owner.
THEOREM InvAlways == Spec => []Inv
<1>1. Init => Inv
  BY Zenon, InvInit
<1>2. Inv /\ [Next]_vars => Inv'
  BY Zenon, ExclusiveSumFacts, InvStep
<1> QED
  BY <1>1, <1>2, PTL DEF Spec
\* However the GPU threads of a batch interleave on the three words of a
\* bucket, and whatever stale values their plain reads return, no string gets
\* two buckets: the host never meets "duplicates in GPU table".
THEOREM NoDuplicates == Spec => []NoDuplicateKeys
<1>1. Inv => NoDuplicateKeys
  <2> SUFFICES ASSUME Inv, NEW b \in Bucket, NEW c \in Bucket, NEW k \in Key, Holds(b, k), Holds(c, k)
               PROVE  b = c
    BY Zenon DEF NoDuplicateKeys
  <2>1. PICK own \in OwnerFun : Owned(own)
    BY Zenon DEF Inv
  <2>2. own[b] = k /\ own[c] = k
    BY Zenon, <2>1, HoldsOwner DEF Inv
  <2> QED
    BY Zenon, <2>1, <2>2, TableConstants DEF Owned, Distinct
<1> QED
  BY <1>1, InvAlways, PTL

\* A row that kerAddData does not give up on gets the bucket of its own string,
\* through the copying and until the next batch.
THEOREM RowsFindTheirString == Spec => []RowsGetTheirBucket
<1>1. Inv => RowsGetTheirBucket
  <2> SUFFICES ASSUME Inv, NEW i \in Active, pc[i] \in {"done", "copy"}, ~table_is_full, ~overrun
               PROVE  res_buckets[i] \in Bucket /\ Holds(res_buckets[i], batch[i])
    BY Zenon DEF RowsGetTheirBucket
  <2>1. PICK own \in OwnerFun : Owned(own)
    BY Zenon DEF Inv
  <2>2. batch[i] \in Key
    BY Zenon, ActiveFacts DEF Inv, TypeInv
  <2>3. res_buckets[i] \in Bucket /\ own[res_buckets[i]] = batch[i]
    <3>1. CASE phase = "kerAddData"
      <4>1. pc[i] = "done"
        BY Zenon, <3>1 DEF Inv, TypeInv, Threads, Working
      <4> QED
        BY Zenon, <2>1, <3>1, <4>1 DEF Owned, Thread
    <3>2. CASE phase # "kerAddData"
      BY Zenon, <2>1, <3>2 DEF Owned
    <3> QED
      BY Zenon, <3>1, <3>2
  <2>4. own[res_buckets[i]] # NoKey
    BY Zenon, <2>2, <2>3, TableConstants
  <2> QED
    BY Zenon, <2>1, <2>3, <2>4, OwnerHolds DEF Inv
<1> QED
  BY <1>1, InvAlways, PTL

\* Between two calls of addData every string of the table lies in the used part
\* of str_buf, whole and not overwritten.
THEOREM StringsStayIntact == Spec => []StringsIntact
<1>1. Inv => StringsIntact
  <2> SUFFICES ASSUME Inv, phase = "idle", NEW b \in Bucket, pointers[b] # Null
               PROVE  /\ InStrBuf(pointers[b])
                      /\ \E k \in Key : /\ StringAt(pointers[b], k)
                                        /\ StrAddr(pointers[b]) + StoredLen(k) <= str_buf_sz
    BY Zenon DEF StringsIntact
  <2>1. PICK own \in OwnerFun : Owned(own)
    BY Zenon DEF Inv
  <2>2. own[b] # NoKey
    BY Zenon, <2>1 DEF Owned, Owners
  <2>3. own[b] \in Key /\ Holds(b, own[b])
    BY Zenon, <2>1, <2>2, OwnerHolds DEF Inv
  <2>4. InStrBuf(pointers[b])
    <3>1. pointers[b] \notin Row
      BY Zenon, <2>1 DEF Owned, RowPointer
    <3>2. pointers[b] \in Nat
      BY Zenon DEF Inv, TypeInv, TypeOK
    <3> QED
      BY <3>1, <3>2, TableConstants DEF InStrBuf, Row, Null
  <2>5. StrAddr(pointers[b]) + StoredLen(own[b]) <= str_buf_sz
    BY Zenon, <2>1, <2>4 DEF Owned, StrPointer
  <2> QED
    BY Zenon, <2>3, <2>4, <2>5 DEF Holds
<1> QED
  BY <1>1, InvAlways, PTL

\* OwnerHolds as a formula, for the next state.
LEMMA OwnersHold ==
    TypeInv => \A own \in OwnerFun :
        Owned(own) /\ ~overrun => \A b \in Bucket : own[b] # NoKey => Holds(b, own[b])
  BY Zenon, OwnerHolds

\* A bucket keeps its string until the table is erased: a later batch does not
\* replace it, and copying it into str_buf does not change it.
THEOREM BucketsKeepStrings == Spec => BucketsKeepTheirString
<1>1. (TypeInv => \A own \in OwnerFun :
          Owned(own) /\ ~overrun => \A b \in Bucket : own[b] # NoKey => Holds(b, own[b]))'
  BY OwnersHold, PTL
<1>2. ASSUME Inv, [Next]_vars
      PROVE  ~erase => \A b \in Bucket : \A k \in Key : Holds(b, k) /\ ~overrun' => Holds(b, k)'
  <2> SUFFICES ASSUME ~erase, NEW b \in Bucket, NEW k \in Key, Holds(b, k), ~overrun'
               PROVE  Holds(b, k)'
    OBVIOUS
  <2>1. PICK own \in OwnerFun : Owned(own)
    BY Zenon, <1>2 DEF Inv
  <2>2. own[b] = k
    BY Zenon, <1>2, <2>1, HoldsOwner DEF Inv
  <2>3. PICK new \in OwnerFun : Owned(new)' /\ Extends(own, new)
    BY Zenon, <1>2, <2>1, ExclusiveSumFacts, OwnedStep DEF Inv
  <2>4. new[b] = k /\ new[b] # NoKey
    BY Zenon, <2>2, <2>3, TableConstants DEF Extends
  <2>5. TypeInv'
    BY Zenon, <1>2, ExclusiveSumFacts, TypeInvStep DEF Inv
  <2>6. Holds(b, new[b])'
    BY Zenon, <1>1, <2>3, <2>4, <2>5
  <2> QED
    BY Zenon, <2>4, <2>6
<1> QED
  BY <1>2, InvAlways, PTL DEF Spec, BucketsKeepTheirString
=============================================================================
