----------------------- MODULE MCCudaStringsHashTable -----------------------
(***************************************************************************)
(* Instances of the hash table for TLC, and the refinement of the contract *)
(* StringsTable.                                                           *)
(***************************************************************************)
EXTENDS CudaStringsHashTable, TLC

CONSTANTS k1, k2, k3, k4

Keys == {k1, k2, k3, k4}

\* k1 and k2 collide in hash and length, k4 with both in the hash only; k3 has another home
\* bucket and the hash value 0 that the kernel must avoid.
Hashes == (k1 :> 4) @@ (k2 :> 4) @@ (k3 :> 0) @@ (k4 :> 4)
\* 9 bytes are two words, 8 bytes just one.
Lens == (k1 :> 9) @@ (k2 :> 9) @@ (k3 :> 8) @@ (k4 :> 3)

\* Of three buckets and four words, the second batch alone exceeds the words, the third and
\* the fourth together use up both exactly, and with the first they exceed the buckets.
RacingBatches == {<<k1, k2, k1>>, <<k3, k1, k2>>, <<k4, NoKey, k3>>, <<k4, k1, k4>>}
KeySetsOf(B) == {{b[i] : i \in DOMAIN b} \ {NoKey} : b \in B}

\* The strings that a finished addData accounted for.
CommittedKeys ==
    {k \in Key : \E b \in Bucket :
        /\ InStrBuf(pointers[b])
        /\ StringAt(pointers[b], k)
        /\ StrAddr(pointers[b]) + StoredLen(k) <= str_buf_sz}

Contract == INSTANCE StringsTable WITH
    Size    <- [k \in Key |-> StoredLen(k)],
    MaxKeys <- buckets_num,
    MaxSize <- str_buf_max_sz,
    KeySets <- KeySetsOf(Batches),
    keys    <- CommittedKeys,
    request <- IF phase \in {"idle", "failed"} THEN {{}} ELSE BatchKeys,
    failed  <- phase = "failed"

\* To its callers addData is one step: it adds all the keys of the batch, or it
\* throws, and it throws exactly when the distinct keys exceed the buckets or
\* their total length exceeds the string buffer.
ImplementsContract == Contract!Spec
=============================================================================
