-------------------- MODULE CudaStringsHashTableInvariant --------------------
(***************************************************************************)
(* The inductive invariant behind the theorems on CudaStringsHashTable.    *)
(*                                                                         *)
(* It speaks of a function own that says which key each bucket belongs to, *)
(* from the atomicCAS on its pointer on, wherever the string lies at the   *)
(* moment: in a row of the batch, in str_buf, or cut off by its end.       *)
(***************************************************************************)
EXTENDS CudaStringsHashTable

\* The buckets a thread has passed on its way from bucket h to bucket b.
Between(h, b) == IF h <= b THEN h..(b - 1) ELSE (h..(buckets_num - 1)) \cup (0..(b - 1))

\* In a table with hashes h and lengths l, bucket c is taken and can never
\* become the bucket of key k.
Rejects(h, l, own, c, k) ==
    /\ h[c] # EmptyHash
    /\ \/ h[c] # HashOf(k)
       \/ l[c] \notin {EmptyLen, ByteLen[k]}
       \/ own[c] \notin {NoKey, k}

PathTo(h, l, own, k, b) == \A c \in Between(Home(k), b) : Rejects(h, l, own, c, k)

\* A bucket with an owner has the owner's hash and length, and all buckets
\* before it, from the owner's home on, reject the owner.
Owners(own) ==
    \A b \in Bucket :
        /\ pointers[b] = Null <=> own[b] = NoKey
        /\ own[b] # NoKey =>
             /\ hashes[b] = HashOf(own[b])
             /\ lens[b] = ByteLen[own[b]]
             /\ PathTo(hashes, lens, own, own[b], b)

Distinct(own) ==
    \A b, c \in Bucket : own[b] # NoKey /\ own[b] = own[c] => b = c

Working == {"hash", "hashCAS", "len", "lenCAS", "ptr", "ptrCAS", "compare"}
HashFits == {"len", "lenCAS", "ptr", "ptrCAS", "compare"}
LenFits  == {"ptr", "ptrCAS", "compare"}

\* What a GPU thread of kerAddData knows about the bucket it looks at.
Thread(own, i) ==
    LET k == batch[i]
        b == bucket_i[i]
    IN /\ pc[i] \in Working => PathTo(hashes, lens, own, k, b)
       /\ pc[i] \in HashFits => hashes[b] = HashOf(k)
       /\ pc[i] \in LenFits => lens[b] = ByteLen[k]
       /\ pc[i] = "compare" => ptr[i] = pointers[b] /\ ptr[i] # Null
       /\ pc[i] = "done" => res_buckets[i] \in Bucket /\ own[res_buckets[i]] = k
       /\ pc[i] = "full" => table_is_full
       /\ our_string[i] => \/ pc[i] = "compare" /\ pointers[b] = RowPtr(i)
                           \/ pc[i] = "done"

\* A pointer into the batch belongs to a row that still has to copy its string.
RowPointer(own, b) ==
    LET i == pointers[b] IN
    /\ i \in Active
    /\ own[b] = batch[i]
    /\ \/ /\ phase = "kerAddData"
          /\ our_string[i] /\ bucket_i[i] = b
          /\ \/ pc[i] = "compare"
             \/ /\ pc[i] = "done"
                /\ res_buckets[i] = b
                /\ new_strings_lens[b] = StoredLen(own[b])
       \/ /\ phase = "kerCopyAddedStrings"
          /\ pc[i] = "copy"
          /\ res_buckets[i] = b
          /\ new_strings_lens[b] = StoredLen(own[b])

\* A pointer into str_buf leads to the owner's words, as far as str_buf goes,
\* in the used part or in the part this batch has reserved for the bucket.
StrPointer(own, b) ==
    LET a == StrAddr(pointers[b])
        n == StoredLen(own[b])
    IN /\ \A w \in 0..(n - 1) : a + w < str_buf_max_sz => str_buf[a + w] = <<own[b], w>>
       /\ \/ a + n <= str_buf_sz
          \/ /\ phase \in {"kerCopyAddedStrings", "failed"}
             /\ a = str_buf_sz + new_strings_offsets[b]
             /\ n = new_strings_lens[b]
             /\ ~overrun => a + n <= str_buf_max_sz

\* The words reserved for different buckets do not overlap.
Layout ==
    \A b, c \in Bucket : b < c =>
        new_strings_offsets[b] + new_strings_lens[b] <= new_strings_offsets[c]

\* What the invariant says with the owners given.
Owned(own) ==
    /\ Owners(own)
    /\ Distinct(own)
    /\ phase = "kerAddData" => \A i \in Active : Thread(own, i)
    /\ \A b \in Bucket : pointers[b] \in Row => RowPointer(own, b)
    /\ \A b \in Bucket : InStrBuf(pointers[b]) => StrPointer(own, b)
    /\ phase # "kerAddData" /\ ~table_is_full =>
         \A i \in Active : res_buckets[i] \in Bucket /\ own[res_buckets[i]] = batch[i]

OwnerFun == [Bucket -> Key \cup {NoKey}]

\* Owners stay.
Extends(own, new) == \A b \in Bucket : own[b] # NoKey => new[b] = own[b]

\* Only the rows of the batch have threads, and only while a kernel runs.
Threads ==
    /\ \A i \in Row \ Active : pc[i] = "done"
    /\ phase \in {"idle", "failed"} => \A i \in Row : pc[i] = "done"
    /\ phase = "kerAddData" => \A i \in Active : pc[i] \in Working \cup {"done", "full"}
    /\ phase = "kerCopyAddedStrings" => \A i \in Active : pc[i] \in {"copy", "done"}

TypeInv == TypeOK /\ Threads

Inv ==
    /\ TypeInv
    /\ phase \in {"kerCopyAddedStrings", "failed"} => Layout
    /\ \E own \in OwnerFun : Owned(own)
=============================================================================
