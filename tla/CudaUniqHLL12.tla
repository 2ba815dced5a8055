--------------------------- MODULE CudaUniqHLL12 ---------------------------
(***************************************************************************)
(* The states of uniqHLL12 on the GPU: a set of at most small_set_size     *)
(* values that turns into a HyperLogLog counter, kept up to date all along *)
(* (CudaHyperLogLogWithSmallSetOptimization).                              *)
(*                                                                         *)
(* kerCudaAddBulk has a thread per row and rows of one group race on its   *)
(* state; every atomic operation and every plain read is a step.           *)
(* kerCudaMergeBulk merges place 1 into place 0 with one thread.  Values   *)
(* are hashes of strings; BucketOf and RankOf are what the counter makes   *)
(* of them.  The estimate computed from the counters is left out.          *)
(***************************************************************************)
EXTENDS Integers, Sequences, FiniteSets

CONSTANTS
    Value,            \* contains 0, which buf uses for "free"
    BucketOf,         \* [Value -> HBucket], the first bits of the hash
    RankOf,           \* [Value -> 1..max_rank], trailing zeros of the rest
    bucket_count, max_rank, capacity,
    CounterRange,     \* counters wrap around at it: 2^32 and 2^16 in the code
    MaxRows,
    Batches           \* the rows of a batch: [place, value]

Place   == {0, 1}
HBucket == 0..(bucket_count - 1)
Rank    == 0..max_rank
Slot    == 1..capacity
GpuThread == 1..MaxRows

ASSUME UniqConstants ==
    /\ 0 \in Value
    /\ bucket_count \in Nat \ {0} /\ max_rank \in Nat \ {0} /\ capacity \in Nat \ {0} /\ MaxRows \in Nat \ {0}
    /\ CounterRange \in Nat /\ CounterRange > bucket_count
    /\ BucketOf \in [Value -> HBucket]
    /\ RankOf \in [Value -> 1..max_rank]
    /\ Batches \subseteq {s \in Seq([place : Place, value : Value]) : Len(s) \in 1..MaxRows}

VARIABLES
    is_large, has_zero_elem, buf,       \* the small set of each place
    rank_store, zeros, rank_count,      \* the counter of each place
    todo,                               \* what is left to do for a thread
    pc, i, old_rank,                    \* registers of a thread
    added, merged                       \* history: values given to a place

set     == <<is_large, has_zero_elem, buf>>
counter == <<rank_store, zeros, rank_count>>
history == <<added, merged>>
vars    == <<set, counter, todo, pc, i, old_rank, history>>

Idle == \A t \in GpuThread : todo[t] = <<>>
Task(t) == Head(todo[t])

Insert(p, v)    == [place |-> p, bucket |-> BucketOf[v], rank |-> RankOf[v], value |-> v, small |-> TRUE]
Update(p, b, r) == [place |-> p, bucket |-> b, rank |-> r, value |-> 0, small |-> FALSE]
-----------------------------------------------------------------------------
\* cudaMemset and kerCudaInitAggregateData.
Init ==
    /\ is_large = [p \in Place |-> FALSE]
    /\ has_zero_elem = [p \in Place |-> FALSE]
    /\ buf = [p \in Place |-> [s \in Slot |-> 0]]
    /\ rank_store = [p \in Place |-> [b \in HBucket |-> 0]]
    /\ zeros = [p \in Place |-> bucket_count]
    /\ rank_count = [p \in Place |-> [r \in Rank |-> IF r = 0 THEN bucket_count ELSE 0]]
    /\ todo = [t \in GpuThread |-> <<>>]
    /\ pc = [t \in GpuThread |-> "max"]
    /\ i = [t \in GpuThread |-> 1]
    /\ old_rank = [t \in GpuThread |-> 0]
    /\ added = [p \in Place |-> {}]
    /\ merged = FALSE

kerCudaAddBulk(rows) ==
    /\ Idle /\ ~merged
    /\ todo' = [t \in GpuThread |-> IF t \in DOMAIN rows
                                      THEN <<Insert(rows[t].place, rows[t].value)>> ELSE <<>>]
    /\ added' = [p \in Place |-> added[p] \cup
                    {rows[t].value : t \in {u \in DOMAIN rows : rows[u].place = p}}]
    /\ UNCHANGED <<set, counter, pc, i, old_rank, merged>>

Used(p) == {s \in Slot : buf[p][s] # 0}

\* sizeWithoutZeroElem counts the elements and returns the count as a bool.
sizeWithoutZeroElem(p) == IF Used(p) = {} THEN 0 ELSE 1

\* Defective variant: the zero element is forgotten.
MergeTasks_NoZero(from, to) ==
    IF is_large[from]
      THEN [b \in 1..bucket_count |-> Update(to, b - 1, rank_store[from][b - 1])]
      ELSE [s \in 1..sizeWithoutZeroElem(from) |-> Insert(to, buf[from][s])]

\* merge: the ranks of a large set, or the elements of a small one.
MergeTasks(from, to) ==
    IF is_large[from]
      THEN [b \in 1..bucket_count |-> Update(to, b - 1, rank_store[from][b - 1])]
      ELSE [s \in 1..sizeWithoutZeroElem(from) |-> Insert(to, buf[from][s])]
             \o (IF has_zero_elem[from] THEN <<Insert(to, 0)>> ELSE <<>>)

kerCudaMergeBulk ==
    /\ Idle /\ ~merged
    /\ merged' = TRUE
    /\ is_large' = [is_large EXCEPT ![0] = @ \/ is_large[1]]
    /\ todo' = [todo EXCEPT ![1] = MergeTasks(1, 0)]
    /\ added' = [added EXCEPT ![0] = @ \cup added[1]]
    /\ UNCHANGED <<has_zero_elem, buf, counter, pc, i, old_rank>>
-----------------------------------------------------------------------------
(***************************************************************************)
(* One task of a thread: CudaHyperLogLogCounter::update, and then, for an  *)
(* insert, CudaSmallSet::tryInsert.                                        *)
(***************************************************************************)
Goto(t, label) == pc' = [pc EXCEPT ![t] = label] /\ UNCHANGED <<todo, i>>

Done(t) ==
    /\ todo' = [todo EXCEPT ![t] = Tail(@)]
    /\ pc' = [pc EXCEPT ![t] = "max"]
    /\ i' = [i EXCEPT ![t] = 1]

\* Defective variant: a plain store in place of the atomicMax.
NewRank_Stored(old, rank) == rank
\* atomicMax
NewRank(old, rank) == IF rank > old THEN rank ELSE old

AtomicMax(t) ==
    LET k   == Task(t)
        old == rank_store[k.place][k.bucket]
    IN /\ pc[t] = "max"
       /\ rank_store' = [rank_store EXCEPT ![k.place][k.bucket] = NewRank(old, k.rank)]
       /\ old_rank' = [old_rank EXCEPT ![t] = old]
       /\ Goto(t, IF k.rank > old THEN "zeros" ELSE "small")
       /\ UNCHANGED <<set, zeros, rank_count>>

WasZero(old) == old = 0

SubZeros(t) ==
    /\ pc[t] = "zeros"
    /\ zeros' = IF WasZero(old_rank[t])
                  THEN [zeros EXCEPT ![Task(t).place] = (@ + CounterRange - 1) % CounterRange]
                  ELSE zeros
    /\ Goto(t, "sub")
    /\ UNCHANGED <<set, rank_store, rank_count, old_rank>>

\* Denominator::update: two atomic operations, and the first may come before
\* the addition that it takes back.
SubRank(t) ==
    /\ pc[t] = "sub"
    /\ rank_count' = [rank_count EXCEPT ![Task(t).place][old_rank[t]] = (@ + CounterRange - 1) % CounterRange]
    /\ Goto(t, "add")
    /\ UNCHANGED <<set, rank_store, zeros, old_rank>>

AddRank(t) ==
    /\ pc[t] = "add"
    /\ rank_count' = [rank_count EXCEPT ![Task(t).place][Task(t).rank] = (@ + 1) % CounterRange]
    /\ Goto(t, "small")
    /\ UNCHANGED <<set, rank_store, zeros, old_rank>>

\* is_large is a plain read that may miss another thread's store.
CheckLarge(t) ==
    LET k == Task(t) IN
    /\ pc[t] = "small"
    /\ \/ (~k.small \/ is_large[k.place]) /\ Done(t) /\ UNCHANGED has_zero_elem
       \/ k.small /\ k.value = 0 /\ Done(t) /\ has_zero_elem' = [has_zero_elem EXCEPT ![k.place] = TRUE]
       \/ k.small /\ k.value # 0 /\ Goto(t, "load") /\ UNCHANGED has_zero_elem
    /\ UNCHANGED <<is_large, buf, counter, old_rank>>

LastSlot(s) == s = capacity

\* The next slot; after the last one the set becomes large.
NextSlot(t) ==
    IF LastSlot(i[t])
      THEN is_large' = [is_large EXCEPT ![Task(t).place] = TRUE] /\ Done(t)
      ELSE /\ i' = [i EXCEPT ![t] = @ + 1]
           /\ pc' = [pc EXCEPT ![t] = "load"]
           /\ UNCHANGED <<is_large, todo>>

\* The plain read of a slot, which may miss a CAS of another thread.
LoadSlot(t) ==
    LET k == Task(t) IN
    /\ pc[t] = "load"
    /\ \E x \in {buf[k.place][i[t]], 0} :
         \/ x = k.value /\ Done(t) /\ UNCHANGED is_large
         \/ x = 0 /\ Goto(t, "cas") /\ UNCHANGED is_large
         \/ x \notin {0, k.value} /\ NextSlot(t)
    /\ UNCHANGED <<has_zero_elem, buf, counter, old_rank>>

\* Defective variant: a plain store in place of the atomicCAS.
CasSlot_PlainStore(t) ==
    /\ pc[t] = "cas"
    /\ buf' = [buf EXCEPT ![Task(t).place][i[t]] = Task(t).value]
    /\ Done(t)
    /\ UNCHANGED <<is_large, has_zero_elem, counter, old_rank>>

CasSlot(t) ==
    LET k   == Task(t)
        old == buf[k.place][i[t]]
    IN /\ pc[t] = "cas"
       /\ buf' = IF old = 0 THEN [buf EXCEPT ![k.place][i[t]] = k.value] ELSE buf
       /\ IF old \in {0, k.value} THEN Done(t) /\ UNCHANGED is_large ELSE NextSlot(t)
       /\ UNCHANGED <<has_zero_elem, counter, old_rank>>

Step(t) ==
    /\ todo[t] # <<>>
    /\ \/ AtomicMax(t) \/ SubZeros(t) \/ SubRank(t) \/ AddRank(t)
       \/ CheckLarge(t) \/ LoadSlot(t) \/ CasSlot(t)
    /\ UNCHANGED history

Next ==
    \/ \E rows \in Batches : kerCudaAddBulk(rows)
    \/ kerCudaMergeBulk
    \/ \E t \in GpuThread : Step(t)

Spec == Init /\ [][Next]_vars
-----------------------------------------------------------------------------
(***************************************************************************)
(* Properties.                                                             *)
(***************************************************************************)
\* Every variable has its type: slots stay within the small set.
TypeOK ==
    /\ is_large \in [Place -> BOOLEAN] /\ has_zero_elem \in [Place -> BOOLEAN]
    /\ buf \in [Place -> [Slot -> Value]]
    /\ rank_store \in [Place -> [HBucket -> Rank]]
    /\ zeros \in [Place -> 0..(CounterRange - 1)]
    /\ rank_count \in [Place -> [Rank -> 0..(CounterRange - 1)]]
    /\ pc \in [GpuThread -> {"max", "zeros", "sub", "add", "small", "load", "cas"}]
    /\ i \in [GpuThread -> Slot]
    /\ old_rank \in [GpuThread -> Rank]

Elements(p) == {buf[p][s] : s \in Used(p)} \cup (IF has_zero_elem[p] THEN {0} ELSE {})
size(p)     == Cardinality(Used(p)) + (IF has_zero_elem[p] THEN 1 ELSE 0)
SetExact(p) == ~is_large[p] => Elements(p) = added[p] /\ size(p) = Cardinality(added[p])

\* However the inserts of racing rows interleave, a small set has every value
\* of its group once, its elements fill the slots without a gap, and it becomes
\* large only when it has more values than slots, its own or merged into it.
SmallSetExact ==
    /\ TypeOK
    /\ Idle /\ ~merged => \A p \in Place :
          SetExact(p) /\ \A s \in Used(p) : \A r \in 1..s : r \in Used(p)
    /\ \A p \in Place : is_large[p] => Cardinality(added[p] \ {0}) > capacity

MaxRankOf(values, b) ==
    LET ranks == {RankOf[v] : v \in {u \in values : BucketOf[u] = b}} \cup {0}
    IN CHOOSE r \in ranks : \A q \in ranks : q <= r
RanksExact(p) == \A b \in HBucket : rank_store[p][b] = MaxRankOf(added[p], b)

\* When a batch has been added, and when a large state has been merged, each bucket
\* has the largest rank of its values, and zeros and rank_count describe the ranks,
\* though each is updated by atomic operations of its own that wrap around meanwhile.
RanksAndCountersExact ==
    /\ Idle /\ (merged => is_large[1]) => \A p \in Place : RanksExact(p)
    /\ Idle => \A p \in Place :
          /\ zeros[p] = Cardinality({b \in HBucket : rank_store[p][b] = 0})
          /\ \A r \in Rank : rank_count[p][r] = Cardinality({b \in HBucket : rank_store[p][b] = r})

\* What a merge from a small set leaves out: sizeWithoutZeroElem returns a bool.
LaterSlots == IF is_large[1] THEN {} ELSE {buf[1][s] : s \in Used(1) \ {1}}

\* A merged state is that of the values of both places, except that it may miss those that a
\* small source has behind its first slot; nothing else is lost or made up, whichever of the
\* two was large and whether or not the merge made the result large.
MergeMissesOnlyLaterSlots ==
    Idle /\ merged =>
        LET kept == added[0] \ LaterSlots IN
        /\ ~is_large[0] => kept \subseteq Elements(0) /\ Elements(0) \subseteq added[0]
        /\ \A b \in HBucket : rank_store[0][b] \in MaxRankOf(kept, b)..MaxRankOf(added[0], b)
=============================================================================
