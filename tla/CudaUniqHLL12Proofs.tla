------------------------ MODULE CudaUniqHLL12Proofs ------------------------
(***************************************************************************)
(* Proofs for CudaUniqHLL12: the three invariants, for any number of       *)
(* threads, buckets, slots and values.                                     *)
(*                                                                         *)
(* The argument has two halves that meet only in the tasks of a thread.    *)
(* The small set: a slot is taken once and keeps its value, and a thread   *)
(* that looks at slot i has seen every slot before it taken by another     *)
(* value.  The counter: the steps that a thread has still to make after    *)
(* its atomicMax are an interval of ranks, old_rank to rank, of one        *)
(* bucket, and the intervals of two threads never overlap; so the counters *)
(* are at any time the cardinalities of sets of buckets.                   *)
(***************************************************************************)
EXTENDS CudaUniqHLL12, TLAPS

TaskType == [place : Place, bucket : HBucket, rank : Rank, value : Value, small : BOOLEAN]

Types ==
    /\ TypeOK
    /\ todo \in [GpuThread -> Seq(TaskType)]
    /\ added \in [Place -> SUBSET Value]
    /\ \A p \in Place : IsFiniteSet(added[p])
    /\ merged \in BOOLEAN

\* The registers of a thread. One that is at slot i has passed the slots
\* before it, which other values have.
Registers(t) ==
    /\ todo[t] = <<>> => pc[t] = "max"
    /\ pc[t] \notin {"load", "cas"} => i[t] = 1
    /\ pc[t] \in {"load", "cas"} =>
          /\ Task(t).small /\ Task(t).value # 0
          /\ \A s \in Slot : s < i[t] => buf[Task(t).place][s] \notin {0, Task(t).value}

RanksOf(values, b) == {RankOf[v] : v \in {u \in values : BucketOf[u] = b}} \cup {0}

\* A task stands for a value that was given to its place.
TaskOK(k) ==
    /\ merged => k.place = 0
    /\ k.rank \in RanksOf(added[k.place], k.bucket)
    /\ k.small => k.value \in added[k.place] /\ k.bucket = BucketOf[k.value] /\ k.rank = RankOf[k.value]

Tasks == \A t \in GpuThread : \A n \in DOMAIN todo[t] : TaskOK(todo[t][n])

\* The slots fill from the first one, each with a value of its own.
Slots(p) ==
    /\ \A s \in Slot : buf[p][s] # 0 =>
          buf[p][s] \in added[p] /\ \A r \in Slot : r < s => buf[p][r] \notin {0, buf[p][s]}
    /\ has_zero_elem[p] => 0 \in added[p]
    /\ is_large[p] => Cardinality(added[p] \ {0}) > capacity

\* The values that the state of a place must reflect, now or when the tasks are done.
Due(p) == IF merged /\ p = 0 THEN added[0] \ LaterSlots ELSE added[p]

Awaited(p, v) ==
    \E t \in GpuThread : \E n \in DOMAIN todo[t] :
        todo[t][n].small /\ todo[t][n].place = p /\ todo[t][n].value = v

Rises(p, b, r) ==
    \E t \in GpuThread : \E n \in DOMAIN todo[t] :
        /\ n > 1 \/ pc[t] = "max"
        /\ todo[t][n].place = p /\ todo[t][n].bucket = b /\ todo[t][n].rank >= r

\* No value is lost, and no rank is made up.
Complete(p) ==
    /\ \A v \in Due(p) : is_large[p] \/ v \in Elements(p) \/ Awaited(p, v)
    /\ \A v \in Due(p) : \/ rank_store[p][BucketOf[v]] >= RankOf[v]
                         \/ Rises(p, BucketOf[v], RankOf[v])
    /\ \A b \in HBucket : rank_store[p][b] \in RanksOf(added[p], b)

\* A thread that has raised a rank and has still to tell the counters.
Flight(t) == todo[t] # <<>> /\ pc[t] \in {"zeros", "sub", "add"}
At(t, p, b) == Flight(t) /\ Task(t).place = p /\ Task(t).bucket = b

Flights ==
    /\ \A t \in GpuThread : Flight(t) =>
          old_rank[t] < Task(t).rank /\ Task(t).rank <= rank_store[Task(t).place][Task(t).bucket]
    /\ \A t, u \in GpuThread : \A p \in Place : \A b \in HBucket : t # u /\ At(t, p, b) /\ At(u, p, b)
          => Task(t).rank <= old_rank[u] \/ Task(u).rank <= old_rank[t]

\* The buckets that zeros and rank_count count, and those that rank_count has
\* still to count.
ZeroSet(p) == {b \in HBucket : \/ rank_store[p][b] = 0
                               \/ \E t \in GpuThread : At(t, p, b) /\ pc[t] = "zeros" /\ old_rank[t] = 0}
Plus(p, r) == {b \in HBucket : \/ rank_store[p][b] = r
                               \/ \E t \in GpuThread : At(t, p, b) /\ pc[t] \in {"zeros", "sub"} /\ old_rank[t] = r}
Minus(p, r) == {b \in HBucket : \E t \in GpuThread : At(t, p, b) /\ Task(t).rank = r}

Wrapped(a, b) == IF a >= b THEN a - b ELSE a - b + CounterRange

Counters(p) ==
    /\ zeros[p] = Cardinality(ZeroSet(p))
    /\ \A r \in Rank : rank_count[p][r] = Wrapped(Cardinality(Plus(p, r)), Cardinality(Minus(p, r)))

\* The inductive invariant.
HInv ==
    /\ Types
    /\ \A t \in GpuThread : Registers(t)
    /\ Tasks
    /\ \A p \in Place : Slots(p)
    /\ \A p \in Place : Complete(p)
    /\ Flights
    /\ \A p \in Place : Counters(p)
-----------------------------------------------------------------------------
\* What is known of cardinalities, of numbers and of the remainder
Counting ==
    /\ \A S, T : IsFiniteSet(T) /\ S \subseteq T => IsFiniteSet(S) /\ Cardinality(S) <= Cardinality(T)
    /\ \A S : IsFiniteSet(S) => Cardinality(S) \in Nat
    /\ \A S, x : IsFiniteSet(S) /\ x \notin S => Cardinality(S \cup {x}) = Cardinality(S) + 1
    /\ \A S, T : IsFiniteSet(S) /\ IsFiniteSet(T) => IsFiniteSet(S \cup T)
    /\ \A f : \A U \in SUBSET GpuThread : IsFiniteSet({f[t] : t \in U})
    /\ \A f : \A U \in SUBSET Slot : (\A r, s \in U : f[r] = f[s] => r = s)
          => IsFiniteSet({f[s] : s \in U}) /\ Cardinality({f[s] : s \in U}) = Cardinality(U)
    /\ IsFiniteSet(HBucket) /\ Cardinality(HBucket) = bucket_count
    /\ Cardinality(Slot) = capacity
    /\ IsFiniteSet({}) /\ Cardinality({}) = 0

Remainder ==
    /\ \A x \in 0..(CounterRange - 1) :
          (x + CounterRange - 1) % CounterRange = IF x = 0 THEN CounterRange - 1 ELSE x - 1
    /\ \A x \in 0..(CounterRange - 1) :
          (x + 1) % CounterRange = IF x = CounterRange - 1 THEN 0 ELSE x + 1

LEMMA Constants ==
    /\ 0 \in Value /\ bucket_count \in Nat /\ bucket_count > 0 /\ max_rank \in Nat /\ max_rank > 0
    /\ capacity \in Nat /\ capacity > 0 /\ MaxRows \in Nat /\ MaxRows > 0
    /\ CounterRange \in Nat /\ CounterRange > bucket_count
    /\ BucketOf \in [Value -> HBucket] /\ RankOf \in [Value -> 1..max_rank]
BY UniqConstants

LEMMA Sets ==
    /\ 1 \in GpuThread /\ 0 \in Place /\ 1 \in Place /\ 0 \in Rank /\ 1 \in Slot /\ 0 # 1
    /\ \A s \in Slot : s \in Nat /\ s >= 1 /\ s <= capacity
    /\ \A r \in Rank : r \in Nat /\ r <= max_rank
    /\ \A v \in Value : BucketOf[v] \in HBucket /\ RankOf[v] \in Rank /\ RankOf[v] > 0
BY Constants DEF GpuThread, Place, Rank, Slot

\* The remainder of a counter that goes down or up by one
LEMMA RemainderFacts == Remainder
<1> DEFINE R == CounterRange
<1>1. R \in Nat /\ R > 1
  BY Constants
<1> HIDE DEF R
<1>2. ASSUME NEW x \in 0..(R - 1) PROVE (x + R - 1) % R = IF x = 0 THEN R - 1 ELSE x - 1
  BY <1>1, <1>2
<1>3. ASSUME NEW x \in 0..(R - 1) PROVE (x + 1) % R = IF x = R - 1 THEN 0 ELSE x + 1
  BY <1>1, <1>3
<1> QED
  BY Zenon, <1>2, <1>3 DEF Remainder, R

\* The task at the head of a thread's list, and the list without it
LEMMA HeadFacts ==
    ASSUME Types, NEW t \in GpuThread, todo[t] # <<>>
    PROVE  /\ 1 \in DOMAIN todo[t] /\ Task(t) = todo[t][1] /\ Task(t) \in TaskType
           /\ Tail(todo[t]) \in Seq(TaskType)
           /\ \A n \in DOMAIN Tail(todo[t]) : n \in Nat /\ n > 0 /\ n + 1 \in DOMAIN todo[t] /\ Tail(todo[t])[n] = todo[t][n + 1]
           /\ \A n \in DOMAIN todo[t] : n > 1 => n - 1 \in DOMAIN Tail(todo[t]) /\ n - 1 + 1 = n
           /\ \A n \in DOMAIN todo[t] : n \in Nat /\ n > 0 /\ todo[t][n] \in TaskType
<1>1. todo[t] \in Seq(TaskType)
  BY Zenon DEF Types
<1> QED
  BY <1>1 DEF Task

LEMMA TaskFacts ==
    ASSUME NEW k \in TaskType
    PROVE  k.place \in Place /\ k.bucket \in HBucket /\ k.rank \in Rank /\ k.value \in Value /\ k.small \in BOOLEAN
BY Zenon DEF TaskType
-----------------------------------------------------------------------------
\* The counter: what the sets of buckets become

LEMMA WrapDown ==
    ASSUME Remainder, NEW a \in 0..bucket_count, NEW b \in 0..bucket_count
    PROVE  /\ Wrapped(a + 1, b) \in 0..(CounterRange - 1) => (Wrapped(a + 1, b) + CounterRange - 1) % CounterRange = Wrapped(a, b)
           /\ Wrapped(a + 1, b + 1) = Wrapped(a, b)
<1>1. Wrapped(a + 1, b + 1) = Wrapped(a, b)
  BY Constants DEF Wrapped
<1>2. ASSUME Wrapped(a + 1, b) \in 0..(CounterRange - 1)
      PROVE  (Wrapped(a + 1, b) + CounterRange - 1) % CounterRange = Wrapped(a, b)
  <2>1. (Wrapped(a + 1, b) + CounterRange - 1) % CounterRange
          = IF Wrapped(a + 1, b) = 0 THEN CounterRange - 1 ELSE Wrapped(a + 1, b) - 1
    BY Zenon, <1>2 DEF Remainder
  <2>2. (IF Wrapped(a + 1, b) = 0 THEN CounterRange - 1 ELSE Wrapped(a + 1, b) - 1) = Wrapped(a, b)
    <3>1. CASE a + 1 >= b
      BY <3>1, <1>2, Constants DEF Wrapped
    <3>2. CASE a + 1 < b
      BY <3>2, Constants DEF Wrapped
    <3> QED
      BY <3>1, <3>2
  <2> QED
    BY <2>1, <2>2
<1> QED
  BY Zenon, <1>1, <1>2

LEMMA WrapUp ==
    ASSUME Remainder, NEW a \in 0..bucket_count, NEW b \in 0..bucket_count
    PROVE  Wrapped(a, b + 1) \in 0..(CounterRange - 1) => (Wrapped(a, b + 1) + 1) % CounterRange = Wrapped(a, b)
<1> SUFFICES ASSUME Wrapped(a, b + 1) \in 0..(CounterRange - 1)
             PROVE  (Wrapped(a, b + 1) + 1) % CounterRange = Wrapped(a, b)
  OBVIOUS
<1>1. (Wrapped(a, b + 1) + 1) % CounterRange
        = IF Wrapped(a, b + 1) = CounterRange - 1 THEN 0 ELSE Wrapped(a, b + 1) + 1
  BY Zenon DEF Remainder
<1>2. (IF Wrapped(a, b + 1) = CounterRange - 1 THEN 0 ELSE Wrapped(a, b + 1) + 1) = Wrapped(a, b)
  <2>1. CASE a >= b + 1
    BY <2>1, Constants DEF Wrapped
  <2>2. CASE a < b + 1
    BY <2>2, Constants DEF Wrapped
  <2> QED
    BY <2>1, <2>2
<1> QED
  BY <1>1, <1>2

\* Sets of buckets are finite, and one bucket more counts for one
LEMMA Buckets ==
    ASSUME Counting, NEW S \in SUBSET HBucket
    PROVE  /\ Cardinality(S) \in 0..bucket_count
           /\ \A b : b \notin S => Cardinality(S \cup {b}) = Cardinality(S) + 1
<1>1. IsFiniteSet(S) /\ Cardinality(S) <= bucket_count
  BY Zenon DEF Counting
<1>2. Cardinality(S) \in Nat
  BY Zenon, <1>1 DEF Counting
<1>3. Cardinality(S) \in 0..bucket_count
  BY <1>1, <1>2, Constants
<1> QED
  BY Zenon, <1>1, <1>3 DEF Counting

\* What the flights say, in one place
LEMMA FlightFacts ==
    ASSUME HInv
    PROVE  /\ \A u \in GpuThread : Flight(u) =>
                 /\ Task(u) \in TaskType /\ Task(u).rank \in Nat /\ old_rank[u] \in Nat
                 /\ old_rank[u] < Task(u).rank
           /\ \A u \in GpuThread : \A p \in Place : \A b \in HBucket : At(u, p, b) =>
                 Task(u).rank <= rank_store[p][b]
           /\ \A p \in Place : \A b \in HBucket : rank_store[p][b] \in Nat
<1>1. Types /\ TypeOK
  BY Zenon DEF HInv, Types
<1>2. ASSUME NEW u \in GpuThread, Flight(u)
      PROVE  Task(u) \in TaskType /\ Task(u).rank \in Nat /\ old_rank[u] \in Nat /\ old_rank[u] < Task(u).rank
  <2>1. todo[u] # <<>>
    BY Zenon, <1>2 DEF Flight
  <2>2. Task(u) \in TaskType
    BY Zenon, <1>1, <2>1, HeadFacts
  <2>3. Task(u).rank \in Rank /\ old_rank[u] \in Rank
    BY Zenon, <1>1, <2>2, TaskFacts DEF TypeOK
  <2> QED
    BY Zenon, <1>2, <2>2, <2>3, Sets DEF HInv, Flights
<1>3. \A u \in GpuThread : \A p \in Place : \A b \in HBucket : At(u, p, b) => Task(u).rank <= rank_store[p][b]
  BY Zenon DEF HInv, Flights, At
<1>4. \A p \in Place : \A b \in HBucket : rank_store[p][b] \in Nat
  BY Zenon, <1>1, Sets DEF TypeOK
<1> QED
  BY Zenon, <1>2, <1>3, <1>4

\* A step of the counter leaves the small sets alone, and a value whose rank was still to be
\* stored by this thread is in the store after the atomicMax
LEMMA CounterFrame ==
    ASSUME HInv, NEW t \in GpuThread, todo[t] # <<>>, NEW l \in {"zeros", "sub", "add", "small"},
           pc[t] \in {"max", "zeros", "sub", "add"}, pc' = [pc EXCEPT ![t] = l],
           UNCHANGED <<set, todo, i, history>>, TypeOK',
           \A p \in Place : \A b \in HBucket :
              rank_store'[p][b] >= rank_store[p][b] /\ rank_store'[p][b] \in RanksOf(added[p], b),
           pc[t] = "max" => rank_store'[Task(t).place][Task(t).bucket] >= Task(t).rank,
           Flights', \A p \in Place : Counters(p)'
    PROVE  HInv'
<1>1. /\ is_large' = is_large /\ has_zero_elem' = has_zero_elem /\ buf' = buf
      /\ todo' = todo /\ i' = i /\ added' = added /\ merged' = merged
  BY Zenon DEF set, history
<1>2. Types /\ TypeOK /\ Types'
  BY Zenon, <1>1 DEF HInv, Types
<1>3. /\ pc'[t] = l /\ l \notin {"max", "load", "cas"}
      /\ \A u \in GpuThread : u # t => pc'[u] = pc[u]
  BY Zenon, <1>2 DEF TypeOK
<1>4. ASSUME NEW u \in GpuThread PROVE Registers(u)'
  <2>1. Registers(u)
    BY Zenon DEF HInv
  <2>2. CASE u = t
    BY Zenon, <1>1, <1>3, <2>1, <2>2 DEF Registers
  <2>3. CASE u # t
    BY Zenon, <1>1, <1>3, <2>1, <2>3 DEF Registers, Task
  <2> QED
    BY Zenon, <2>2, <2>3
<1>5. Tasks'
  <2>1. Tasks
    BY Zenon DEF HInv
  <2>2. ASSUME NEW k, TaskOK(k) PROVE TaskOK(k)'
    BY Zenon, <1>1, <2>2 DEF TaskOK, RanksOf
  <2> QED
    BY Zenon, <1>1, <2>1, <2>2 DEF Tasks
<1>6. ASSUME NEW p \in Place PROVE Slots(p)'
  <2>1. Slots(p)
    BY Zenon DEF HInv
  <2> QED
    BY Zenon, <1>1, <2>1 DEF Slots
<1>7. ASSUME NEW p \in Place PROVE Complete(p)'
  <2>1. Complete(p)
    BY Zenon DEF HInv
  <2>2. Elements(p)' = Elements(p)
    BY Zenon, <1>1 DEF Elements, Used
  <2>3. Due(p)' = Due(p)
    BY Zenon, <1>1 DEF Due, LaterSlots, Used
  <2>4. \A v \in Due(p) : is_large'[p] \/ v \in Elements(p)' \/ Awaited(p, v)'
    <3>1. ASSUME NEW v, Awaited(p, v) PROVE Awaited(p, v)'
      BY Zenon, <1>1, <3>1 DEF Awaited
    <3>2. \A v \in Due(p) : is_large[p] \/ v \in Elements(p) \/ Awaited(p, v)
      BY Zenon, <2>1 DEF Complete
    <3> QED
      BY Zenon, <1>1, <2>2, <3>1, <3>2
  <2>5. ASSUME NEW v \in Due(p)
        PROVE  rank_store'[p][BucketOf[v]] >= RankOf[v] \/ Rises(p, BucketOf[v], RankOf[v])'
    <3>0. v \in Value
      BY Zenon, <1>2, Sets DEF Due, Types
    <3>1. BucketOf[v] \in HBucket /\ RankOf[v] \in Nat
      BY Zenon, <3>0, Sets
    <3>2. rank_store[p][BucketOf[v]] \in Nat /\ rank_store'[p][BucketOf[v]] \in Nat
      <4>1. rank_store \in [Place -> [HBucket -> Rank]] /\ rank_store' \in [Place -> [HBucket -> Rank]]
        BY Zenon, <1>2 DEF TypeOK
      <4>2. rank_store[p][BucketOf[v]] \in Rank /\ rank_store'[p][BucketOf[v]] \in Rank
        BY Zenon, <3>1, <4>1
      <4> QED
        BY Zenon, <4>2, Sets
    <3>3. CASE rank_store[p][BucketOf[v]] >= RankOf[v]
      <4>1. rank_store'[p][BucketOf[v]] >= rank_store[p][BucketOf[v]]
        BY Zenon, <3>1
      <4> QED
        BY <3>1, <3>2, <3>3, <4>1
    <3>4. CASE Rises(p, BucketOf[v], RankOf[v])
      <4>0. PICK u \in GpuThread : \E n \in DOMAIN todo[u] :
              /\ n > 1 \/ pc[u] = "max"
              /\ todo[u][n].place = p /\ todo[u][n].bucket = BucketOf[v] /\ todo[u][n].rank >= RankOf[v]
        BY Zenon, <3>4 DEF Rises
      <4>1. PICK n \in DOMAIN todo[u] :
              /\ n > 1 \/ pc[u] = "max"
              /\ todo[u][n].place = p /\ todo[u][n].bucket = BucketOf[v] /\ todo[u][n].rank >= RankOf[v]
        BY Zenon, <4>0
      <4>2. CASE n > 1 \/ u # t
        <5>1. n > 1 \/ pc'[u] = "max"
          BY Zenon, <1>3, <4>1, <4>2
        <5> QED
          BY Zenon, <1>1, <4>1, <5>1 DEF Rises
      <4>3. CASE ~(n > 1) /\ u = t
        <5>1. n \in Nat /\ n > 0 /\ todo[t][1] = Task(t) /\ Task(t).rank \in Nat
          BY Zenon, <1>2, <4>1, <4>3, HeadFacts, TaskFacts, Sets
        <5>2. n = 1
          BY <4>3, <5>1
        <5>3. rank_store'[p][BucketOf[v]] >= Task(t).rank /\ Task(t).rank >= RankOf[v]
          BY Zenon, <4>1, <4>3, <5>1, <5>2
        <5> QED
          BY <3>1, <3>2, <5>1, <5>3
      <4> QED
        BY Zenon, <4>2, <4>3
    <3> QED
      BY Zenon, <2>1, <3>3, <3>4 DEF Complete
  <2>6. \A b \in HBucket : rank_store'[p][b] \in RanksOf(added'[p], b)
    BY Zenon, <1>1
  <2> QED
    BY Zenon, <2>3, <2>4, <2>5, <2>6 DEF Complete, RanksOf
<1> QED
  BY Zenon, <1>2, <1>4, <1>5, <1>6, <1>7 DEF HInv

\* Threads other than t are where they were
OthersStay(t) ==
    \A u \in GpuThread : u # t =>
        /\ pc'[u] = pc[u] /\ old_rank'[u] = old_rank[u] /\ Task(u)' = Task(u) /\ (Flight(u)' <=> Flight(u))
        /\ \A p, b : At(u, p, b)' <=> At(u, p, b)

LEMMA OthersFacts ==
    ASSUME Types, NEW t \in GpuThread, NEW l, pc' = [pc EXCEPT ![t] = l], todo' = todo,
           \A u \in GpuThread : u # t => old_rank'[u] = old_rank[u]
    PROVE  OthersStay(t) /\ Task(t)' = Task(t) /\ pc'[t] = l
<1>1. \A u \in GpuThread : u # t => pc'[u] = pc[u]
  BY Zenon DEF Types, TypeOK
<1>2. pc'[t] = l
  BY Zenon DEF Types, TypeOK
<1> QED
  BY Zenon, <1>1, <1>2 DEF OthersStay, Flight, At, Task

\* An atomicMax that raises the rank: the thread takes off
LEMMA TakeOff ==
    ASSUME Counting, Remainder, HInv, NEW t \in GpuThread, todo[t] # <<>>,
           AtomicMax(t), UNCHANGED history, Task(t).rank > rank_store[Task(t).place][Task(t).bucket]
    PROVE  HInv'
<1> DEFINE k == Task(t)
           p0 == k.place
           b0 == k.bucket
           old == rank_store[p0][b0]
<1>1. Types /\ TypeOK /\ k \in TaskType
  BY Zenon, HeadFacts DEF HInv, Types
<1>2. /\ p0 \in Place /\ b0 \in HBucket /\ k.rank \in Rank /\ old \in Rank
      /\ k.rank \in Nat /\ old \in Nat /\ k.rank > old
  <2>1. p0 \in Place /\ b0 \in HBucket /\ k.rank \in Rank
    BY Zenon, <1>1, TaskFacts
  <2>2. old \in Rank
    BY Zenon, <1>1, <2>1 DEF TypeOK
  <2> QED
    BY Zenon, <2>1, <2>2, Sets
<1>3. NewRank(old, k.rank) = k.rank
  BY Zenon, <1>2 DEF NewRank
<1>4. /\ pc[t] = "max" /\ pc' = [pc EXCEPT ![t] = "zeros"] /\ todo' = todo /\ i' = i
      /\ rank_store' = [rank_store EXCEPT ![p0][b0] = k.rank]
      /\ old_rank' = [old_rank EXCEPT ![t] = old]
      /\ set' = set /\ zeros' = zeros /\ rank_count' = rank_count
  BY Zenon, <1>2, <1>3 DEF AtomicMax, Goto
<1>5. /\ rank_store'[p0][b0] = k.rank
      /\ \A p \in Place : \A b \in HBucket : p # p0 \/ b # b0 => rank_store'[p][b] = rank_store[p][b]
  <2>1. rank_store \in [Place -> [HBucket -> Rank]]
    BY Zenon, <1>1 DEF TypeOK
  <2> HIDE DEF k, p0, b0, old
  <2> QED
    BY Zenon, <1>2, <1>4, <2>1
<1>6. /\ OthersStay(t) /\ Task(t)' = k /\ pc'[t] = "zeros" /\ old_rank'[t] = old
      /\ ~Flight(t) /\ Flight(t)'
      /\ \A p, b : At(t, p, b)' <=> p = p0 /\ b = b0
      /\ \A p, b : ~At(t, p, b)
  <2>1. old_rank \in [GpuThread -> Rank]
    BY Zenon, <1>1 DEF TypeOK
  <2>2. old_rank'[t] = old /\ \A u \in GpuThread : u # t => old_rank'[u] = old_rank[u]
    BY Zenon, <1>4, <2>1
  <2>3. OthersStay(t) /\ Task(t)' = k /\ pc'[t] = "zeros"
    BY Zenon, <1>1, <1>4, <2>2, OthersFacts
  <2>4. ~Flight(t) /\ Flight(t)'
    BY Zenon, <1>4, <2>3 DEF Flight
  <2> QED
    BY Zenon, <2>2, <2>3, <2>4 DEF At
<1>7. \A p \in Place : \A b \in HBucket : rank_store[p][b] \in Nat
  BY Zenon, FlightFacts
<1>8. \A u \in GpuThread : At(u, p0, b0) =>
        Task(u).rank <= old /\ old_rank[u] < Task(u).rank /\ Task(u).rank \in Nat /\ old_rank[u] \in Nat
  BY Zenon, <1>2, FlightFacts DEF At
<1> HIDE DEF k, p0, b0, old
<1>9. Flights'
  <2>1. ASSUME NEW u \in GpuThread, Flight(u)'
        PROVE  old_rank'[u] < Task(u)'.rank /\ Task(u)'.rank <= rank_store'[Task(u)'.place][Task(u)'.bucket]
    <3>1. CASE u = t
      <4>1. Task(u)'.place = p0 /\ Task(u)'.bucket = b0 /\ Task(u)'.rank = k.rank /\ old_rank'[u] = old
        BY Zenon, <1>6, <3>1 DEF p0, b0
      <4>2. old < k.rank /\ k.rank <= rank_store'[p0][b0]
        BY <1>2, <1>5
      <4> QED
        BY Zenon, <4>1, <4>2
    <3>2. CASE u # t
      <4>1. Flight(u) /\ Task(u)' = Task(u) /\ old_rank'[u] = old_rank[u]
        BY Zenon, <2>1, <3>2, <1>6 DEF OthersStay
      <4>2. Task(u) \in TaskType /\ Task(u).rank \in Nat /\ old_rank[u] < Task(u).rank
        BY Zenon, <4>1, FlightFacts
      <4>3. Task(u).place \in Place /\ Task(u).bucket \in HBucket
        BY Zenon, <4>2, TaskFacts
      <4>4. At(u, Task(u).place, Task(u).bucket)
        BY Zenon, <4>1 DEF At
      <4>5. Task(u).rank <= rank_store[Task(u).place][Task(u).bucket]
        BY Zenon, <4>3, <4>4, FlightFacts
      <4>6. CASE Task(u).place = p0 /\ Task(u).bucket = b0
        <5>1. Task(u).rank <= old
          BY Zenon, <1>8, <4>4, <4>6
        <5>2. Task(u).rank <= k.rank
          BY <1>2, <4>2, <5>1
        <5> QED
          BY Zenon, <1>5, <4>1, <4>2, <4>6, <5>2
      <4>7. CASE Task(u).place # p0 \/ Task(u).bucket # b0
        BY Zenon, <1>5, <4>1, <4>2, <4>3, <4>5, <4>7
      <4> QED
        BY Zenon, <4>6, <4>7
    <3> QED
      BY Zenon, <3>1, <3>2
  <2>2. ASSUME NEW u \in GpuThread, NEW w \in GpuThread, NEW p \in Place, NEW b \in HBucket,
               u # w, At(u, p, b)', At(w, p, b)'
        PROVE  Task(u)'.rank <= old_rank'[w] \/ Task(w)'.rank <= old_rank'[u]
    <3>1. CASE u = t
      <4>1. p = p0 /\ b = b0 /\ At(w, p0, b0) /\ Task(w)' = Task(w)
        <5>1. At(t, p, b)' /\ w # t
          BY Zenon, <2>2, <3>1
        <5>2. p = p0 /\ b = b0
          BY Zenon, <1>6, <5>1
        <5>3. At(w, p, b) /\ Task(w)' = Task(w)
          BY Zenon, <1>6, <2>2, <5>1 DEF OthersStay
        <5> QED
          BY Zenon, <5>2, <5>3
      <4>2. old_rank'[u] = old
        BY Zenon, <1>6, <3>1
      <4>3. Task(w).rank <= old
        BY Zenon, <1>8, <4>1
      <4> QED
        BY Zenon, <4>1, <4>2, <4>3
    <3>2. CASE w = t
      <4>1. p = p0 /\ b = b0 /\ At(u, p0, b0) /\ Task(u)' = Task(u)
        <5>1. At(t, p, b)' /\ u # t
          BY Zenon, <2>2, <3>2
        <5>2. p = p0 /\ b = b0
          BY Zenon, <1>6, <5>1
        <5>3. At(u, p, b) /\ Task(u)' = Task(u)
          BY Zenon, <1>6, <2>2, <5>1 DEF OthersStay
        <5> QED
          BY Zenon, <5>2, <5>3
      <4>2. old_rank'[w] = old
        BY Zenon, <1>6, <3>2
      <4>3. Task(u).rank <= old
        BY Zenon, <1>8, <4>1
      <4> QED
        BY Zenon, <4>1, <4>2, <4>3
    <3>3. CASE u # t /\ w # t
      <4>1. At(u, p, b) /\ At(w, p, b) /\ Task(u)' = Task(u) /\ Task(w)' = Task(w)
              /\ old_rank'[u] = old_rank[u] /\ old_rank'[w] = old_rank[w]
        BY Zenon, <1>6, <2>2, <3>3 DEF OthersStay
      <4>2. Flights
        BY Zenon DEF HInv
      <4> QED
        BY Zenon, <2>2, <4>1, <4>2 DEF Flights
    <3> QED
      BY Zenon, <3>1, <3>2, <3>3
  <2> QED
    BY Zenon, <2>1, <2>2 DEF Flights
<1>10. ASSUME NEW p \in Place, NEW b \in HBucket PROVE b \in ZeroSet(p)' <=> b \in ZeroSet(p)
  <2> DEFINE A(u) == At(u, p, b) /\ pc[u] = "zeros" /\ old_rank[u] = 0
  <2>1. b \in ZeroSet(p) <=> rank_store[p][b] = 0 \/ \E u \in GpuThread : A(u)
    BY Zenon DEF ZeroSet
  <2>2. b \in ZeroSet(p)' <=> rank_store'[p][b] = 0 \/ \E u \in GpuThread : A(u)'
    BY Zenon DEF ZeroSet
  <2>3. \A u \in GpuThread : u # t => (A(u)' <=> A(u))
    BY Zenon, <1>6 DEF OthersStay
  <2>4. ~A(t) /\ (A(t)' <=> p = p0 /\ b = b0 /\ old = 0)
    <3>1. ~At(t, p, b) /\ (At(t, p, b)' <=> p = p0 /\ b = b0)
      BY Zenon, <1>6
    <3>2. pc'[t] = "zeros" /\ old_rank'[t] = old /\ Task(t)' = k
      BY Zenon, <1>6
    <3> QED
      BY <3>1, <3>2
  <2> HIDE DEF A
  <2>5. (\E u \in GpuThread : A(u)') <=> (\E u \in GpuThread : A(u)) \/ (p = p0 /\ b = b0 /\ old = 0)
    BY Zenon, <2>3, <2>4
  <2>6. CASE p = p0 /\ b = b0
    <3>1. rank_store'[p][b] # 0
      BY <1>2, <1>5, <2>6
    <3>2. rank_store[p][b] = old
      BY Zenon, <2>6 DEF old
    <3> QED
      BY Zenon, <2>1, <2>2, <2>5, <2>6, <3>1, <3>2
  <2>7. CASE p # p0 \/ b # b0
    <3>1. rank_store'[p][b] = rank_store[p][b]
      BY Zenon, <1>5, <2>7
    <3> QED
      BY Zenon, <2>1, <2>2, <2>5, <2>7, <3>1
  <2> QED
    BY Zenon, <2>6, <2>7
<1>11. ASSUME NEW p \in Place, NEW r \in Rank, NEW b \in HBucket
       PROVE  b \in Plus(p, r)' <=> b \in Plus(p, r) \/ (p = p0 /\ b = b0 /\ r = k.rank)
  <2> DEFINE A(u) == At(u, p, b) /\ pc[u] \in {"zeros", "sub"} /\ old_rank[u] = r
  <2>1. b \in Plus(p, r) <=> rank_store[p][b] = r \/ \E u \in GpuThread : A(u)
    BY Zenon DEF Plus
  <2>2. b \in Plus(p, r)' <=> rank_store'[p][b] = r \/ \E u \in GpuThread : A(u)'
    BY Zenon DEF Plus
  <2>3. \A u \in GpuThread : u # t => (A(u)' <=> A(u))
    BY Zenon, <1>6 DEF OthersStay
  <2>4. ~A(t) /\ (A(t)' <=> p = p0 /\ b = b0 /\ old = r)
    <3>1. ~At(t, p, b) /\ (At(t, p, b)' <=> p = p0 /\ b = b0)
      BY Zenon, <1>6
    <3>2. pc'[t] = "zeros" /\ old_rank'[t] = old /\ Task(t)' = k
      BY Zenon, <1>6
    <3> QED
      BY <3>1, <3>2
  <2> HIDE DEF A
  <2>5. (\E u \in GpuThread : A(u)') <=> (\E u \in GpuThread : A(u)) \/ (p = p0 /\ b = b0 /\ old = r)
    BY Zenon, <2>3, <2>4
  <2>6. CASE p = p0 /\ b = b0
    <3>1. rank_store'[p][b] = k.rank /\ rank_store[p][b] = old
      BY Zenon, <1>5, <2>6 DEF old
    <3> QED
      BY Zenon, <2>1, <2>2, <2>5, <2>6, <3>1
  <2>7. CASE p # p0 \/ b # b0
    <3>1. rank_store'[p][b] = rank_store[p][b]
      BY Zenon, <1>5, <2>7
    <3> QED
      BY Zenon, <2>1, <2>2, <2>5, <2>7, <3>1
  <2> QED
    BY Zenon, <2>6, <2>7
<1>12. ASSUME NEW p \in Place, NEW r \in Rank, NEW b \in HBucket
       PROVE  b \in Minus(p, r)' <=> b \in Minus(p, r) \/ (p = p0 /\ b = b0 /\ r = k.rank)
  <2> DEFINE A(u) == At(u, p, b) /\ Task(u).rank = r
  <2>1. (b \in Minus(p, r) <=> \E u \in GpuThread : A(u)) /\ (b \in Minus(p, r)' <=> \E u \in GpuThread : A(u)')
    BY Zenon DEF Minus
  <2>2. \A u \in GpuThread : u # t => (A(u)' <=> A(u))
    BY Zenon, <1>6 DEF OthersStay
  <2>3. ~A(t) /\ (A(t)' <=> p = p0 /\ b = b0 /\ r = k.rank)
    <3>1. ~At(t, p, b) /\ (At(t, p, b)' <=> p = p0 /\ b = b0)
      BY Zenon, <1>6
    <3>2. pc'[t] = "zeros" /\ old_rank'[t] = old /\ Task(t)' = k
      BY Zenon, <1>6
    <3> QED
      BY <3>1, <3>2
  <2> HIDE DEF A
  <2> QED
    BY Zenon, <2>1, <2>2, <2>3
<1>13. b0 \notin Plus(p0, k.rank) /\ b0 \notin Minus(p0, k.rank)
  <2>1. \A u \in GpuThread : At(u, p0, b0) => old_rank[u] # k.rank /\ Task(u).rank # k.rank
    BY <1>2, <1>8
  <2>2. rank_store[p0][b0] # k.rank
    BY <1>2 DEF old
  <2> QED
    BY Zenon, <2>1, <2>2 DEF Plus, Minus
<1>14. ASSUME NEW p \in Place PROVE Counters(p)'
  <2>0. Counters(p)
    BY Zenon DEF HInv
  <2>1. ZeroSet(p)' = ZeroSet(p)
    <3>1. ZeroSet(p)' \subseteq HBucket /\ ZeroSet(p) \subseteq HBucket
      BY Zenon DEF ZeroSet
    <3> QED
      BY Zenon, <1>10, <3>1
  <2>2. ASSUME NEW r \in Rank
        PROVE  rank_count'[p][r] = Wrapped(Cardinality(Plus(p, r)'), Cardinality(Minus(p, r)'))
    <3>0. /\ Plus(p, r)' \subseteq HBucket /\ Plus(p, r) \subseteq HBucket
          /\ Minus(p, r)' \subseteq HBucket /\ Minus(p, r) \subseteq HBucket
      BY Zenon DEF Plus, Minus
    <3>1. CASE p = p0 /\ r = k.rank
      <4>1. Plus(p, r)' = Plus(p, r) \cup {b0} /\ Minus(p, r)' = Minus(p, r) \cup {b0}
        BY Zenon, <1>2, <1>11, <1>12, <3>0, <3>1
      <4>2. /\ Cardinality(Plus(p, r)') = Cardinality(Plus(p, r)) + 1
            /\ Cardinality(Minus(p, r)') = Cardinality(Minus(p, r)) + 1
        BY Zenon, <1>13, <3>0, <3>1, <4>1, Buckets
      <4>3. Cardinality(Plus(p, r)) \in 0..bucket_count /\ Cardinality(Minus(p, r)) \in 0..bucket_count
        BY Zenon, <3>0, Buckets
      <4>4. Wrapped(Cardinality(Plus(p, r)) + 1, Cardinality(Minus(p, r)) + 1) = Wrapped(Cardinality(Plus(p, r)), Cardinality(Minus(p, r)))
        BY Zenon, <4>3, WrapDown
      <4> QED
        BY Zenon, <1>4, <2>0, <4>2, <4>4 DEF Counters
    <3>2. CASE p # p0 \/ r # k.rank
      <4>1. Plus(p, r)' = Plus(p, r)
        BY Zenon, <1>11, <3>0, <3>2
      <4>2. Minus(p, r)' = Minus(p, r)
        BY Zenon, <1>12, <3>0, <3>2
      <4> QED
        BY Zenon, <1>4, <2>0, <4>1, <4>2 DEF Counters
    <3> QED
      BY Zenon, <3>1, <3>2
  <2> QED
    BY Zenon, <1>4, <2>0, <2>1, <2>2 DEF Counters, Wrapped
<1>15. TypeOK'
  <2>1. pc' \in [GpuThread -> {"max", "zeros", "sub", "add", "small", "load", "cas"}] /\ old_rank' \in [GpuThread -> Rank]
    BY Zenon, <1>1, <1>2, <1>4 DEF TypeOK
  <2>2. rank_store' \in [Place -> [HBucket -> Rank]]
    BY Zenon, <1>1, <1>2, <1>4 DEF TypeOK
  <2> QED
    BY Zenon, <1>1, <1>4, <2>1, <2>2 DEF TypeOK, set
<1>16. ASSUME NEW p \in Place, NEW b \in HBucket
       PROVE  rank_store'[p][b] >= rank_store[p][b] /\ rank_store'[p][b] \in RanksOf(added[p], b)
  <2>1. rank_store[p][b] \in RanksOf(added[p], b) /\ rank_store[p][b] \in Nat
    BY Zenon, <1>7 DEF HInv, Complete
  <2>2. k.rank \in RanksOf(added[p0], b0)
    BY Zenon, <1>1, HeadFacts DEF HInv, Tasks, TaskOK, k, p0, b0
  <2>3. CASE p = p0 /\ b = b0
    <3>1. rank_store'[p][b] = k.rank /\ rank_store[p][b] = old
      BY Zenon, <1>5, <2>3 DEF old
    <3>2. k.rank >= old
      BY <1>2
    <3> QED
      BY Zenon, <2>2, <2>3, <3>1, <3>2
  <2>4. CASE p # p0 \/ b # b0
    <3>1. rank_store'[p][b] = rank_store[p][b]
      BY Zenon, <1>5, <2>4
    <3>2. rank_store[p][b] >= rank_store[p][b]
      BY <2>1
    <3> QED
      BY Zenon, <2>1, <3>1, <3>2
  <2> QED
    BY Zenon, <2>3, <2>4
<1>17. rank_store'[p0][b0] >= k.rank
  BY <1>2, <1>5
<1> QED
  BY Zenon, <1>4, <1>9, <1>14, <1>15, <1>16, <1>17, CounterFrame DEF k, p0, b0

\* Steps that no thread in flight takes leave the counters exact
LEMMA QuietCounters ==
    ASSUME HInv, counter' = counter,
           \A u \in GpuThread : /\ Flight(u)' <=> Flight(u)
                                /\ Flight(u) => pc'[u] = pc[u] /\ old_rank'[u] = old_rank[u] /\ Task(u)' = Task(u)
    PROVE  Flights' /\ \A p \in Place : Counters(p)'
<1>1. rank_store' = rank_store /\ zeros' = zeros /\ rank_count' = rank_count
  BY Zenon DEF counter
<1>2. ASSUME NEW u \in GpuThread, NEW p, NEW b PROVE At(u, p, b)' <=> At(u, p, b)
  BY Zenon DEF At
<1>3. Flights /\ \A p \in Place : Counters(p)
  BY Zenon DEF HInv
<1>4. Flights'
  <2>1. ASSUME NEW u \in GpuThread, Flight(u)'
        PROVE  old_rank'[u] < Task(u)'.rank /\ Task(u)'.rank <= rank_store'[Task(u)'.place][Task(u)'.bucket]
    <3>1. Flight(u) /\ old_rank'[u] = old_rank[u] /\ Task(u)' = Task(u)
      BY Zenon, <2>1
    <3>2. old_rank[u] < Task(u).rank /\ Task(u).rank <= rank_store[Task(u).place][Task(u).bucket]
      BY Zenon, <1>3, <3>1 DEF Flights
    <3> QED
      BY Zenon, <1>1, <3>1, <3>2
  <2>2. ASSUME NEW u \in GpuThread, NEW w \in GpuThread, NEW p \in Place, NEW b \in HBucket,
               u # w, At(u, p, b)', At(w, p, b)'
        PROVE  Task(u)'.rank <= old_rank'[w] \/ Task(w)'.rank <= old_rank'[u]
    <3>1. At(u, p, b) /\ At(w, p, b)
      BY Zenon, <1>2, <2>2
    <3>2. Flight(u) /\ Flight(w)
      BY Zenon, <3>1 DEF At
    <3>3. Task(u)' = Task(u) /\ Task(w)' = Task(w) /\ old_rank'[u] = old_rank[u] /\ old_rank'[w] = old_rank[w]
      BY Zenon, <3>2
    <3>4. Task(u).rank <= old_rank[w] \/ Task(w).rank <= old_rank[u]
      BY Zenon, <1>3, <2>2, <3>1 DEF Flights
    <3> QED
      BY Zenon, <3>3, <3>4
  <2> QED
    BY Zenon, <2>1, <2>2 DEF Flights
<1>5. ASSUME NEW p \in Place PROVE Counters(p)'
  <2>0. \A u \in GpuThread : \A b : At(u, p, b) => pc'[u] = pc[u] /\ old_rank'[u] = old_rank[u] /\ Task(u)' = Task(u)
    BY Zenon DEF At
  <2>1. ZeroSet(p)' = ZeroSet(p)
    <3>1. ASSUME NEW u \in GpuThread, NEW b
          PROVE  (At(u, p, b) /\ pc[u] = "zeros" /\ old_rank[u] = 0)' <=> At(u, p, b) /\ pc[u] = "zeros" /\ old_rank[u] = 0
      BY Zenon, <1>2, <2>0
    <3> QED
      BY Zenon, <1>1, <3>1 DEF ZeroSet
  <2>2. ASSUME NEW r \in Rank PROVE Plus(p, r)' = Plus(p, r)
    <3>1. ASSUME NEW u \in GpuThread, NEW b
          PROVE  (At(u, p, b) /\ pc[u] \in {"zeros", "sub"} /\ old_rank[u] = r)'
                    <=> At(u, p, b) /\ pc[u] \in {"zeros", "sub"} /\ old_rank[u] = r
      BY Zenon, <1>2, <2>0
    <3> QED
      BY Zenon, <1>1, <3>1 DEF Plus
  <2>3. ASSUME NEW r \in Rank PROVE Minus(p, r)' = Minus(p, r)
    <3>1. ASSUME NEW u \in GpuThread, NEW b
          PROVE  (At(u, p, b) /\ Task(u).rank = r)' <=> At(u, p, b) /\ Task(u).rank = r
      BY Zenon, <1>2, <2>0
    <3> QED
      BY Zenon, <3>1 DEF Minus
  <2>4. Counters(p)
    BY Zenon, <1>3
  <2> QED
    BY Zenon, <1>1, <2>1, <2>2, <2>3, <2>4 DEF Counters, Wrapped
<1> QED
  BY Zenon, <1>4, <1>5

LEMMA SameRanks ==
    ASSUME HInv, rank_store' = rank_store
    PROVE  \A p \in Place : \A b \in HBucket :
              rank_store'[p][b] >= rank_store[p][b] /\ rank_store'[p][b] \in RanksOf(added[p], b)
<1> SUFFICES ASSUME NEW p \in Place, NEW b \in HBucket
             PROVE  rank_store'[p][b] >= rank_store[p][b] /\ rank_store'[p][b] \in RanksOf(added[p], b)
  BY Zenon
<1>1. rank_store[p][b] \in Nat
  BY Zenon, FlightFacts
<1>2. rank_store[p][b] >= rank_store[p][b]
  BY <1>1
<1> QED
  BY Zenon, <1>2 DEF HInv, Complete

LEMMA AtomicMaxStep ==
    ASSUME Counting, Remainder, HInv, NEW t \in GpuThread, todo[t] # <<>>, AtomicMax(t), UNCHANGED history
    PROVE  HInv'
<1> DEFINE k == Task(t)
           p0 == k.place
           b0 == k.bucket
           old == rank_store[p0][b0]
<1>1. CASE k.rank > old
  BY Zenon, <1>1, TakeOff
<1>2. CASE ~(k.rank > old)
  <2>1. Types /\ TypeOK /\ k \in TaskType
    BY Zenon, HeadFacts DEF HInv, Types
  <2>2. p0 \in Place /\ b0 \in HBucket /\ k.rank \in Rank
    BY Zenon, <2>1, TaskFacts
  <2>3. old \in Rank
    BY Zenon, <2>1, <2>2 DEF TypeOK
  <2>4. NewRank(old, k.rank) = old
    BY Zenon, <1>2 DEF NewRank
  <2>5. /\ pc[t] = "max" /\ pc' = [pc EXCEPT ![t] = "small"] /\ todo' = todo /\ i' = i
        /\ rank_store' = [rank_store EXCEPT ![p0][b0] = old]
        /\ old_rank' = [old_rank EXCEPT ![t] = old]
        /\ set' = set /\ zeros' = zeros /\ rank_count' = rank_count
    BY Zenon, <1>2, <2>4 DEF AtomicMax, Goto
  <2>6. rank_store' = rank_store
    <3>1. rank_store \in [Place -> [HBucket -> Rank]]
      BY Zenon, <2>1 DEF TypeOK
    <3> HIDE DEF p0, b0
    <3> QED
      BY <2>2, <2>5, <3>1 DEF old
  <2>7. \A u \in GpuThread : u # t => old_rank'[u] = old_rank[u]
    BY Zenon, <2>1, <2>5 DEF TypeOK
  <2>8. OthersStay(t) /\ pc'[t] = "small"
    BY Zenon, <2>1, <2>5, <2>7, OthersFacts
  <2>9. ~Flight(t) /\ ~Flight(t)'
    BY Zenon, <2>5, <2>8 DEF Flight
  <2>10. Flights' /\ \A p \in Place : Counters(p)'
    <3>1. counter' = counter
      BY Zenon, <2>5, <2>6 DEF counter
    <3> QED
      BY Zenon, <2>8, <2>9, <3>1, QuietCounters DEF OthersStay
  <2>11. TypeOK'
    <3>1. pc' \in [GpuThread -> {"max", "zeros", "sub", "add", "small", "load", "cas"}] /\ old_rank' \in [GpuThread -> Rank]
      BY Zenon, <2>1, <2>3, <2>5 DEF TypeOK
    <3> QED
      BY Zenon, <2>1, <2>5, <2>6, <3>1 DEF TypeOK, set
  <2>12. rank_store'[p0][b0] >= k.rank
    <3>1. old \in Nat /\ k.rank \in Nat
      BY Zenon, <2>2, <2>3, Sets
    <3>2. old >= k.rank
      BY <1>2, <3>1
    <3> QED
      BY Zenon, <2>6, <3>2
  <2> HIDE DEF k, p0, b0, old
  <2> QED
    BY Zenon, <2>5, <2>6, <2>10, <2>11, <2>12, SameRanks, CounterFrame DEF k, p0, b0
<1> QED
  BY Zenon, <1>1, <1>2

\* Two threads never answer for the same rank of a bucket
LEMMA Unique ==
    ASSUME HInv, NEW t \in GpuThread, NEW p \in Place, NEW b \in HBucket, At(t, p, b)
    PROVE  /\ \A u \in GpuThread : u # t /\ At(u, p, b) => old_rank[u] # old_rank[t] /\ Task(u).rank # Task(t).rank
           /\ rank_store[p][b] # old_rank[t]
<1>1. /\ Task(t).rank \in Nat /\ old_rank[t] \in Nat /\ old_rank[t] < Task(t).rank
      /\ Task(t).rank <= rank_store[p][b] /\ rank_store[p][b] \in Nat
  BY Zenon, FlightFacts DEF At
<1>2. ASSUME NEW u \in GpuThread, u # t, At(u, p, b)
      PROVE  old_rank[u] # old_rank[t] /\ Task(u).rank # Task(t).rank
  <2>1. Task(u).rank \in Nat /\ old_rank[u] \in Nat /\ old_rank[u] < Task(u).rank
    BY Zenon, <1>2, FlightFacts DEF At
  <2>2. Task(u).rank <= old_rank[t] \/ Task(t).rank <= old_rank[u]
    BY Zenon, <1>2 DEF HInv, Flights
  <2> QED
    BY <1>1, <2>1, <2>2
<1>3. rank_store[p][b] # old_rank[t]
  BY <1>1
<1> QED
  BY Zenon, <1>2, <1>3

LEMMA FlightsStay ==
    ASSUME HInv, NEW t \in GpuThread, OthersStay(t), Task(t)' = Task(t), Flight(t),
           rank_store' = rank_store, old_rank' = old_rank
    PROVE  Flights'
<1>0. Flights
  BY Zenon DEF HInv
<1>1. ASSUME NEW u \in GpuThread
      PROVE  Task(u)' = Task(u) /\ (Flight(u)' => Flight(u)) /\ \A p, b : At(u, p, b)' => At(u, p, b)
  <2>1. CASE u = t
    BY Zenon, <2>1 DEF At
  <2>2. CASE u # t
    BY Zenon, <2>2 DEF OthersStay
  <2> QED
    BY Zenon, <2>1, <2>2
<1>2. ASSUME NEW u \in GpuThread, Flight(u)'
      PROVE  old_rank'[u] < Task(u)'.rank /\ Task(u)'.rank <= rank_store'[Task(u)'.place][Task(u)'.bucket]
  <2>1. old_rank[u] < Task(u).rank /\ Task(u).rank <= rank_store[Task(u).place][Task(u).bucket]
    BY Zenon, <1>0, <1>1, <1>2 DEF Flights
  <2> QED
    BY Zenon, <1>1, <2>1
<1>3. ASSUME NEW u \in GpuThread, NEW w \in GpuThread, NEW p \in Place, NEW b \in HBucket,
             u # w, At(u, p, b)', At(w, p, b)'
      PROVE  Task(u)'.rank <= old_rank'[w] \/ Task(w)'.rank <= old_rank'[u]
  <2>1. At(u, p, b) /\ At(w, p, b)
    BY Zenon, <1>1, <1>3
  <2>2. Task(u).rank <= old_rank[w] \/ Task(w).rank <= old_rank[u]
    BY Zenon, <1>0, <1>3, <2>1 DEF Flights
  <2> QED
    BY Zenon, <1>1, <2>2
<1> QED
  BY Zenon, <1>2, <1>3 DEF Flights

\* What the three steps of a flight have in common
LEMMA FlightStep ==
    ASSUME HInv, NEW t \in GpuThread, todo[t] # <<>>, pc[t] \in {"zeros", "sub", "add"},
           NEW l \in {"sub", "add", "small"}, Goto(t, l), rank_store' = rank_store, old_rank' = old_rank
    PROVE  /\ OthersStay(t) /\ Task(t)' = Task(t) /\ pc'[t] = l /\ Flight(t) /\ Flights'
           /\ Types /\ Task(t) \in TaskType /\ old_rank[t] \in Rank
           /\ (Flight(t)' <=> l # "small")
           /\ \A p, b : At(t, p, b) <=> p = Task(t).place /\ b = Task(t).bucket
           /\ \A p, b : At(t, p, b)' <=> l # "small" /\ p = Task(t).place /\ b = Task(t).bucket
           /\ pc' \in [GpuThread -> {"max", "zeros", "sub", "add", "small", "load", "cas"}]
<1>1. Types /\ Task(t) \in TaskType /\ old_rank[t] \in Rank
  BY Zenon, HeadFacts DEF HInv, Types, TypeOK
<1>2. pc' = [pc EXCEPT ![t] = l] /\ todo' = todo
  BY Zenon DEF Goto
<1>3. pc' \in [GpuThread -> {"max", "zeros", "sub", "add", "small", "load", "cas"}]
  BY Zenon, <1>1, <1>2 DEF Types, TypeOK
<1>4. OthersStay(t) /\ Task(t)' = Task(t) /\ pc'[t] = l
  BY Zenon, <1>1, <1>2, OthersFacts
<1>5. Flight(t) /\ (Flight(t)' <=> l # "small")
  BY Zenon, <1>2, <1>4 DEF Flight
<1>6. Flights'
  BY Zenon, <1>4, <1>5, FlightsStay
<1>7. \A p, b : At(t, p, b) <=> p = Task(t).place /\ b = Task(t).bucket
  BY Zenon, <1>5 DEF At
<1>8. \A p, b : At(t, p, b)' <=> l # "small" /\ p = Task(t).place /\ b = Task(t).bucket
  BY Zenon, <1>4, <1>5 DEF At
<1> QED
  BY Zenon, <1>1, <1>3, <1>4, <1>5, <1>6, <1>7, <1>8

\* The bucket of the thread leaves one of the three sets
LEMMA SetsStep ==
    ASSUME HInv, NEW t \in GpuThread, todo[t] # <<>>, NEW l, Goto(t, l), rank_store' = rank_store, old_rank' = old_rank,
           \/ pc[t] = "zeros" /\ l = "sub"
           \/ pc[t] = "sub" /\ l = "add"
           \/ pc[t] = "add" /\ l = "small"
    PROVE  /\ \A p \in Place : \A b \in HBucket : b \in ZeroSet(p) <=>
                 b \in ZeroSet(p)' \/ (p = Task(t).place /\ b = Task(t).bucket /\ pc[t] = "zeros" /\ old_rank[t] = 0)
           /\ \A p \in Place : \A r \in Rank : \A b \in HBucket : b \in Plus(p, r) <=>
                 b \in Plus(p, r)' \/ (p = Task(t).place /\ b = Task(t).bucket /\ pc[t] = "sub" /\ r = old_rank[t])
           /\ \A p \in Place : \A r \in Rank : \A b \in HBucket : b \in Minus(p, r) <=>
                 b \in Minus(p, r)' \/ (p = Task(t).place /\ b = Task(t).bucket /\ pc[t] = "add" /\ r = Task(t).rank)
           /\ \A p \in Place : \A b \in HBucket :
                 p = Task(t).place /\ b = Task(t).bucket /\ pc[t] = "zeros" /\ old_rank[t] = 0 => b \notin ZeroSet(p)'
           /\ \A p \in Place : \A r \in Rank : \A b \in HBucket :
                 p = Task(t).place /\ b = Task(t).bucket /\ pc[t] = "sub" /\ r = old_rank[t] => b \notin Plus(p, r)'
           /\ \A p \in Place : \A r \in Rank : \A b \in HBucket :
                 p = Task(t).place /\ b = Task(t).bucket /\ pc[t] = "add" /\ r = Task(t).rank => b \notin Minus(p, r)'
<1> DEFINE k == Task(t)
           p0 == k.place
           b0 == k.bucket
<1>0. pc[t] \in {"zeros", "sub", "add"} /\ l \in {"sub", "add", "small"}
  BY Zenon
<1>1. /\ OthersStay(t) /\ Task(t)' = k /\ pc'[t] = l /\ k \in TaskType
      /\ \A p, b : At(t, p, b) <=> p = p0 /\ b = b0
      /\ \A p, b : At(t, p, b)' <=> l # "small" /\ p = p0 /\ b = b0
  BY Zenon, <1>0, FlightStep
<1>2. p0 \in Place /\ b0 \in HBucket
  BY Zenon, <1>1, TaskFacts
<1>3. At(t, p0, b0)
  BY Zenon, <1>1
<1>4. /\ \A u \in GpuThread : u # t /\ At(u, p0, b0) => old_rank[u] # old_rank[t] /\ Task(u).rank # k.rank
      /\ rank_store[p0][b0] # old_rank[t]
  BY Zenon, <1>2, <1>3, Unique
<1> HIDE DEF k, p0, b0
<1>5. ASSUME NEW p \in Place, NEW b \in HBucket
      PROVE  /\ b \in ZeroSet(p) <=> b \in ZeroSet(p)' \/ (p = p0 /\ b = b0 /\ pc[t] = "zeros" /\ old_rank[t] = 0)
             /\ p = p0 /\ b = b0 /\ pc[t] = "zeros" /\ old_rank[t] = 0 => b \notin ZeroSet(p)'
  <2> DEFINE A(u) == At(u, p, b) /\ pc[u] = "zeros" /\ old_rank[u] = 0
  <2>1. \A u \in GpuThread : u # t => (A(u)' <=> A(u))
    BY Zenon, <1>1 DEF OthersStay
  <2>2. At(t, p, b) <=> p = p0 /\ b = b0
    BY Zenon, <1>1
  <2>3. At(t, p, b)' <=> l # "small" /\ p = p0 /\ b = b0
    BY Zenon, <1>1
  <2>4. (A(t) <=> p = p0 /\ b = b0 /\ pc[t] = "zeros" /\ old_rank[t] = 0) /\ ~A(t)'
    <3>1. pc'[t] # "zeros"
      BY Zenon, <1>0, <1>1
    <3> QED
      BY Zenon, <2>2, <3>1
  <2>5. b \in ZeroSet(p) <=> rank_store[p][b] = 0 \/ \E u \in GpuThread : A(u)
    BY Zenon DEF ZeroSet
  <2>6. b \in ZeroSet(p)' <=> rank_store[p][b] = 0 \/ \E u \in GpuThread : A(u)'
    BY Zenon DEF ZeroSet
  <2>7. p = p0 /\ b = b0 /\ old_rank[t] = 0 => rank_store[p][b] # 0 /\ \A u \in GpuThread : u # t => ~A(u)
    BY Zenon, <1>4
  <2>8. ~A(t)'
    BY Zenon, <2>4
  <2> HIDE DEF A
  <2>9. (\E u \in GpuThread : A(u)) <=> (\E u \in GpuThread : A(u)') \/ (p = p0 /\ b = b0 /\ pc[t] = "zeros" /\ old_rank[t] = 0)
    BY Zenon, <2>1, <2>4
  <2> QED
    BY Zenon, <2>1, <2>5, <2>6, <2>7, <2>8, <2>9
<1>6. ASSUME NEW r \in Rank, NEW p \in Place, NEW b \in HBucket
      PROVE  /\ b \in Plus(p, r) <=> b \in Plus(p, r)' \/ (p = p0 /\ b = b0 /\ pc[t] = "sub" /\ r = old_rank[t])
             /\ p = p0 /\ b = b0 /\ pc[t] = "sub" /\ r = old_rank[t] => b \notin Plus(p, r)'
  <2> DEFINE A(u) == At(u, p, b) /\ pc[u] \in {"zeros", "sub"} /\ old_rank[u] = r
  <2>1. \A u \in GpuThread : u # t => (A(u)' <=> A(u))
    BY Zenon, <1>1 DEF OthersStay
  <2>2. At(t, p, b) <=> p = p0 /\ b = b0
    BY Zenon, <1>1
  <2>3. At(t, p, b)' <=> l # "small" /\ p = p0 /\ b = b0
    BY Zenon, <1>1
  <2>4. A(t) <=> A(t)' \/ (p = p0 /\ b = b0 /\ pc[t] = "sub" /\ r = old_rank[t])
    <3>0. pc'[t] = l
      BY Zenon, <1>1
    <3>1. CASE pc[t] = "zeros" /\ l = "sub"
      BY Zenon, <2>2, <2>3, <3>0, <3>1
    <3>2. CASE pc[t] = "sub" /\ l = "add"
      BY Zenon, <2>2, <2>3, <3>0, <3>2
    <3>3. CASE pc[t] = "add" /\ l = "small"
      BY Zenon, <2>2, <2>3, <3>0, <3>3
    <3> QED
      BY Zenon, <3>1, <3>2, <3>3
  <2>5. b \in Plus(p, r) <=> rank_store[p][b] = r \/ \E u \in GpuThread : A(u)
    BY Zenon DEF Plus
  <2>6. b \in Plus(p, r)' <=> rank_store[p][b] = r \/ \E u \in GpuThread : A(u)'
    BY Zenon DEF Plus
  <2>7. p = p0 /\ b = b0 /\ r = old_rank[t] => rank_store[p][b] # r /\ \A u \in GpuThread : u # t => ~A(u)
    BY Zenon, <1>4
  <2>8. pc[t] = "sub" => ~A(t)'
    <3>1. pc[t] = "sub" => pc'[t] = "add"
      BY Zenon, <1>1
    <3> QED
      BY Zenon, <3>1
  <2> HIDE DEF A
  <2>9. (\E u \in GpuThread : A(u)) <=> (\E u \in GpuThread : A(u)') \/ (p = p0 /\ b = b0 /\ pc[t] = "sub" /\ r = old_rank[t])
    BY Zenon, <2>1, <2>4
  <2> QED
    BY Zenon, <2>1, <2>5, <2>6, <2>7, <2>8, <2>9
<1>7. ASSUME NEW r \in Rank, NEW p \in Place, NEW b \in HBucket
      PROVE  /\ b \in Minus(p, r) <=> b \in Minus(p, r)' \/ (p = p0 /\ b = b0 /\ pc[t] = "add" /\ r = k.rank)
             /\ p = p0 /\ b = b0 /\ pc[t] = "add" /\ r = k.rank => b \notin Minus(p, r)'
  <2> DEFINE A(u) == At(u, p, b) /\ Task(u).rank = r
  <2>1. \A u \in GpuThread : u # t => (A(u)' <=> A(u))
    BY Zenon, <1>1 DEF OthersStay
  <2>2. At(t, p, b) <=> p = p0 /\ b = b0
    BY Zenon, <1>1
  <2>3. At(t, p, b)' <=> l # "small" /\ p = p0 /\ b = b0
    BY Zenon, <1>1
  <2>4. A(t) <=> A(t)' \/ (p = p0 /\ b = b0 /\ pc[t] = "add" /\ r = k.rank)
    <3>0. Task(t)' = k /\ Task(t) = k
      BY Zenon, <1>1 DEF k
    <3>1. CASE pc[t] # "add" /\ l # "small"
      BY Zenon, <2>2, <2>3, <3>0, <3>1
    <3>2. CASE pc[t] = "add" /\ l = "small"
      BY Zenon, <2>2, <2>3, <3>0, <3>2
    <3> QED
      BY Zenon, <3>1, <3>2
  <2>5. b \in Minus(p, r) <=> \E u \in GpuThread : A(u)
    BY Zenon DEF Minus
  <2>6. b \in Minus(p, r)' <=> \E u \in GpuThread : A(u)'
    BY Zenon DEF Minus
  <2>7. p = p0 /\ b = b0 /\ r = k.rank => \A u \in GpuThread : u # t => ~A(u)
    BY Zenon, <1>4
  <2>8. pc[t] = "add" => ~A(t)'
    <3>1. pc[t] = "add" => l = "small"
      BY Zenon
    <3> QED
      BY Zenon, <2>3, <3>1
  <2> HIDE DEF A
  <2>9. (\E u \in GpuThread : A(u)) <=> (\E u \in GpuThread : A(u)') \/ (p = p0 /\ b = b0 /\ pc[t] = "add" /\ r = k.rank)
    BY Zenon, <2>1, <2>4
  <2> QED
    BY Zenon, <2>1, <2>5, <2>6, <2>7, <2>8, <2>9
<1> QED
  BY Zenon, <1>5, <1>6, <1>7 DEF k, p0, b0

LEMMA InCounters == ASSUME NEW c \in 0..bucket_count PROVE c \in 0..(CounterRange - 1)
BY Constants

LEMMA WrappedType ==
    ASSUME NEW a \in 0..bucket_count, NEW b \in 0..bucket_count PROVE Wrapped(a, b) \in 0..(CounterRange - 1)
BY Constants DEF Wrapped

\* The three sets are sets of buckets, before a step and after it
LEMMA BucketSets ==
    /\ \A p : ZeroSet(p) \subseteq HBucket /\ ZeroSet(p)' \subseteq HBucket
    /\ \A p, r : Plus(p, r) \subseteq HBucket /\ Plus(p, r)' \subseteq HBucket
    /\ \A p, r : Minus(p, r) \subseteq HBucket /\ Minus(p, r)' \subseteq HBucket
BY Zenon DEF ZeroSet, Plus, Minus

\* HyperLogLogCounter::update counts the bucket that is no longer zero
LEMMA SubZerosStep ==
    ASSUME Counting, Remainder, HInv, NEW t \in GpuThread, todo[t] # <<>>, SubZeros(t), UNCHANGED history
    PROVE  HInv'
<1> DEFINE k == Task(t)
           p0 == k.place
           b0 == k.bucket
<1>1. /\ pc[t] = "zeros" /\ Goto(t, "sub") /\ pc' = [pc EXCEPT ![t] = "sub"] /\ todo' = todo /\ i' = i
      /\ set' = set /\ rank_store' = rank_store /\ rank_count' = rank_count /\ old_rank' = old_rank
      /\ old_rank[t] # 0 => zeros' = zeros
      /\ old_rank[t] = 0 => zeros' = [zeros EXCEPT ![p0] = (@ + CounterRange - 1) % CounterRange]
  BY Zenon DEF SubZeros, Goto, WasZero
<1>2. /\ Types /\ k \in TaskType /\ Flights'
      /\ pc' \in [GpuThread -> {"max", "zeros", "sub", "add", "small", "load", "cas"}]
  BY Zenon, <1>1, FlightStep
<1>3. p0 \in Place /\ b0 \in HBucket
  BY Zenon, <1>2, TaskFacts
<1>4. /\ \A p \in Place : \A b \in HBucket : b \in ZeroSet(p) <=>
            b \in ZeroSet(p)' \/ (p = p0 /\ b = b0 /\ old_rank[t] = 0)
      /\ \A p \in Place : \A b \in HBucket : p = p0 /\ b = b0 /\ old_rank[t] = 0 => b \notin ZeroSet(p)'
      /\ \A p \in Place : \A r \in Rank : \A b \in HBucket : b \in Plus(p, r) <=> b \in Plus(p, r)'
      /\ \A p \in Place : \A r \in Rank : \A b \in HBucket : b \in Minus(p, r) <=> b \in Minus(p, r)'
  BY Zenon, <1>1, SetsStep
<1>5. TypeOK
  BY Zenon, <1>2 DEF Types
<1> HIDE DEF k, p0, b0
<1>6. ASSUME NEW p \in Place PROVE zeros'[p] = Cardinality(ZeroSet(p)') /\ zeros'[p] \in 0..(CounterRange - 1)
  <2>0. Cardinality(ZeroSet(p)') \in 0..bucket_count /\ Cardinality(ZeroSet(p)') \in 0..(CounterRange - 1)
    BY Zenon, BucketSets, Buckets, InCounters
  <2>1. zeros[p] = Cardinality(ZeroSet(p))
    BY Zenon DEF HInv, Counters
  <2>2. CASE p = p0 /\ old_rank[t] = 0
    <3>1. zeros \in [Place -> 0..(CounterRange - 1)] /\ zeros[p] \in 0..(CounterRange - 1)
      BY Zenon, <1>5 DEF TypeOK
    <3>2. zeros'[p] = (zeros[p] + CounterRange - 1) % CounterRange
      BY Zenon, <1>1, <1>3, <2>2, <3>1
    <3>3. zeros'[p] = IF zeros[p] = 0 THEN CounterRange - 1 ELSE zeros[p] - 1
      BY Zenon, <3>1, <3>2 DEF Remainder
    <3>4. ZeroSet(p) = ZeroSet(p)' \cup {b0} /\ b0 \notin ZeroSet(p)'
      BY Zenon, <1>3, <1>4, <2>2, BucketSets
    <3>5. Cardinality(ZeroSet(p)) = Cardinality(ZeroSet(p)') + 1
      BY Zenon, <3>4, BucketSets, Buckets
    <3>6. zeros'[p] = Cardinality(ZeroSet(p)')
      BY <2>0, <2>1, <3>3, <3>5
    <3> QED
      BY Zenon, <2>0, <3>6
  <2>3. CASE p # p0 \/ old_rank[t] # 0
    <3>1. zeros'[p] = zeros[p]
      BY Zenon, <1>1, <1>3, <1>5, <2>3 DEF TypeOK
    <3>2. ZeroSet(p) = ZeroSet(p)'
      BY Zenon, <1>4, <2>3, BucketSets
    <3> QED
      BY Zenon, <2>0, <2>1, <3>1, <3>2
  <2> QED
    BY Zenon, <2>2, <2>3
<1>7. ASSUME NEW p \in Place PROVE Counters(p)'
  <2>1. ASSUME NEW r \in Rank
        PROVE  rank_count'[p][r] = Wrapped(Cardinality(Plus(p, r)'), Cardinality(Minus(p, r)'))
    <3>1. Plus(p, r)' = Plus(p, r) /\ Minus(p, r)' = Minus(p, r)
      BY Zenon, <1>4, BucketSets
    <3>2. Counters(p)
      BY Zenon DEF HInv
    <3> QED
      BY Zenon, <1>1, <3>1, <3>2 DEF Counters
  <2> QED
    BY Zenon, <1>6, <2>1 DEF Counters, Wrapped
<1>8. TypeOK'
  <2>1. zeros' \in [Place -> 0..(CounterRange - 1)]
    <3>1. DOMAIN zeros' = Place /\ zeros' = [p \in DOMAIN zeros' |-> zeros'[p]]
      BY Zenon, <1>1, <1>5 DEF TypeOK
    <3> QED
      BY Zenon, <1>6, <3>1
  <2> QED
    BY Zenon, <1>1, <1>2, <1>5, <2>1 DEF TypeOK, set
<1> QED
  BY Zenon, <1>1, <1>2, <1>7, <1>8, SameRanks, CounterFrame

\* Denominator::update takes the old rank off its count
LEMMA SubRankStep ==
    ASSUME Counting, Remainder, HInv, NEW t \in GpuThread, todo[t] # <<>>, SubRank(t), UNCHANGED history
    PROVE  HInv'
<1> DEFINE k == Task(t)
           p0 == k.place
           b0 == k.bucket
           r0 == old_rank[t]
<1>1. /\ pc[t] = "sub" /\ Goto(t, "add") /\ pc' = [pc EXCEPT ![t] = "add"] /\ todo' = todo /\ i' = i
      /\ set' = set /\ rank_store' = rank_store /\ zeros' = zeros /\ old_rank' = old_rank
      /\ rank_count' = [rank_count EXCEPT ![p0][r0] = (@ + CounterRange - 1) % CounterRange]
  BY Zenon DEF SubRank, Goto
<1>2. /\ Types /\ k \in TaskType /\ Flights' /\ old_rank[t] \in Rank
      /\ pc' \in [GpuThread -> {"max", "zeros", "sub", "add", "small", "load", "cas"}]
  BY Zenon, <1>1, FlightStep
<1>3. p0 \in Place /\ b0 \in HBucket /\ r0 \in Rank
  BY Zenon, <1>2, TaskFacts
<1>4. /\ \A p \in Place : \A b \in HBucket : b \in ZeroSet(p) <=> b \in ZeroSet(p)'
      /\ \A p \in Place : \A r \in Rank : \A b \in HBucket : b \in Plus(p, r) <=>
            b \in Plus(p, r)' \/ (p = p0 /\ b = b0 /\ r = r0)
      /\ \A p \in Place : \A r \in Rank : \A b \in HBucket : p = p0 /\ b = b0 /\ r = r0 => b \notin Plus(p, r)'
      /\ \A p \in Place : \A r \in Rank : \A b \in HBucket : b \in Minus(p, r) <=> b \in Minus(p, r)'
  BY Zenon, <1>1, SetsStep
<1>5. TypeOK
  BY Zenon, <1>2 DEF Types
<1> HIDE DEF k, p0, b0, r0
<1>6. ASSUME NEW p \in Place, NEW r \in Rank
      PROVE  /\ rank_count'[p][r] = Wrapped(Cardinality(Plus(p, r)'), Cardinality(Minus(p, r)'))
             /\ rank_count'[p][r] \in 0..(CounterRange - 1)
  <2>0. rank_count[p][r] = Wrapped(Cardinality(Plus(p, r)), Cardinality(Minus(p, r)))
    BY Zenon DEF HInv, Counters
  <2>1. Minus(p, r)' = Minus(p, r)
    <3>1. \A b \in HBucket : b \in Minus(p, r) <=> b \in Minus(p, r)'
      BY Zenon, <1>4
    <3>2. Minus(p, r) \subseteq HBucket /\ Minus(p, r)' \subseteq HBucket
      BY Zenon, BucketSets
    <3> QED
      BY Zenon, <3>1, <3>2
  <2>2. Cardinality(Plus(p, r)') \in 0..bucket_count /\ Cardinality(Minus(p, r)') \in 0..bucket_count
    BY Zenon, BucketSets, Buckets
  <2>3. rank_count \in [Place -> [Rank -> 0..(CounterRange - 1)]] /\ rank_count[p][r] \in 0..(CounterRange - 1)
    BY Zenon, <1>5 DEF TypeOK
  <2>4. CASE p = p0 /\ r = r0
    <3>1. rank_count'[p][r] = (rank_count[p][r] + CounterRange - 1) % CounterRange
      BY Zenon, <1>1, <1>3, <2>3, <2>4
    <3>2. Plus(p, r) = Plus(p, r)' \cup {b0} /\ b0 \notin Plus(p, r)'
      <4>1. \A b \in HBucket : b \in Plus(p, r) <=> b \in Plus(p, r)' \/ b = b0
        BY Zenon, <1>4, <2>4
      <4>2. b0 \notin Plus(p, r)'
        BY Zenon, <1>3, <1>4, <2>4
      <4>3. Plus(p, r) \subseteq HBucket /\ Plus(p, r)' \subseteq HBucket
        BY Zenon, BucketSets
      <4> QED
        BY Zenon, <1>3, <4>1, <4>2, <4>3
    <3>3. Cardinality(Plus(p, r)) = Cardinality(Plus(p, r)') + 1
      BY Zenon, <3>2, BucketSets, Buckets
    <3>4. rank_count[p][r] = Wrapped(Cardinality(Plus(p, r)') + 1, Cardinality(Minus(p, r)'))
      BY Zenon, <2>0, <2>1, <3>3
    <3>5. rank_count'[p][r] = Wrapped(Cardinality(Plus(p, r)'), Cardinality(Minus(p, r)'))
      BY Zenon, <2>2, <2>3, <3>1, <3>4, WrapDown
    <3> QED
      BY Zenon, <2>2, <3>5, WrappedType
  <2>5. CASE p # p0 \/ r # r0
    <3>1. rank_count'[p][r] = rank_count[p][r]
      BY Zenon, <1>1, <1>3, <2>3, <2>5
    <3>2. Plus(p, r)' = Plus(p, r)
      <4>1. \A b \in HBucket : b \in Plus(p, r) <=> b \in Plus(p, r)'
        BY Zenon, <1>4, <2>5
      <4>2. Plus(p, r) \subseteq HBucket /\ Plus(p, r)' \subseteq HBucket
        BY Zenon, BucketSets
      <4> QED
        BY Zenon, <4>1, <4>2
    <3> QED
      BY Zenon, <2>0, <2>1, <2>3, <3>1, <3>2
  <2> QED
    BY Zenon, <2>4, <2>5
<1>7. ASSUME NEW p \in Place PROVE Counters(p)'
  <2>1. ZeroSet(p)' = ZeroSet(p)
    BY Zenon, <1>4, BucketSets
  <2>2. zeros'[p] = Cardinality(ZeroSet(p)')
    BY Zenon, <1>1, <2>1 DEF HInv, Counters
  <2> QED
    BY Zenon, <1>6, <2>2 DEF Counters, Wrapped
<1>8. TypeOK'
  <2>1. rank_count' \in [Place -> [Rank -> 0..(CounterRange - 1)]]
    <3>1. rank_count \in [Place -> [Rank -> 0..(CounterRange - 1)]]
      BY Zenon, <1>5 DEF TypeOK
    <3>2. (rank_count[p0][r0] + CounterRange - 1) % CounterRange \in 0..(CounterRange - 1)
      <4>1. rank_count'[p0][r0] = (rank_count[p0][r0] + CounterRange - 1) % CounterRange
        BY Zenon, <1>1, <1>3, <3>1
      <4> QED
        BY Zenon, <1>3, <1>6, <4>1
    <3> QED
      BY <1>1, <1>3, <3>1, <3>2
  <2> QED
    BY Zenon, <1>1, <1>2, <1>5, <2>1 DEF TypeOK, set
<1> QED
  BY Zenon, <1>1, <1>2, <1>7, <1>8, SameRanks, CounterFrame

\* and adds the new one
LEMMA AddRankStep ==
    ASSUME Counting, Remainder, HInv, NEW t \in GpuThread, todo[t] # <<>>, AddRank(t), UNCHANGED history
    PROVE  HInv'
<1> DEFINE k == Task(t)
           p0 == k.place
           b0 == k.bucket
           r0 == k.rank
<1>1. /\ pc[t] = "add" /\ Goto(t, "small") /\ pc' = [pc EXCEPT ![t] = "small"] /\ todo' = todo /\ i' = i
      /\ set' = set /\ rank_store' = rank_store /\ zeros' = zeros /\ old_rank' = old_rank
      /\ rank_count' = [rank_count EXCEPT ![p0][r0] = (@ + 1) % CounterRange]
  BY Zenon DEF AddRank, Goto
<1>2. /\ Types /\ k \in TaskType /\ Flights' /\ old_rank[t] \in Rank
      /\ pc' \in [GpuThread -> {"max", "zeros", "sub", "add", "small", "load", "cas"}]
  BY Zenon, <1>1, FlightStep
<1>3. p0 \in Place /\ b0 \in HBucket /\ r0 \in Rank
  BY Zenon, <1>2, TaskFacts
<1>4. /\ \A p \in Place : \A b \in HBucket : b \in ZeroSet(p) <=> b \in ZeroSet(p)'
      /\ \A p \in Place : \A r \in Rank : \A b \in HBucket : b \in Minus(p, r) <=>
            b \in Minus(p, r)' \/ (p = p0 /\ b = b0 /\ r = r0)
      /\ \A p \in Place : \A r \in Rank : \A b \in HBucket : p = p0 /\ b = b0 /\ r = r0 => b \notin Minus(p, r)'
      /\ \A p \in Place : \A r \in Rank : \A b \in HBucket : b \in Plus(p, r) <=> b \in Plus(p, r)'
  BY Zenon, <1>1, SetsStep
<1>5. TypeOK
  BY Zenon, <1>2 DEF Types
<1> HIDE DEF k, p0, b0, r0
<1>6. ASSUME NEW p \in Place, NEW r \in Rank
      PROVE  /\ rank_count'[p][r] = Wrapped(Cardinality(Plus(p, r)'), Cardinality(Minus(p, r)'))
             /\ rank_count'[p][r] \in 0..(CounterRange - 1)
  <2>0. rank_count[p][r] = Wrapped(Cardinality(Plus(p, r)), Cardinality(Minus(p, r)))
    BY Zenon DEF HInv, Counters
  <2>1. Plus(p, r)' = Plus(p, r)
    <3>1. \A b \in HBucket : b \in Plus(p, r) <=> b \in Plus(p, r)'
      BY Zenon, <1>4
    <3>2. Plus(p, r) \subseteq HBucket /\ Plus(p, r)' \subseteq HBucket
      BY Zenon, BucketSets
    <3> QED
      BY Zenon, <3>1, <3>2
  <2>2. Cardinality(Plus(p, r)') \in 0..bucket_count /\ Cardinality(Minus(p, r)') \in 0..bucket_count
    BY Zenon, BucketSets, Buckets
  <2>3. rank_count \in [Place -> [Rank -> 0..(CounterRange - 1)]] /\ rank_count[p][r] \in 0..(CounterRange - 1)
    BY Zenon, <1>5 DEF TypeOK
  <2>4. CASE p = p0 /\ r = r0
    <3>1. rank_count'[p][r] = (rank_count[p][r] + 1) % CounterRange
      BY Zenon, <1>1, <1>3, <2>3, <2>4
    <3>2. Minus(p, r) = Minus(p, r)' \cup {b0} /\ b0 \notin Minus(p, r)'
      <4>1. \A b \in HBucket : b \in Minus(p, r) <=> b \in Minus(p, r)' \/ b = b0
        BY Zenon, <1>4, <2>4
      <4>2. b0 \notin Minus(p, r)'
        BY Zenon, <1>3, <1>4, <2>4
      <4>3. Minus(p, r) \subseteq HBucket /\ Minus(p, r)' \subseteq HBucket
        BY Zenon, BucketSets
      <4> QED
        BY Zenon, <1>3, <4>1, <4>2, <4>3
    <3>3. Cardinality(Minus(p, r)) = Cardinality(Minus(p, r)') + 1
      BY Zenon, <3>2, BucketSets, Buckets
    <3>4. rank_count[p][r] = Wrapped(Cardinality(Plus(p, r)'), Cardinality(Minus(p, r)') + 1)
      BY Zenon, <2>0, <2>1, <3>3
    <3>5. rank_count'[p][r] = Wrapped(Cardinality(Plus(p, r)'), Cardinality(Minus(p, r)'))
      BY Zenon, <2>2, <2>3, <3>1, <3>4, WrapUp
    <3> QED
      BY Zenon, <2>2, <3>5, WrappedType
  <2>5. CASE p # p0 \/ r # r0
    <3>1. rank_count'[p][r] = rank_count[p][r]
      BY Zenon, <1>1, <1>3, <2>3, <2>5
    <3>2. Minus(p, r)' = Minus(p, r)
      <4>1. \A b \in HBucket : b \in Minus(p, r) <=> b \in Minus(p, r)'
        BY Zenon, <1>4, <2>5
      <4>2. Minus(p, r) \subseteq HBucket /\ Minus(p, r)' \subseteq HBucket
        BY Zenon, BucketSets
      <4> QED
        BY Zenon, <4>1, <4>2
    <3> QED
      BY Zenon, <2>0, <2>1, <2>3, <3>1, <3>2
  <2> QED
    BY Zenon, <2>4, <2>5
<1>7. ASSUME NEW p \in Place PROVE Counters(p)'
  <2>1. ZeroSet(p)' = ZeroSet(p)
    BY Zenon, <1>4, BucketSets
  <2>2. zeros'[p] = Cardinality(ZeroSet(p)')
    BY Zenon, <1>1, <2>1 DEF HInv, Counters
  <2> QED
    BY Zenon, <1>6, <2>2 DEF Counters, Wrapped
<1>8. TypeOK'
  <2>1. rank_count' \in [Place -> [Rank -> 0..(CounterRange - 1)]]
    <3>1. rank_count \in [Place -> [Rank -> 0..(CounterRange - 1)]]
      BY Zenon, <1>5 DEF TypeOK
    <3>2. (rank_count[p0][r0] + 1) % CounterRange \in 0..(CounterRange - 1)
      <4>1. rank_count'[p0][r0] = (rank_count[p0][r0] + 1) % CounterRange
        BY Zenon, <1>1, <1>3, <3>1
      <4> QED
        BY Zenon, <1>3, <1>6, <4>1
    <3> QED
      BY <1>1, <1>3, <3>1, <3>2
  <2> QED
    BY Zenon, <1>1, <1>2, <1>5, <2>1 DEF TypeOK, set
<1> QED
  BY Zenon, <1>1, <1>2, <1>7, <1>8, SameRanks, CounterFrame
-----------------------------------------------------------------------------
\* The small set

LEMMA ElementsFacts ==
    ASSUME NEW p, NEW v
    PROVE  /\ v \in Elements(p) <=> (\E s \in Slot : buf[p][s] # 0 /\ v = buf[p][s]) \/ (has_zero_elem[p] /\ v = 0)
           /\ v \in Elements(p)' <=> (\E s \in Slot : buf'[p][s] # 0 /\ v = buf'[p][s]) \/ (has_zero_elem'[p] /\ v = 0)
<1>1. v \in Elements(p) <=> (\E s \in Slot : buf[p][s] # 0 /\ v = buf[p][s]) \/ (has_zero_elem[p] /\ v = 0)
  <2>1. CASE has_zero_elem[p]
    BY Zenon, <2>1 DEF Elements, Used
  <2>2. CASE ~has_zero_elem[p]
    BY Zenon, <2>2 DEF Elements, Used
  <2> QED
    BY Zenon, <2>1, <2>2
<1>2. v \in Elements(p)' <=> (\E s \in Slot : buf'[p][s] # 0 /\ v = buf'[p][s]) \/ (has_zero_elem'[p] /\ v = 0)
  <2>1. CASE has_zero_elem'[p]
    BY Zenon, <2>1 DEF Elements, Used
  <2>2. CASE ~has_zero_elem'[p]
    BY Zenon, <2>2 DEF Elements, Used
  <2> QED
    BY Zenon, <2>1, <2>2
<1> QED
  BY Zenon, <1>1, <1>2

\* What a step of tryInsert does: it is at one place, what is in the set stays there, and the task
\* is dropped only when its value is in the set or the set is large
SetMove(t) ==
    /\ \A u \in GpuThread : u # t => pc'[u] = pc[u] /\ i'[u] = i[u] /\ todo'[u] = todo[u]
    /\ pc'[t] \in {"max", "load", "cas"} /\ todo' \in [GpuThread -> Seq(TaskType)]
    /\ \A p \in Place : p # Task(t).place => buf'[p] = buf[p] /\ is_large'[p] = is_large[p] /\ has_zero_elem'[p] = has_zero_elem[p]
    /\ \A p \in Place : \A s \in Slot : buf[p][s] # 0 => buf'[p][s] = buf[p][s]
    /\ \A p \in Place : (is_large[p] => is_large'[p]) /\ (has_zero_elem[p] => has_zero_elem'[p])
    /\ \/ todo'[t] = todo[t]
       \/ /\ todo'[t] = Tail(todo[t]) /\ pc'[t] = "max"
          /\ \A p \in Place : p = Task(t).place /\ Task(t).small => is_large'[p] \/ Task(t).value \in Elements(p)'

LEMMA SetFrame ==
    ASSUME HInv, NEW t \in GpuThread, todo[t] # <<>>, pc[t] \in {"small", "load", "cas"},
           counter' = counter, old_rank' = old_rank, history' = history, TypeOK',
           SetMove(t), Registers(t)', \A p \in Place : Slots(p)'
    PROVE  HInv'
<1>1. /\ rank_store' = rank_store /\ zeros' = zeros /\ rank_count' = rank_count
      /\ added' = added /\ merged' = merged
  BY Zenon DEF counter, history
<1>2. \A u \in GpuThread : u # t => pc'[u] = pc[u] /\ i'[u] = i[u] /\ todo'[u] = todo[u]
  BY Zenon DEF SetMove
<1>3. Types /\ Types'
  BY Zenon, <1>1 DEF HInv, Types, SetMove
<1>4. \/ todo'[t] = todo[t]
      \/ /\ todo'[t] = Tail(todo[t]) /\ pc'[t] = "max"
         /\ \A p \in Place : p = Task(t).place /\ Task(t).small => is_large'[p] \/ Task(t).value \in Elements(p)'
  BY Zenon DEF SetMove
<1>5. Flights' /\ \A p \in Place : Counters(p)'
  <2>1. ~Flight(t) /\ ~Flight(t)'
    BY Zenon DEF Flight, SetMove
  <2>2. \A u \in GpuThread : u # t => (Flight(u)' <=> Flight(u)) /\ Task(u)' = Task(u)
    BY Zenon, <1>2 DEF Flight, Task
  <2> QED
    BY Zenon, <1>2, <2>1, <2>2, QuietCounters
<1>6. ASSUME NEW u \in GpuThread PROVE Registers(u)'
  <2>1. CASE u = t
    BY Zenon, <2>1
  <2>2. CASE u # t
    <3>1. Registers(u) /\ pc'[u] = pc[u] /\ i'[u] = i[u] /\ todo'[u] = todo[u] /\ Task(u)' = Task(u)
      BY Zenon, <1>2, <2>2 DEF HInv, Task
    <3>2. ASSUME pc[u] \in {"load", "cas"}, NEW s \in Slot, s < i[u]
          PROVE  buf'[Task(u).place][s] \notin {0, Task(u).value}
      <4>1. buf[Task(u).place][s] \notin {0, Task(u).value} /\ todo[u] # <<>>
        BY Zenon, <3>1, <3>2 DEF Registers
      <4>2. Task(u).place \in Place
        BY Zenon, <1>3, <4>1, HeadFacts, TaskFacts
      <4>3. buf'[Task(u).place][s] = buf[Task(u).place][s]
        BY Zenon, <4>1, <4>2 DEF SetMove
      <4> QED
        BY Zenon, <4>1, <4>3
    <3> QED
      BY Zenon, <3>1, <3>2 DEF Registers
  <2> QED
    BY Zenon, <2>1, <2>2
<1>7. /\ \A n \in DOMAIN Tail(todo[t]) : n \in Nat /\ n > 0 /\ n + 1 \in DOMAIN todo[t] /\ Tail(todo[t])[n] = todo[t][n + 1]
      /\ \A n \in DOMAIN todo[t] : n > 1 => n - 1 \in DOMAIN Tail(todo[t]) /\ n - 1 + 1 = n
      /\ \A n \in DOMAIN todo[t] : n \in Nat /\ n > 0
      /\ todo[t][1] = Task(t) /\ 1 \in DOMAIN todo[t] /\ Task(t) \in TaskType
  BY Zenon, <1>3, HeadFacts
<1>8. Tasks'
  <2>1. Tasks
    BY Zenon DEF HInv
  <2>3. \A n \in DOMAIN todo'[t] : TaskOK(todo'[t][n])
    BY Zenon, <1>4, <1>7, <2>1 DEF Tasks
  <2>4. ASSUME NEW u \in GpuThread, NEW n \in DOMAIN todo'[u] PROVE TaskOK(todo'[u][n])
    <3>1. CASE u = t
      BY Zenon, <2>3, <2>4, <3>1
    <3>2. CASE u # t
      BY Zenon, <1>2, <2>1, <2>4, <3>2 DEF Tasks
    <3> QED
      BY Zenon, <3>1, <3>2
  <2>5. ASSUME NEW u \in GpuThread, NEW n \in DOMAIN todo'[u] PROVE TaskOK(todo[u][n])'
    <3>1. TaskOK(todo'[u][n])
      BY Zenon, <2>4
    <3> QED
      BY Zenon, <1>1, <3>1 DEF TaskOK, RanksOf
  <2> QED
    BY Zenon, <2>5 DEF Tasks
<1>9. ASSUME NEW p \in Place PROVE Due(p)' = Due(p)
  <2>1. CASE merged /\ p = 0
    <3>1. Task(t).place = 0
      <4>1. Tasks
        BY Zenon DEF HInv
      <4>2. TaskOK(todo[t][1]) /\ todo[t][1] = Task(t)
        BY Zenon, <1>7, <4>1 DEF Tasks
      <4> QED
        BY Zenon, <2>1, <4>2 DEF TaskOK
    <3>2. buf'[1] = buf[1] /\ is_large'[1] = is_large[1]
      BY Zenon, <3>1, Sets DEF SetMove
    <3>3. LaterSlots' = LaterSlots
      BY Zenon, <3>2 DEF LaterSlots, Used
    <3> QED
      BY Zenon, <1>1, <3>3 DEF Due
  <2>2. CASE ~(merged /\ p = 0)
    BY Zenon, <1>1, <2>2 DEF Due
  <2> QED
    BY Zenon, <2>1, <2>2
<1>10. ASSUME NEW p \in Place, NEW v \in Due(p)
       PROVE  is_large'[p] \/ v \in Elements(p)' \/ Awaited(p, v)'
  <2>1. CASE is_large[p]
    BY Zenon, <2>1 DEF SetMove
  <2>2. CASE v \in Elements(p)
    <3>1. (\E s \in Slot : buf[p][s] # 0 /\ v = buf[p][s]) \/ (has_zero_elem[p] /\ v = 0)
      BY Zenon, <2>2, ElementsFacts
    <3>2. (\E s \in Slot : buf'[p][s] # 0 /\ v = buf'[p][s]) \/ (has_zero_elem'[p] /\ v = 0)
      BY Zenon, <3>1 DEF SetMove
    <3> QED
      BY Zenon, <3>2, ElementsFacts
  <2>3. CASE Awaited(p, v)
    <3>1. PICK u \in GpuThread : \E n \in DOMAIN todo[u] :
            todo[u][n].small /\ todo[u][n].place = p /\ todo[u][n].value = v
      BY Zenon, <2>3 DEF Awaited
    <3>2. PICK n \in DOMAIN todo[u] : todo[u][n].small /\ todo[u][n].place = p /\ todo[u][n].value = v
      BY Zenon, <3>1
    <3>3. CASE todo'[u] = todo[u]
      BY Zenon, <3>2, <3>3 DEF Awaited
    <3>4. CASE todo'[u] # todo[u]
      <4>1. u = t /\ todo'[t] = Tail(todo[t])
        BY Zenon, <1>2, <1>4, <3>4
      <4>2. CASE n > 1
        <5>1. n - 1 \in DOMAIN todo'[t] /\ todo'[t][n - 1] = todo[t][n]
          BY Zenon, <1>7, <4>1, <4>2, <3>2
        <5> QED
          BY Zenon, <3>2, <4>1, <5>1 DEF Awaited
      <4>3. CASE ~(n > 1)
        <5>1. n \in Nat /\ n > 0
          BY Zenon, <1>7, <4>1
        <5>2. n = 1
          BY <4>3, <5>1
        <5>3. Task(t).small /\ Task(t).place = p /\ Task(t).value = v
          BY Zenon, <1>7, <3>2, <4>1, <5>2
        <5>4. is_large'[p] \/ Task(t).value \in Elements(p)'
          BY Zenon, <1>4, <3>4, <4>1, <5>3
        <5> QED
          BY Zenon, <5>3, <5>4
      <4> QED
        BY Zenon, <4>2, <4>3
    <3> QED
      BY Zenon, <3>3, <3>4
  <2>4. is_large[p] \/ v \in Elements(p) \/ Awaited(p, v)
    BY Zenon DEF HInv, Complete
  <2> QED
    BY Zenon, <2>1, <2>2, <2>3, <2>4
<1>11. ASSUME NEW p, NEW b, NEW r, Rises(p, b, r) PROVE Rises(p, b, r)'
  <2>1. PICK u \in GpuThread : \E n \in DOMAIN todo[u] :
          /\ n > 1 \/ pc[u] = "max"
          /\ todo[u][n].place = p /\ todo[u][n].bucket = b /\ todo[u][n].rank >= r
    BY Zenon, <1>11 DEF Rises
  <2>2. PICK n \in DOMAIN todo[u] :
          /\ n > 1 \/ pc[u] = "max"
          /\ todo[u][n].place = p /\ todo[u][n].bucket = b /\ todo[u][n].rank >= r
    BY Zenon, <2>1
  <2>3. CASE u # t
    <3>1. todo'[u] = todo[u] /\ pc'[u] = pc[u]
      BY Zenon, <1>2, <2>3
    <3> QED
      BY Zenon, <2>2, <3>1 DEF Rises
  <2>4. CASE u = t
    <3>1. n > 1
      BY Zenon, <2>2, <2>4
    <3>2. CASE todo'[t] = todo[t]
      BY Zenon, <2>2, <2>4, <3>1, <3>2 DEF Rises
    <3>3. CASE todo'[t] = Tail(todo[t]) /\ pc'[t] = "max"
      <4>1. n - 1 \in DOMAIN todo'[t] /\ todo'[t][n - 1] = todo[t][n]
        BY Zenon, <1>7, <2>2, <2>4, <3>1, <3>3
      <4>2. todo'[t][n - 1].place = p /\ todo'[t][n - 1].bucket = b /\ todo'[t][n - 1].rank >= r
        BY Zenon, <2>2, <2>4, <4>1
      <4> QED
        BY Zenon, <3>3, <4>1, <4>2 DEF Rises
    <3> QED
      BY Zenon, <1>4, <3>2, <3>3
  <2> QED
    BY Zenon, <2>3, <2>4
<1>12. ASSUME NEW p \in Place PROVE Complete(p)'
  <2>1. Complete(p)
    BY Zenon DEF HInv
  <2>2. \A v \in Due(p) : rank_store'[p][BucketOf[v]] >= RankOf[v] \/ Rises(p, BucketOf[v], RankOf[v])'
    BY Zenon, <1>1, <1>11, <2>1 DEF Complete
  <2>3. \A b \in HBucket : rank_store'[p][b] \in RanksOf(added'[p], b)
    BY Zenon, <1>1, <2>1 DEF Complete
  <2> QED
    BY Zenon, <1>9, <1>10, <2>2, <2>3 DEF Complete, RanksOf
<1> QED
  BY Zenon, <1>3, <1>5, <1>6, <1>8, <1>12 DEF HInv

\* What a thread knows of its task while it is in tryInsert
LEMMA SearchFacts ==
    ASSUME HInv, NEW t \in GpuThread, todo[t] # <<>>
    PROVE  /\ Types /\ TypeOK /\ Task(t) \in TaskType /\ Task(t).place \in Place /\ Task(t).value \in Value
           /\ Task(t).small => Task(t).value \in added[Task(t).place]
           /\ Registers(t) /\ Slots(Task(t).place)
           /\ i[t] \in Slot /\ i[t] \in Nat
<1>1. Types /\ TypeOK /\ Registers(t) /\ Tasks
  BY Zenon DEF HInv, Types
<1>2. Task(t) \in TaskType /\ 1 \in DOMAIN todo[t] /\ todo[t][1] = Task(t)
  BY Zenon, <1>1, HeadFacts
<1>3. Task(t).place \in Place /\ Task(t).value \in Value
  BY Zenon, <1>2, TaskFacts
<1>4. TaskOK(todo[t][1])
  BY Zenon, <1>1, <1>2 DEF Tasks
<1>5. Slots(Task(t).place)
  BY Zenon, <1>3 DEF HInv
<1>6. i[t] \in Slot
  BY Zenon, <1>1 DEF TypeOK
<1> QED
  BY Zenon, <1>1, <1>2, <1>3, <1>4, <1>5, <1>6, Sets DEF TaskOK

LEMMA DoneFacts ==
    ASSUME Types, NEW t \in GpuThread, todo[t] # <<>>, Done(t)
    PROVE  /\ pc'[t] = "max" /\ i'[t] = 1 /\ todo'[t] = Tail(todo[t])
           /\ \A u \in GpuThread : u # t => pc'[u] = pc[u] /\ i'[u] = i[u] /\ todo'[u] = todo[u]
           /\ todo' \in [GpuThread -> Seq(TaskType)]
           /\ pc' \in [GpuThread -> {"max", "zeros", "sub", "add", "small", "load", "cas"}]
           /\ i' \in [GpuThread -> Slot]
           /\ Registers(t)'
<1>1. /\ todo \in [GpuThread -> Seq(TaskType)] /\ i \in [GpuThread -> Slot]
      /\ pc \in [GpuThread -> {"max", "zeros", "sub", "add", "small", "load", "cas"}]
  BY Zenon DEF Types, TypeOK
<1>2. /\ todo' = [todo EXCEPT ![t] = Tail(todo[t])] /\ pc' = [pc EXCEPT ![t] = "max"] /\ i' = [i EXCEPT ![t] = 1]
  BY Zenon DEF Done
<1>3. Tail(todo[t]) \in Seq(TaskType) /\ 1 \in Slot
  BY Zenon, HeadFacts, Sets
<1>4. pc'[t] = "max" /\ i'[t] = 1 /\ todo'[t] = Tail(todo[t])
  BY Zenon, <1>1, <1>2
<1>5. \A u \in GpuThread : u # t => pc'[u] = pc[u] /\ i'[u] = i[u] /\ todo'[u] = todo[u]
  BY Zenon, <1>1, <1>2
<1>6. /\ todo' \in [GpuThread -> Seq(TaskType)] /\ i' \in [GpuThread -> Slot]
      /\ pc' \in [GpuThread -> {"max", "zeros", "sub", "add", "small", "load", "cas"}]
  BY Zenon, <1>1, <1>2, <1>3
<1>7. Registers(t)'
  BY Zenon, <1>4 DEF Registers
<1> QED
  BY Zenon, <1>4, <1>5, <1>6, <1>7

\* The steps that leave the sets as they are
LEMMA SameSlots ==
    ASSUME HInv, set' = set, history' = history
    PROVE  /\ \A p \in Place : Slots(p)' /\ Elements(p)' = Elements(p)
           /\ buf' = buf /\ is_large' = is_large /\ has_zero_elem' = has_zero_elem
<1>1. buf' = buf /\ is_large' = is_large /\ has_zero_elem' = has_zero_elem /\ added' = added
  BY Zenon DEF set, history
<1>2. ASSUME NEW p \in Place PROVE Slots(p)'
  <2>1. Slots(p)
    BY Zenon DEF HInv
  <2> QED
    BY Zenon, <1>1, <2>1 DEF Slots
<1> QED
  BY Zenon, <1>1, <1>2 DEF Elements, Used

LEMMA DropTask ==
    ASSUME HInv, NEW t \in GpuThread, todo[t] # <<>>, pc[t] \in {"small", "load", "cas"},
           set' = set, counter' = counter, old_rank' = old_rank, history' = history, Done(t),
           Task(t).small => is_large[Task(t).place] \/ Task(t).value \in Elements(Task(t).place)
    PROVE  HInv'
<1>1. Types /\ TypeOK /\ Task(t).place \in Place
  BY Zenon, SearchFacts
<1>2. /\ pc'[t] = "max" /\ i'[t] = 1 /\ todo'[t] = Tail(todo[t])
      /\ \A u \in GpuThread : u # t => pc'[u] = pc[u] /\ i'[u] = i[u] /\ todo'[u] = todo[u]
      /\ todo' \in [GpuThread -> Seq(TaskType)]
      /\ pc' \in [GpuThread -> {"max", "zeros", "sub", "add", "small", "load", "cas"}]
      /\ i' \in [GpuThread -> Slot]
      /\ Registers(t)'
  BY Zenon, <1>1, DoneFacts
<1>3. /\ \A p \in Place : Slots(p)' /\ Elements(p)' = Elements(p)
      /\ buf' = buf /\ is_large' = is_large /\ has_zero_elem' = has_zero_elem
  BY Zenon, SameSlots
<1>4. TypeOK'
  BY Zenon, <1>1, <1>2, <1>3 DEF TypeOK, counter
<1>5. SetMove(t)
  BY Zenon, <1>1, <1>2, <1>3 DEF SetMove
<1> QED
  BY Zenon, <1>2, <1>3, <1>4, <1>5, SetFrame

LEMMA GoOn ==
    ASSUME HInv, NEW t \in GpuThread, todo[t] # <<>>, pc[t] \in {"small", "load", "cas"},
           set' = set, counter' = counter, old_rank' = old_rank, history' = history, todo' = todo,
           NEW l \in {"load", "cas"}, pc' = [pc EXCEPT ![t] = l], i' \in [GpuThread -> Slot],
           \A u \in GpuThread : u # t => i'[u] = i[u],
           Task(t).small, Task(t).value # 0,
           \A s \in Slot : s < i'[t] => buf[Task(t).place][s] \notin {0, Task(t).value}
    PROVE  HInv'
<1>1. Types /\ TypeOK /\ Task(t).place \in Place /\ todo \in [GpuThread -> Seq(TaskType)]
  BY Zenon, SearchFacts DEF Types
<1>2. /\ pc'[t] = l /\ \A u \in GpuThread : u # t => pc'[u] = pc[u]
      /\ pc' \in [GpuThread -> {"max", "zeros", "sub", "add", "small", "load", "cas"}]
  BY Zenon, <1>1 DEF TypeOK
<1>3. /\ \A p \in Place : Slots(p)' /\ Elements(p)' = Elements(p)
      /\ buf' = buf /\ is_large' = is_large /\ has_zero_elem' = has_zero_elem
  BY Zenon, SameSlots
<1>4. TypeOK'
  BY Zenon, <1>1, <1>2, <1>3 DEF TypeOK, counter
<1>5. SetMove(t)
  BY Zenon, <1>1, <1>2, <1>3 DEF SetMove
<1>6. Registers(t)'
  BY Zenon, <1>2, <1>3 DEF Registers, Task
<1> QED
  BY Zenon, <1>3, <1>4, <1>5, <1>6, SetFrame

LEMMA CheckLargeStep ==
    ASSUME HInv, NEW t \in GpuThread, todo[t] # <<>>, CheckLarge(t), UNCHANGED history
    PROVE  HInv'
<1> DEFINE k == Task(t)
<1>1. /\ pc[t] = "small" /\ is_large' = is_large /\ buf' = buf /\ counter' = counter /\ old_rank' = old_rank
      /\ history' = history
  BY Zenon DEF CheckLarge
<1>2. /\ Types /\ TypeOK /\ k \in TaskType /\ k.place \in Place
      /\ k.small => k.value \in added[k.place]
      /\ Registers(t) /\ i[t] \in Slot
  BY Zenon, SearchFacts
<1>3. CASE (~k.small \/ is_large[k.place]) /\ Done(t) /\ UNCHANGED has_zero_elem
  <2>1. set' = set
    BY Zenon, <1>1, <1>3 DEF set
  <2> QED
    BY Zenon, <1>1, <1>3, <2>1, DropTask
<1>4. CASE k.small /\ k.value = 0 /\ Done(t) /\ has_zero_elem' = [has_zero_elem EXCEPT ![k.place] = TRUE]
  <2>1. /\ pc'[t] = "max" /\ i'[t] = 1 /\ todo'[t] = Tail(todo[t])
        /\ \A u \in GpuThread : u # t => pc'[u] = pc[u] /\ i'[u] = i[u] /\ todo'[u] = todo[u]
        /\ todo' \in [GpuThread -> Seq(TaskType)]
        /\ pc' \in [GpuThread -> {"max", "zeros", "sub", "add", "small", "load", "cas"}]
        /\ i' \in [GpuThread -> Slot]
        /\ Registers(t)'
    BY Zenon, <1>2, <1>4, DoneFacts
  <2>2. /\ has_zero_elem' \in [Place -> BOOLEAN] /\ has_zero_elem'[k.place] = TRUE
        /\ \A p \in Place : p # k.place => has_zero_elem'[p] = has_zero_elem[p]
    <3>1. has_zero_elem \in [Place -> BOOLEAN]
      BY Zenon, <1>2 DEF TypeOK
    <3> HIDE DEF k
    <3> QED
      BY Zenon, <1>2, <1>4, <3>1
  <2>3. TypeOK'
    BY Zenon, <1>1, <1>2, <2>1, <2>2 DEF TypeOK, counter
  <2>4. ASSUME NEW p \in Place PROVE Slots(p)'
    <3>1. Slots(p) /\ added' = added
      BY Zenon, <1>1 DEF HInv, history
    <3>2. has_zero_elem'[p] => 0 \in added[p]
      <4>1. CASE p = k.place
        BY Zenon, <1>2, <1>4, <4>1
      <4>2. CASE p # k.place
        BY Zenon, <2>2, <3>1, <4>2 DEF Slots
      <4> QED
        BY Zenon, <4>1, <4>2
    <3> QED
      BY Zenon, <1>1, <3>1, <3>2 DEF Slots
  <2>5. \A p \in Place : p = k.place => k.value \in Elements(p)'
    BY Zenon, <1>4, <2>2, ElementsFacts
  <2>6. \A p \in Place : has_zero_elem[p] => has_zero_elem'[p]
    BY Zenon, <2>2
  <2>7. SetMove(t)
    BY Zenon, <1>1, <2>1, <2>2, <2>5, <2>6 DEF SetMove
  <2> QED
    BY Zenon, <1>1, <2>1, <2>3, <2>4, <2>7, SetFrame
<1>5. CASE k.small /\ k.value # 0 /\ Goto(t, "load") /\ UNCHANGED has_zero_elem
  <2>1. set' = set /\ todo' = todo /\ i' = i /\ pc' = [pc EXCEPT ![t] = "load"] /\ i \in [GpuThread -> Slot]
    BY Zenon, <1>1, <1>2, <1>5 DEF set, Goto, TypeOK
  <2>2. i[t] = 1
    BY Zenon, <1>1, <1>2 DEF Registers
  <2>3. \A s \in Slot : ~(s < 1)
    BY DEF Slot
  <2> QED
    BY Zenon, <1>1, <1>5, <2>1, <2>2, <2>3, GoOn
<1> QED
  BY Zenon, <1>3, <1>4, <1>5 DEF CheckLarge

\* A thread that found every slot taken by other values has a value too many
LEMMA TooMany ==
    ASSUME Counting, HInv, NEW t \in GpuThread, todo[t] # <<>>, pc[t] \in {"load", "cas"}, i[t] = capacity,
           buf[Task(t).place][i[t]] \notin {0, Task(t).value}
    PROVE  Cardinality(added[Task(t).place] \ {0}) > capacity
<1> DEFINE k == Task(t)
           f == buf[k.place]
           A == added[k.place] \ {0}
           Seen == {f[s] : s \in Slot}
<1>1. /\ Types /\ k.place \in Place /\ (k.small => k.value \in added[k.place])
      /\ Registers(t) /\ Slots(k.place)
  BY Zenon, SearchFacts
<1>2. ASSUME NEW s \in Slot PROVE f[s] # 0 /\ f[s] # k.value
  <2>1. s < capacity \/ s = capacity
    BY Sets, Constants
  <2> QED
    BY Zenon, <1>1, <2>1 DEF Registers
<1>3. ASSUME NEW s \in Slot PROVE f[s] \in A /\ \A r \in Slot : r < s => f[r] # f[s]
  BY Zenon, <1>1, <1>2 DEF Slots
<1>4. k.value \in A
  BY Zenon, <1>1 DEF Registers
<1> HIDE DEF k, f
<1>5. \A r, s \in Slot : f[r] = f[s] => r = s
  <2>1. \A r, s \in Slot : r < s \/ s < r \/ r = s
    BY Sets
  <2> QED
    BY Zenon, <1>3, <2>1
<1>6. IsFiniteSet(Seen) /\ Cardinality(Seen) = capacity
  <2>1. Slot \in SUBSET Slot
    BY Zenon
  <2>2. IsFiniteSet(Seen) /\ Cardinality(Seen) = Cardinality(Slot)
    <3>1. \A g : \A U \in SUBSET Slot : (\A r, s \in U : g[r] = g[s] => r = s)
            => IsFiniteSet({g[s] : s \in U}) /\ Cardinality({g[s] : s \in U}) = Cardinality(U)
      BY Zenon DEF Counting
    <3>2. (\A r, s \in Slot : f[r] = f[s] => r = s)
            => IsFiniteSet({f[s] : s \in Slot}) /\ Cardinality({f[s] : s \in Slot}) = Cardinality(Slot)
      BY Zenon, <2>1, <3>1
    <3> QED
      BY Zenon, <1>5, <3>2
  <2> QED
    BY Zenon, <2>2 DEF Counting
<1>7. k.value \notin Seen /\ Seen \cup {k.value} \subseteq A
  BY Zenon, <1>2, <1>3, <1>4
<1>8. IsFiniteSet(A)
  <2>1. IsFiniteSet(added[k.place]) /\ A \subseteq added[k.place]
    BY Zenon, <1>1 DEF Types
  <2> QED
    BY Zenon, <2>1 DEF Counting
<1> HIDE DEF Seen, A
<1>9. Cardinality(Seen \cup {k.value}) = capacity + 1
  BY Zenon, <1>6, <1>7 DEF Counting
<1>10. Cardinality(Seen \cup {k.value}) <= Cardinality(A) /\ Cardinality(A) \in Nat
  BY Zenon, <1>7, <1>8 DEF Counting
<1>11. Cardinality(A) > capacity
  BY <1>9, <1>10, Constants
<1> QED
  BY Zenon, <1>11 DEF A, k

LEMMA NextSlotStep ==
    ASSUME Counting, HInv, NEW t \in GpuThread, todo[t] # <<>>, pc[t] \in {"load", "cas"}, NextSlot(t),
           buf[Task(t).place][i[t]] \notin {0, Task(t).value},
           has_zero_elem' = has_zero_elem, buf' = buf, counter' = counter, old_rank' = old_rank, history' = history
    PROVE  HInv'
<1> DEFINE k == Task(t)
<1>1. /\ Types /\ TypeOK /\ k.place \in Place /\ Registers(t) /\ i[t] \in Slot /\ i[t] \in Nat
  BY Zenon, SearchFacts
<1>2. CASE i[t] = capacity
  <2>1. is_large' = [is_large EXCEPT ![k.place] = TRUE] /\ Done(t)
    BY Zenon, <1>2 DEF NextSlot, LastSlot
  <2>2. /\ pc'[t] = "max" /\ i'[t] = 1 /\ todo'[t] = Tail(todo[t])
        /\ \A u \in GpuThread : u # t => pc'[u] = pc[u] /\ i'[u] = i[u] /\ todo'[u] = todo[u]
        /\ todo' \in [GpuThread -> Seq(TaskType)]
        /\ pc' \in [GpuThread -> {"max", "zeros", "sub", "add", "small", "load", "cas"}]
        /\ i' \in [GpuThread -> Slot]
        /\ Registers(t)'
    BY Zenon, <1>1, <2>1, DoneFacts
  <2>3. Cardinality(added[k.place] \ {0}) > capacity
    BY Zenon, <1>2, TooMany
  <2> HIDE DEF k
  <2>4. /\ is_large' \in [Place -> BOOLEAN] /\ is_large'[k.place] = TRUE
        /\ \A p \in Place : p # k.place => is_large'[p] = is_large[p]
    <3>1. is_large \in [Place -> BOOLEAN]
      BY Zenon, <1>1 DEF TypeOK
    <3> QED
      BY Zenon, <1>1, <2>1, <3>1
  <2>5. TypeOK'
    BY Zenon, <1>1, <2>2, <2>4 DEF TypeOK, counter
  <2>6. ASSUME NEW p \in Place PROVE Slots(p)'
    <3>1. Slots(p) /\ added' = added
      BY Zenon DEF HInv, history
    <3>2. is_large'[p] => Cardinality(added[p] \ {0}) > capacity
      <4>1. CASE p = k.place
        BY Zenon, <2>3, <4>1
      <4>2. CASE p # k.place
        BY Zenon, <2>4, <3>1, <4>2 DEF Slots
      <4> QED
        BY Zenon, <4>1, <4>2
    <3> QED
      BY Zenon, <3>1, <3>2 DEF Slots
  <2>7. \A p \in Place : is_large[p] => is_large'[p]
    BY Zenon, <2>4
  <2>8. SetMove(t)
    BY Zenon, <2>2, <2>4, <2>7 DEF SetMove, k
  <2> QED
    BY Zenon, <2>2, <2>5, <2>6, <2>8, SetFrame
<1>3. CASE i[t] # capacity
  <2>1. i' = [i EXCEPT ![t] = i[t] + 1] /\ pc' = [pc EXCEPT ![t] = "load"] /\ is_large' = is_large /\ todo' = todo
    BY Zenon, <1>3 DEF NextSlot, LastSlot
  <2>2. i[t] + 1 \in Slot
    BY <1>1, <1>3, Constants DEF Slot
  <2>3. i' \in [GpuThread -> Slot] /\ i'[t] = i[t] + 1 /\ \A u \in GpuThread : u # t => i'[u] = i[u]
    BY Zenon, <1>1, <2>1, <2>2 DEF TypeOK
  <2>4. set' = set
    BY Zenon, <2>1 DEF set
  <2>5. k.small /\ k.value # 0 /\ \A s \in Slot : s < i[t] => buf[k.place][s] \notin {0, k.value}
    BY Zenon, <1>1 DEF Registers
  <2>6. ASSUME NEW s \in Slot, s < i'[t] PROVE buf[k.place][s] \notin {0, k.value}
    <3>1. s < i[t] \/ s = i[t]
      BY <1>1, <2>3, <2>6 DEF Slot
    <3> QED
      BY Zenon, <2>5, <3>1
  <2> QED
    BY Zenon, <2>1, <2>3, <2>4, <2>5, <2>6, GoOn
<1> QED
  BY Zenon, <1>2, <1>3

LEMMA LoadSlotStep ==
    ASSUME Counting, HInv, NEW t \in GpuThread, todo[t] # <<>>, LoadSlot(t), UNCHANGED history
    PROVE  HInv'
<1> DEFINE k == Task(t)
<1>1. /\ pc[t] = "load" /\ has_zero_elem' = has_zero_elem /\ buf' = buf /\ counter' = counter /\ old_rank' = old_rank
      /\ history' = history
  BY Zenon DEF LoadSlot
<1>2. PICK x \in {buf[k.place][i[t]], 0} :
        \/ x = k.value /\ Done(t) /\ UNCHANGED is_large
        \/ x = 0 /\ Goto(t, "cas") /\ UNCHANGED is_large
        \/ x \notin {0, k.value} /\ NextSlot(t)
  BY Zenon DEF LoadSlot
<1>3. /\ TypeOK /\ Registers(t) /\ i[t] \in Slot /\ i \in [GpuThread -> Slot]
  BY Zenon, SearchFacts DEF TypeOK
<1>4. k.small /\ k.value # 0 /\ \A s \in Slot : s < i[t] => buf[k.place][s] \notin {0, k.value}
  BY Zenon, <1>1, <1>3 DEF Registers
<1>5. CASE x = k.value /\ Done(t) /\ UNCHANGED is_large
  <2>1. set' = set
    BY Zenon, <1>1, <1>5 DEF set
  <2>2. buf[k.place][i[t]] = k.value
    BY Zenon, <1>2, <1>4, <1>5
  <2>3. k.value \in Elements(k.place)
    BY Zenon, <1>3, <1>4, <2>2, ElementsFacts
  <2> QED
    BY Zenon, <1>1, <1>5, <2>1, <2>3, DropTask
<1>6. CASE x = 0 /\ Goto(t, "cas") /\ UNCHANGED is_large
  <2>1. set' = set /\ todo' = todo /\ i' = i /\ pc' = [pc EXCEPT ![t] = "cas"]
    BY Zenon, <1>1, <1>6 DEF set, Goto
  <2> QED
    BY Zenon, <1>1, <1>3, <1>4, <2>1, GoOn
<1>7. CASE x \notin {0, k.value} /\ NextSlot(t)
  <2>1. buf[k.place][i[t]] \notin {0, k.value}
    BY Zenon, <1>2, <1>7
  <2> QED
    BY Zenon, <1>1, <1>7, <2>1, NextSlotStep
<1> QED
  BY Zenon, <1>2, <1>5, <1>6, <1>7

LEMMA CasSlotStep ==
    ASSUME Counting, HInv, NEW t \in GpuThread, todo[t] # <<>>, CasSlot(t), UNCHANGED history
    PROVE  HInv'
<1> DEFINE k == Task(t)
           old == buf[k.place][i[t]]
<1>1. /\ pc[t] = "cas" /\ has_zero_elem' = has_zero_elem /\ counter' = counter /\ old_rank' = old_rank
      /\ history' = history
  BY Zenon DEF CasSlot
<1>2. /\ Types /\ TypeOK /\ k.place \in Place /\ k.value \in Value /\ Registers(t) /\ i[t] \in Slot
      /\ k.small => k.value \in added[k.place]
  BY Zenon, SearchFacts
<1>3. k.small /\ k.value # 0 /\ \A s \in Slot : s < i[t] => buf[k.place][s] \notin {0, k.value}
  BY Zenon, <1>1, <1>2 DEF Registers
<1>4. CASE old = k.value
  <2>1. buf' = buf /\ Done(t) /\ is_large' = is_large
    BY Zenon, <1>3, <1>4 DEF CasSlot
  <2>2. set' = set
    BY Zenon, <1>1, <2>1 DEF set
  <2>3. k.value \in Elements(k.place)
    BY Zenon, <1>2, <1>3, <1>4, ElementsFacts
  <2> QED
    BY Zenon, <1>1, <2>1, <2>2, <2>3, DropTask
<1>5. CASE old \notin {0, k.value}
  <2>1. buf' = buf /\ NextSlot(t)
    BY Zenon, <1>5 DEF CasSlot
  <2> QED
    BY Zenon, <1>1, <1>5, <2>1, NextSlotStep
<1>6. CASE old = 0
  <2>1. buf' = [buf EXCEPT ![k.place][i[t]] = k.value] /\ Done(t) /\ is_large' = is_large
    BY Zenon, <1>6 DEF CasSlot
  <2>2. /\ pc'[t] = "max" /\ i'[t] = 1 /\ todo'[t] = Tail(todo[t])
        /\ \A u \in GpuThread : u # t => pc'[u] = pc[u] /\ i'[u] = i[u] /\ todo'[u] = todo[u]
        /\ todo' \in [GpuThread -> Seq(TaskType)]
        /\ pc' \in [GpuThread -> {"max", "zeros", "sub", "add", "small", "load", "cas"}]
        /\ i' \in [GpuThread -> Slot]
        /\ Registers(t)'
    BY Zenon, <1>2, <2>1, DoneFacts
  <2> DEFINE p0 == k.place
             s0 == i[t]
  <2>3. buf[p0][s0] = 0 /\ p0 \in Place /\ s0 \in Slot
    BY Zenon, <1>2, <1>6
  <2>4. \A s \in Slot : s < s0 => buf[p0][s] \notin {0, k.value}
    BY Zenon, <1>3
  <2> HIDE DEF k, p0, s0, old
  <2>5. /\ buf' \in [Place -> [Slot -> Value]] /\ buf'[p0][s0] = k.value
        /\ \A p \in Place : p # p0 => buf'[p] = buf[p]
        /\ \A s \in Slot : s # s0 => buf'[p0][s] = buf[p0][s]
    <3>1. buf \in [Place -> [Slot -> Value]]
      BY Zenon, <1>2 DEF TypeOK
    <3>2. buf' = [buf EXCEPT ![p0][s0] = k.value]
      BY Zenon, <2>1 DEF p0, s0
    <3> QED
      BY Zenon, <1>2, <2>3, <3>1, <3>2
  <2>6. TypeOK'
    BY Zenon, <1>1, <1>2, <2>1, <2>2, <2>5 DEF TypeOK, counter
  <2>7. added' = added
    BY Zenon, <1>1 DEF history
  <2>8. \A s \in Slot : s < s0 \/ s = s0 \/ s0 < s
    BY <2>3 DEF Slot
  <2>9. \A s \in Slot : s0 < s => buf[p0][s] = 0
    <3>1. Slots(p0)
      BY Zenon, <2>3 DEF HInv
    <3> QED
      BY Zenon, <2>3, <3>1 DEF Slots
  <2>10. ASSUME NEW s \in Slot, buf'[p0][s] # 0
         PROVE  buf'[p0][s] \in added[p0] /\ \A r \in Slot : r < s => buf'[p0][r] \notin {0, buf'[p0][s]}
    <3>0. Slots(p0)
      BY Zenon, <2>3 DEF HInv
    <3>1. CASE s = s0
      <4>1. buf'[p0][s] = k.value
        BY Zenon, <2>5, <3>1
      <4>2. k.value \in added[p0]
        BY Zenon, <1>2, <1>3 DEF p0
      <4>3. ASSUME NEW r \in Slot, r < s PROVE buf'[p0][r] \notin {0, k.value}
        <5>1. r # s0
          BY <3>1, <4>3 DEF Slot
        <5>2. buf'[p0][r] = buf[p0][r]
          BY Zenon, <2>5, <5>1
        <5> QED
          BY Zenon, <2>4, <3>1, <4>3, <5>2
      <4> QED
        BY Zenon, <4>1, <4>2, <4>3
    <3>2. CASE s # s0
      <4>1. buf'[p0][s] = buf[p0][s]
        BY Zenon, <2>5, <3>2
      <4>2. s < s0
        BY Zenon, <2>8, <2>9, <2>10, <3>2, <4>1
      <4>3. buf[p0][s] \in added[p0] /\ \A r \in Slot : r < s => buf[p0][r] \notin {0, buf[p0][s]}
        BY Zenon, <2>10, <3>0, <4>1 DEF Slots
      <4>4. \A r \in Slot : r < s => r # s0
        BY <2>3, <4>2 DEF Slot
      <4>5. \A r \in Slot : r < s => buf'[p0][r] = buf[p0][r]
        BY Zenon, <2>5, <4>4
      <4> QED
        BY Zenon, <4>1, <4>3, <4>5
    <3> QED
      BY Zenon, <3>1, <3>2
  <2>11. ASSUME NEW p \in Place PROVE Slots(p)'
    <3>1. Slots(p)
      BY Zenon DEF HInv
    <3>2. /\ has_zero_elem'[p] => 0 \in added[p]
          /\ is_large'[p] => Cardinality(added[p] \ {0}) > capacity
      BY Zenon, <1>1, <2>1, <3>1 DEF Slots
    <3>3. ASSUME NEW s \in Slot, buf'[p][s] # 0
          PROVE  buf'[p][s] \in added[p] /\ \A r \in Slot : r < s => buf'[p][r] \notin {0, buf'[p][s]}
      <4>1. CASE p = p0
        BY Zenon, <2>10, <3>3, <4>1
      <4>2. CASE p # p0
        <5>1. buf'[p] = buf[p]
          BY Zenon, <2>5, <4>2
        <5> QED
          BY Zenon, <3>1, <3>3, <5>1 DEF Slots
      <4> QED
        BY Zenon, <4>1, <4>2
    <3> QED
      BY Zenon, <2>7, <3>2, <3>3 DEF Slots
  <2>12. ASSUME NEW p \in Place, NEW s \in Slot, buf[p][s] # 0 PROVE buf'[p][s] = buf[p][s]
    <3>1. CASE p = p0
      BY Zenon, <2>3, <2>5, <2>12, <3>1
    <3>2. CASE p # p0
      BY Zenon, <2>5, <3>2
    <3> QED
      BY Zenon, <3>1, <3>2
  <2>13. \A p \in Place : p = p0 => k.value \in Elements(p)'
    BY Zenon, <1>3, <2>3, <2>5, ElementsFacts
  <2>14. SetMove(t)
    <3>1. \A p \in Place : p # Task(t).place => buf'[p] = buf[p] /\ is_large'[p] = is_large[p] /\ has_zero_elem'[p] = has_zero_elem[p]
      BY Zenon, <1>1, <2>1, <2>5 DEF p0, k
    <3>2. \A p \in Place : p = Task(t).place /\ Task(t).small => is_large'[p] \/ Task(t).value \in Elements(p)'
      BY Zenon, <2>13 DEF p0, k
    <3>3. \A p \in Place : (is_large[p] => is_large'[p]) /\ (has_zero_elem[p] => has_zero_elem'[p])
      BY Zenon, <1>1, <2>1
    <3> QED
      BY Zenon, <2>2, <2>12, <3>1, <3>2, <3>3 DEF SetMove
  <2> QED
    BY Zenon, <1>1, <2>2, <2>6, <2>11, <2>14, SetFrame
<1> QED
  BY Zenon, <1>4, <1>5, <1>6

LEMMA StepHInv ==
    ASSUME Counting, Remainder, HInv, NEW t \in GpuThread, Step(t)
    PROVE  HInv'
<1>1. todo[t] # <<>> /\ UNCHANGED history
  BY Zenon DEF Step
<1> QED
  BY Zenon, <1>1, AtomicMaxStep, SubZerosStep, SubRankStep, AddRankStep, CheckLargeStep, LoadSlotStep, CasSlotStep DEF Step
-----------------------------------------------------------------------------
\* The kernels

LEMMA InitHInv == ASSUME Counting, Init PROVE HInv
<1>1. TypeOK
  <2>1. bucket_count \in 0..(CounterRange - 1) /\ 0 \in 0..(CounterRange - 1) /\ \A r \in Rank : (IF r = 0 THEN bucket_count ELSE 0) \in 0..(CounterRange - 1)
    BY Constants
  <2>2. 0 \in Value /\ 0 \in Rank /\ 1 \in Slot
    BY Zenon, Constants, Sets
  <2> QED
    BY Zenon, <2>1, <2>2 DEF Init, TypeOK
<1>2. \A t \in GpuThread : todo[t] = <<>> /\ pc[t] = "max" /\ i[t] = 1
  BY Zenon DEF Init
<1>3. \A p \in Place : /\ added[p] = {} /\ ~has_zero_elem[p] /\ ~is_large[p] /\ zeros[p] = bucket_count
                       /\ \A s \in Slot : buf[p][s] = 0
                       /\ \A b \in HBucket : rank_store[p][b] = 0
                       /\ \A r \in Rank : rank_count[p][r] = IF r = 0 THEN bucket_count ELSE 0
  BY Zenon DEF Init
<1>4. Types
  <2>1. todo \in [GpuThread -> Seq(TaskType)]
    <3>1. <<>> \in Seq(TaskType)
      OBVIOUS
    <3> QED
      BY Zenon, <3>1 DEF Init
  <2>2. added \in [Place -> SUBSET Value] /\ merged \in BOOLEAN
    BY Zenon DEF Init
  <2>3. \A p \in Place : IsFiniteSet(added[p])
    BY Zenon, <1>3 DEF Counting
  <2> QED
    BY Zenon, <1>1, <2>1, <2>2, <2>3 DEF Types
<1>5. \A t \in GpuThread : Registers(t) /\ ~Flight(t) /\ \A p, b : ~At(t, p, b)
  BY Zenon, <1>2 DEF Registers, Flight, At
<1>6. Tasks
  <2>1. DOMAIN <<>> = {}
    OBVIOUS
  <2> QED
    BY Zenon, <1>2, <2>1 DEF Tasks
<1>7. \A p \in Place : Slots(p)
  BY Zenon, <1>3 DEF Slots
<1>8. \A p \in Place : Complete(p)
  <2>1. merged = FALSE
    BY Zenon DEF Init
  <2>2. \A p \in Place : Due(p) = {}
    BY Zenon, <1>3, <2>1 DEF Due
  <2> QED
    BY Zenon, <1>3, <2>2 DEF Complete, RanksOf
<1>9. Flights
  BY Zenon, <1>5 DEF Flights
<1>10. ASSUME NEW p \in Place PROVE Counters(p)
  <2>1. ZeroSet(p) = HBucket
    BY Zenon, <1>3 DEF ZeroSet
  <2>2. Cardinality(HBucket) = bucket_count /\ Cardinality({}) = 0
    BY Zenon DEF Counting
  <2>3. ASSUME NEW r \in Rank
        PROVE  rank_count[p][r] = Wrapped(Cardinality(Plus(p, r)), Cardinality(Minus(p, r)))
    <3>1. Minus(p, r) = {}
      BY Zenon, <1>5 DEF Minus
    <3>2. CASE r = 0
      <4>1. Plus(p, r) = HBucket
        BY Zenon, <1>3, <3>2 DEF Plus
      <4>2. Wrapped(bucket_count, 0) = bucket_count
        BY Constants DEF Wrapped
      <4> QED
        BY Zenon, <1>3, <2>2, <3>1, <3>2, <4>1, <4>2
    <3>3. CASE r # 0
      <4>1. Plus(p, r) = {}
        BY Zenon, <1>3, <1>5, <3>3 DEF Plus
      <4>2. Wrapped(0, 0) = 0
        BY DEF Wrapped
      <4> QED
        BY Zenon, <1>3, <2>2, <3>1, <3>3, <4>1, <4>2
    <3> QED
      BY Zenon, <3>2, <3>3
  <2> QED
    BY Zenon, <1>3, <2>1, <2>2, <2>3 DEF Counters
<1> QED
  BY Zenon, <1>4, <1>5, <1>6, <1>7, <1>8, <1>9, <1>10 DEF HInv

\* Between kernels everything that is due is there
LEMMA IdleFacts ==
    ASSUME HInv, Idle
    PROVE  /\ \A t \in GpuThread : todo[t] = <<>> /\ pc[t] = "max" /\ i[t] = 1
           /\ \A p \in Place : \A v \in Due(p) :
                 (is_large[p] \/ v \in Elements(p)) /\ rank_store[p][BucketOf[v]] >= RankOf[v]
<1>1. \A t \in GpuThread : todo[t] = <<>> /\ pc[t] = "max" /\ i[t] = 1
  <2>1. \A t \in GpuThread : Registers(t)
    BY Zenon DEF HInv
  <2> QED
    BY Zenon, <2>1 DEF Idle, Registers
<1>2. DOMAIN <<>> = {}
  OBVIOUS
<1>3. \A p, v : ~Awaited(p, v)
  BY Zenon, <1>1, <1>2 DEF Awaited
<1>4. \A p, b, r : ~Rises(p, b, r)
  BY Zenon, <1>1, <1>2 DEF Rises
<1>5. \A p \in Place : Complete(p)
  BY Zenon DEF HInv
<1> QED
  BY Zenon, <1>1, <1>3, <1>4, <1>5 DEF Complete

LEMMA Launch ==
    ASSUME HInv, Idle, pc' = pc, i' = i, counter' = counter, old_rank' = old_rank
    PROVE  /\ \A t \in GpuThread : Registers(t)' /\ pc'[t] = "max"
           /\ Flights' /\ \A p \in Place : Counters(p)'
<1>1. \A t \in GpuThread : pc'[t] = "max" /\ i'[t] = 1 /\ pc[t] = "max"
  BY Zenon, IdleFacts
<1>2. \A t \in GpuThread : ~Flight(t) /\ ~Flight(t)'
  BY Zenon, <1>1 DEF Flight
<1>3. Flights' /\ \A p \in Place : Counters(p)'
  BY Zenon, <1>2, QuietCounters
<1> QED
  BY Zenon, <1>1, <1>3 DEF Registers

\* More values: what was there is still a part of them
LEMMA MoreValues ==
    ASSUME Counting, HInv, NEW p \in Place, added[p] \subseteq added'[p], IsFiniteSet(added'[p])
    PROVE  /\ \A b : RanksOf(added[p], b) \subseteq RanksOf(added'[p], b)
           /\ Cardinality(added[p] \ {0}) > capacity => Cardinality(added'[p] \ {0}) > capacity
<1>1. \A b : RanksOf(added[p], b) \subseteq RanksOf(added'[p], b)
  BY Zenon DEF RanksOf
<1>2. added'[p] \ {0} \subseteq added'[p] /\ added[p] \ {0} \subseteq added'[p] \ {0}
  BY Zenon
<1>3. IsFiniteSet(added'[p] \ {0})
  BY Zenon, <1>2 DEF Counting
<1>4. IsFiniteSet(added[p] \ {0}) /\ Cardinality(added[p] \ {0}) <= Cardinality(added'[p] \ {0})
  BY Zenon, <1>2, <1>3 DEF Counting
<1>5. Cardinality(added[p] \ {0}) \in Nat /\ Cardinality(added'[p] \ {0}) \in Nat
  BY Zenon, <1>3, <1>4 DEF Counting
<1>6. Cardinality(added[p] \ {0}) > capacity => Cardinality(added'[p] \ {0}) > capacity
  BY <1>4, <1>5, Constants
<1> QED
  BY Zenon, <1>1, <1>6

LEMMA InsertFacts ==
    ASSUME NEW p \in Place, NEW v \in Value
    PROVE  /\ Insert(p, v) \in TaskType /\ Insert(p, v).place = p /\ Insert(p, v).value = v
           /\ Insert(p, v).small /\ Insert(p, v).bucket = BucketOf[v] /\ Insert(p, v).rank = RankOf[v]
           /\ RankOf[v] >= RankOf[v]
<1>1. BucketOf[v] \in HBucket /\ RankOf[v] \in Rank /\ RankOf[v] \in Nat
  BY Zenon, Sets
<1>2. RankOf[v] >= RankOf[v]
  BY <1>1
<1> QED
  BY Zenon, <1>1, <1>2 DEF Insert, TaskType

LEMMA InsertOK ==
    ASSUME NEW p \in Place, NEW v \in Value, v \in added'[p], merged' => p = 0
    PROVE  TaskOK(Insert(p, v))'
<1> DEFINE k == Insert(p, v)
<1>1. k.place = p /\ k.value = v /\ k.small /\ k.bucket = BucketOf[v] /\ k.rank = RankOf[v]
  BY InsertFacts
<1>2. RankOf[v] \in RanksOf(added'[p], BucketOf[v])
  BY Zenon DEF RanksOf
<1> HIDE DEF k
<1>3. /\ merged' => k.place = 0
      /\ k.rank \in RanksOf(added'[k.place], k.bucket)
      /\ k.small => k.value \in added'[k.place] /\ k.bucket = BucketOf[k.value] /\ k.rank = RankOf[k.value]
  BY Zenon, <1>1, <1>2
<1>4. TaskOK(k)'
  BY Zenon, <1>3 DEF TaskOK, RanksOf
<1> QED
  BY Zenon, <1>4 DEF k

\* What a task at the head of a list, or further down, stands for
LEMMA InsertWaits ==
    ASSUME NEW t \in GpuThread, NEW n \in DOMAIN todo'[t], NEW p \in Place, NEW v \in Value,
           todo'[t][n] = Insert(p, v), pc'[t] = "max"
    PROVE  Awaited(p, v)' /\ Rises(p, BucketOf[v], RankOf[v])'
<1>1. /\ todo'[t][n].place = p /\ todo'[t][n].value = v /\ todo'[t][n].small
      /\ todo'[t][n].bucket = BucketOf[v] /\ todo'[t][n].rank >= RankOf[v]
  BY InsertFacts
<1>2. Awaited(p, v)'
  BY Zenon, <1>1 DEF Awaited
<1>3. Rises(p, BucketOf[v], RankOf[v])'
  BY Zenon, <1>1 DEF Rises
<1> QED
  BY Zenon, <1>2, <1>3

LEMMA AddBulkStep ==
    ASSUME Counting, HInv, NEW rows \in Batches, kerCudaAddBulk(rows)
    PROVE  HInv'
<1>1. /\ Idle /\ ~merged /\ merged' = merged /\ set' = set /\ counter' = counter /\ pc' = pc /\ i' = i /\ old_rank' = old_rank
      /\ todo' = [t \in GpuThread |-> IF t \in DOMAIN rows THEN <<Insert(rows[t].place, rows[t].value)>> ELSE <<>>]
      /\ added' = [p \in Place |-> added[p] \cup {rows[t].value : t \in {u \in DOMAIN rows : rows[u].place = p}}]
  BY Zenon DEF kerCudaAddBulk
<1>2. Types /\ TypeOK /\ merged \in BOOLEAN
  BY Zenon DEF HInv, Types
<1>3. DOMAIN rows \subseteq GpuThread /\ \A t \in DOMAIN rows : rows[t].place \in Place /\ rows[t].value \in Value
  <2>1. rows \in Seq([place : Place, value : Value]) /\ Len(rows) \in 1..MaxRows
    BY Zenon, UniqConstants
  <2>2. DOMAIN rows = 1..Len(rows) /\ \A t \in DOMAIN rows : rows[t] \in [place : Place, value : Value]
    <3>1. \A S : \A s \in Seq(S) : DOMAIN s = 1..Len(s) /\ \A n \in DOMAIN s : s[n] \in S
      OBVIOUS
    <3> QED
      BY Zenon, <2>1, <3>1
  <2>3. 1..Len(rows) \subseteq GpuThread
    BY <2>1, Constants DEF GpuThread
  <2> QED
    BY Zenon, <2>2, <2>3
<1>4. buf' = buf /\ is_large' = is_large /\ has_zero_elem' = has_zero_elem /\ rank_store' = rank_store
        /\ zeros' = zeros /\ rank_count' = rank_count
  BY Zenon, <1>1 DEF set, counter
<1>5. ASSUME NEW t \in DOMAIN rows
      PROVE  /\ t \in GpuThread /\ DOMAIN todo'[t] = {1} /\ todo'[t][1] = Insert(rows[t].place, rows[t].value)
             /\ todo'[t] \in Seq(TaskType)
             /\ rows[t].value \in added'[rows[t].place]
  <2>1. t \in GpuThread /\ todo'[t] = <<Insert(rows[t].place, rows[t].value)>>
    BY Zenon, <1>1, <1>3
  <2>2. Insert(rows[t].place, rows[t].value) \in TaskType
    BY Zenon, <1>3, InsertFacts
  <2>3. rows[t].value \in added'[rows[t].place]
    BY Zenon, <1>1, <1>3
  <2>4. \A x \in TaskType : DOMAIN <<x>> = {1} /\ <<x>>[1] = x /\ <<x>> \in Seq(TaskType)
    OBVIOUS
  <2> QED
    BY Zenon, <2>1, <2>2, <2>3, <2>4
<1>6. \A t \in GpuThread : t \notin DOMAIN rows => todo'[t] = <<>> /\ DOMAIN todo'[t] = {}
  <2>1. DOMAIN <<>> = {}
    OBVIOUS
  <2> QED
    BY Zenon, <1>1, <2>1
<1>7. ASSUME NEW p \in Place PROVE added[p] \subseteq added'[p] /\ added'[p] \subseteq Value /\ IsFiniteSet(added'[p])
  <2> DEFINE U == {u \in DOMAIN rows : rows[u].place = p}
             f == [t \in DOMAIN rows |-> rows[t].value]
             New == {rows[t].value : t \in U}
  <2>1. added'[p] = added[p] \cup New
    BY Zenon, <1>1
  <2>2. New = {f[t] : t \in U} /\ U \in SUBSET GpuThread /\ New \subseteq Value
    BY Zenon, <1>3
  <2> HIDE DEF f, U, New
  <2>3. IsFiniteSet(New)
    <3>1. \A g : \A V \in SUBSET GpuThread : IsFiniteSet({g[t] : t \in V})
      BY Zenon DEF Counting
    <3>2. IsFiniteSet({f[t] : t \in U})
      BY Zenon, <2>2, <3>1
    <3> QED
      BY Zenon, <2>2, <3>2
  <2>4. IsFiniteSet(added[p]) /\ added[p] \subseteq Value
    BY Zenon, <1>2 DEF Types
  <2>5. IsFiniteSet(added[p] \cup New)
    BY Zenon, <2>3, <2>4 DEF Counting
  <2> QED
    BY Zenon, <2>1, <2>2, <2>4, <2>5
<1>8. Types'
  <2>1. TypeOK'
    BY Zenon, <1>1, <1>2, <1>4 DEF TypeOK
  <2>2. todo' \in [GpuThread -> Seq(TaskType)]
    <3>1. <<>> \in Seq(TaskType)
      OBVIOUS
    <3>2. \A t \in GpuThread : todo'[t] \in Seq(TaskType)
      BY Zenon, <1>5, <1>6, <3>1
    <3>3. todo' = [t \in GpuThread |-> todo'[t]]
      BY Zenon, <1>1
    <3> QED
      BY Zenon, <3>2, <3>3
  <2>3. added' \in [Place -> SUBSET Value]
    <3>1. added' = [p \in Place |-> added'[p]]
      BY Zenon, <1>1
    <3> QED
      BY Zenon, <1>7, <3>1
  <2> QED
    BY Zenon, <1>1, <1>2, <1>7, <2>1, <2>2, <2>3 DEF Types
<1>9. /\ \A t \in GpuThread : Registers(t)' /\ pc'[t] = "max"
      /\ Flights' /\ \A p \in Place : Counters(p)'
  BY Zenon, <1>1, Launch
<1>10. Tasks'
  <2>1. ASSUME NEW t \in GpuThread, NEW n \in DOMAIN todo'[t] PROVE TaskOK(todo[t][n])'
    <3>1. t \in DOMAIN rows
      BY Zenon, <1>6, <2>1
    <3>2. n = 1 /\ todo'[t][n] = Insert(rows[t].place, rows[t].value)
      BY Zenon, <1>5, <2>1, <3>1
    <3> DEFINE p == rows[t].place
               v == rows[t].value
    <3>3. p \in Place /\ v \in Value /\ v \in added'[p] /\ ~merged'
      BY Zenon, <1>1, <1>3, <1>5, <3>1
    <3> HIDE DEF p, v
    <3>4. TaskOK(Insert(p, v))'
      BY Zenon, <3>3, InsertOK
    <3>5. todo'[t][n] = Insert(p, v)
      BY Zenon, <3>2 DEF p, v
    <3> QED
      BY Zenon, <3>4, <3>5 DEF TaskOK
  <2> QED
    BY Zenon, <2>1 DEF Tasks
<1>11. ASSUME NEW p \in Place PROVE Slots(p)'
  <2>1. Slots(p)
    BY Zenon DEF HInv
  <2>2. Cardinality(added[p] \ {0}) > capacity => Cardinality(added'[p] \ {0}) > capacity
    BY Zenon, <1>7, MoreValues
  <2> QED
    BY Zenon, <1>4, <1>7, <2>1, <2>2 DEF Slots
<1>12. ASSUME NEW p \in Place PROVE Complete(p)'
  <2>1. Due(p)' = added'[p] /\ Due(p) = added[p]
    BY Zenon, <1>1 DEF Due
  <2>2. Elements(p)' = Elements(p)
    BY Zenon, <1>4 DEF Elements, Used
  <2>3. ASSUME NEW v \in added'[p]
        PROVE  /\ is_large'[p] \/ v \in Elements(p)' \/ Awaited(p, v)'
               /\ rank_store'[p][BucketOf[v]] >= RankOf[v] \/ Rises(p, BucketOf[v], RankOf[v])'
    <3>1. CASE v \in added[p]
      BY Zenon, <1>1, <1>4, <2>1, <2>2, <3>1, IdleFacts
    <3>2. CASE v \notin added[p]
      <4>1. PICK t \in DOMAIN rows : rows[t].place = p /\ rows[t].value = v
        BY Zenon, <1>1, <3>2
      <4>2. t \in GpuThread /\ 1 \in DOMAIN todo'[t] /\ todo'[t][1] = Insert(p, v) /\ v \in Value /\ pc'[t] = "max"
        BY Zenon, <1>3, <1>5, <1>9, <4>1
      <4> QED
        BY Zenon, <4>2, InsertWaits
    <3> QED
      BY Zenon, <3>1, <3>2
  <2>4. ASSUME NEW b \in HBucket PROVE rank_store'[p][b] \in RanksOf(added'[p], b)
    <3>1. rank_store[p][b] \in RanksOf(added[p], b)
      BY Zenon DEF HInv, Complete
    <3>2. RanksOf(added[p], b) \subseteq RanksOf(added'[p], b)
      BY Zenon, <1>7, MoreValues
    <3> QED
      BY Zenon, <1>4, <3>1, <3>2
  <2> QED
    BY Zenon, <2>1, <2>3, <2>4 DEF Complete, RanksOf
<1> QED
  BY Zenon, <1>8, <1>9, <1>10, <1>11, <1>12 DEF HInv

\* The tasks of a merge: the rank of every bucket, or the first slot and the zero element
LEMMA LargeTasks ==
    ASSUME Types, is_large[1]
    PROVE  /\ MergeTasks(1, 0) \in Seq(TaskType)
           /\ \A n \in DOMAIN MergeTasks(1, 0) : \E b \in HBucket : MergeTasks(1, 0)[n] = Update(0, b, rank_store[1][b])
           /\ \A b \in HBucket : \E n \in DOMAIN MergeTasks(1, 0) : MergeTasks(1, 0)[n] = Update(0, b, rank_store[1][b])
<1> DEFINE m == [b \in 1..bucket_count |-> Update(0, b - 1, rank_store[1][b - 1])]
<1>1. MergeTasks(1, 0) = m
  BY Zenon DEF MergeTasks
<1>2. \A b \in HBucket : Update(0, b, rank_store[1][b]) \in TaskType
  <2>1. \A b \in HBucket : rank_store[1][b] \in Rank
    BY Zenon, Sets DEF Types, TypeOK
  <2> QED
    BY Zenon, <2>1, Sets, Constants DEF Update, TaskType
<1>3. /\ \A n \in 1..bucket_count : n - 1 \in HBucket
      /\ \A b \in HBucket : b + 1 \in 1..bucket_count /\ b + 1 - 1 = b
  BY Constants DEF HBucket
<1>4. DOMAIN m = 1..bucket_count /\ \A n \in 1..bucket_count : m[n] = Update(0, n - 1, rank_store[1][n - 1])
  BY Zenon
<1>5. \A n \in 1..bucket_count : m[n] \in TaskType
  BY Zenon, <1>2, <1>3, <1>4
<1>6. m = [n \in 1..bucket_count |-> m[n]]
  BY Zenon
<1> HIDE DEF m
<1>7. m \in Seq(TaskType)
  <2>1. m \in [1..bucket_count -> TaskType]
    BY Zenon, <1>5, <1>6
  <2>2. \A n \in Nat : \A f \in [1..n -> TaskType] : f \in Seq(TaskType)
    OBVIOUS
  <2> QED
    BY Zenon, <2>1, <2>2, Constants
<1>8. ASSUME NEW b \in HBucket PROVE b + 1 \in DOMAIN m /\ m[b + 1] = Update(0, b, rank_store[1][b])
  <2>1. b + 1 \in 1..bucket_count /\ b + 1 - 1 = b
    BY Zenon, <1>3
  <2>2. PICK n \in 1..bucket_count : n = b + 1
    BY Zenon, <2>1
  <2>3. n - 1 = b
    BY <2>2, Constants DEF HBucket
  <2>4. m[n] = Update(0, n - 1, rank_store[1][n - 1]) /\ n \in DOMAIN m
    BY Zenon, <1>4
  <2> QED
    BY Zenon, <2>2, <2>3, <2>4
<1> QED
  BY Zenon, <1>1, <1>3, <1>4, <1>7, <1>8

LEMMA SmallTasks ==
    ASSUME Types, Slots(1), ~is_large[1]
    PROVE  /\ MergeTasks(1, 0) \in Seq(TaskType)
           /\ \A n \in DOMAIN MergeTasks(1, 0) :
                 \/ buf[1][1] # 0 /\ MergeTasks(1, 0)[n] = Insert(0, buf[1][1])
                 \/ has_zero_elem[1] /\ MergeTasks(1, 0)[n] = Insert(0, 0)
           /\ buf[1][1] # 0 => \E n \in DOMAIN MergeTasks(1, 0) : MergeTasks(1, 0)[n] = Insert(0, buf[1][1])
           /\ has_zero_elem[1] => \E n \in DOMAIN MergeTasks(1, 0) : MergeTasks(1, 0)[n] = Insert(0, 0)
<1> DEFINE x == Insert(0, buf[1][1])
           z == Insert(0, 0)
           first == [s \in 1..sizeWithoutZeroElem(1) |-> Insert(0, buf[1][s])]
           last == IF has_zero_elem[1] THEN <<z>> ELSE <<>>
<1>1. MergeTasks(1, 0) = first \o last
  BY DEF MergeTasks
<1>2. buf[1][1] \in Value /\ 0 \in Value
  <2>1. buf \in [Place -> [Slot -> Value]]
    BY Zenon DEF Types, TypeOK
  <2>2. 1 \in Place /\ 1 \in Slot /\ 0 \in Value
    BY Zenon, Sets, Constants
  <2> QED
    BY Zenon, <2>1, <2>2
<1>3. x \in TaskType /\ z \in TaskType
  BY Zenon, <1>2, Sets, InsertFacts
<1>4. Used(1) = {} <=> buf[1][1] = 0
  <2>1. \A s \in Slot : s = 1 \/ 1 < s
    BY DEF Slot
  <2> QED
    BY Zenon, <2>1, Sets DEF Used, Slots
<1>5. first = IF buf[1][1] = 0 THEN <<>> ELSE <<x>>
  <2>1. CASE buf[1][1] = 0
    <3>1. sizeWithoutZeroElem(1) = 0
      BY Zenon, <1>4, <2>1 DEF sizeWithoutZeroElem
    <3>2. first = <<>>
      BY <3>1
    <3> QED
      BY Zenon, <2>1, <3>2
  <2>2. CASE buf[1][1] # 0
    <3>1. sizeWithoutZeroElem(1) = 1
      BY Zenon, <1>4, <2>2 DEF sizeWithoutZeroElem
    <3>2. 1..1 = {1}
      OBVIOUS
    <3>3. DOMAIN first = {1} /\ first[1] = x /\ first = [s \in {1} |-> first[s]]
      BY Zenon, <3>1, <3>2
    <3> HIDE DEF first, x
    <3>4. first = <<x>>
      BY <3>3
    <3> QED
      BY Zenon, <2>2, <3>4
  <2> QED
    BY Zenon, <2>1, <2>2
<1> HIDE DEF x, z, first
<1>6. CASE buf[1][1] = 0 /\ ~has_zero_elem[1]
  <2>1. MergeTasks(1, 0) = <<>> \o <<>>
    BY Zenon, <1>1, <1>5, <1>6
  <2>2. <<>> \o <<>> = <<>> /\ <<>> \in Seq(TaskType) /\ DOMAIN <<>> = {}
    OBVIOUS
  <2> QED
    BY Zenon, <1>6, <2>1, <2>2
<1>7. CASE buf[1][1] # 0 /\ ~has_zero_elem[1]
  <2>1. MergeTasks(1, 0) = <<x>> \o <<>>
    BY Zenon, <1>1, <1>5, <1>7
  <2>2. <<x>> \o <<>> = <<x>> /\ <<x>> \in Seq(TaskType) /\ DOMAIN <<x>> = {1} /\ <<x>>[1] = x
    BY <1>3
  <2> QED
    BY Zenon, <1>7, <2>1, <2>2 DEF x
<1>8. CASE buf[1][1] = 0 /\ has_zero_elem[1]
  <2>1. MergeTasks(1, 0) = <<>> \o <<z>>
    BY Zenon, <1>1, <1>5, <1>8
  <2>2. <<>> \o <<z>> = <<z>> /\ <<z>> \in Seq(TaskType) /\ DOMAIN <<z>> = {1} /\ <<z>>[1] = z
    BY <1>3
  <2> QED
    BY Zenon, <1>8, <2>1, <2>2 DEF z
<1>9. CASE buf[1][1] # 0 /\ has_zero_elem[1]
  <2>1. MergeTasks(1, 0) = <<x>> \o <<z>>
    BY Zenon, <1>1, <1>5, <1>9
  <2>2. /\ <<x>> \o <<z>> \in Seq(TaskType) /\ Len(<<x>> \o <<z>>) = 2
        /\ (<<x>> \o <<z>>)[1] = x /\ (<<x>> \o <<z>>)[2] = z
    BY <1>3
  <2>3. MergeTasks(1, 0) \in Seq(TaskType) /\ Len(MergeTasks(1, 0)) = 2 /\ MergeTasks(1, 0)[1] = x /\ MergeTasks(1, 0)[2] = z
    BY Zenon, <2>1, <2>2
  <2>4. DOMAIN MergeTasks(1, 0) = {1, 2}
    <3>1. \A s \in Seq(TaskType) : Len(s) = 2 => DOMAIN s = {1, 2}
      OBVIOUS
    <3> QED
      BY Zenon, <2>3, <3>1
  <2> QED
    BY Zenon, <1>9, <2>3, <2>4 DEF x, z
<1> QED
  BY Zenon, <1>6, <1>7, <1>8, <1>9

LEMMA MergeBulkStep ==
    ASSUME Counting, HInv, kerCudaMergeBulk
    PROVE  HInv'
<1> DEFINE m == MergeTasks(1, 0)
<1>1. /\ Idle /\ ~merged /\ merged' = TRUE /\ counter' = counter /\ pc' = pc /\ i' = i /\ old_rank' = old_rank
      /\ has_zero_elem' = has_zero_elem /\ buf' = buf
      /\ is_large' = [is_large EXCEPT ![0] = is_large[0] \/ is_large[1]]
      /\ todo' = [todo EXCEPT ![1] = m]
      /\ added' = [added EXCEPT ![0] = added[0] \cup added[1]]
  BY Zenon DEF kerCudaMergeBulk
<1>2. Types /\ TypeOK /\ Slots(0) /\ Slots(1) /\ Complete(0) /\ Complete(1)
  BY Zenon, Sets DEF HInv, Types
<1>3. rank_store' = rank_store /\ zeros' = zeros /\ rank_count' = rank_count
  BY Zenon, <1>1 DEF counter
<1>4. m \in Seq(TaskType)
  BY Zenon, <1>2, LargeTasks, SmallTasks
<1> HIDE DEF m
<1>5. /\ is_large' \in [Place -> BOOLEAN] /\ is_large'[1] = is_large[1] /\ is_large'[0] = (is_large[0] \/ is_large[1])
      /\ added' \in [Place -> SUBSET Value] /\ added'[1] = added[1] /\ added'[0] = added[0] \cup added[1]
      /\ todo' \in [GpuThread -> Seq(TaskType)] /\ todo'[1] = m /\ \A t \in GpuThread : t # 1 => todo'[t] = <<>>
  <2>0. 0 \in Place /\ 1 \in Place /\ 0 # 1 /\ 1 \in GpuThread
    BY Zenon, Sets
  <2>1. is_large' \in [Place -> BOOLEAN] /\ is_large'[1] = is_large[1] /\ is_large'[0] = (is_large[0] \/ is_large[1])
    <3>1. is_large \in [Place -> BOOLEAN]
      BY Zenon, <1>2 DEF TypeOK
    <3> QED
      BY Zenon, <1>1, <2>0, <3>1
  <2>2. added' \in [Place -> SUBSET Value] /\ added'[1] = added[1] /\ added'[0] = added[0] \cup added[1]
    <3>1. added \in [Place -> SUBSET Value]
      BY Zenon, <1>2 DEF Types
    <3>2. added[0] \cup added[1] \in SUBSET Value
      BY Zenon, <2>0, <3>1
    <3> QED
      BY Zenon, <1>1, <2>0, <3>1, <3>2
  <2>3. todo' \in [GpuThread -> Seq(TaskType)] /\ todo'[1] = m /\ \A t \in GpuThread : t # 1 => todo'[t] = <<>>
    <3>1. todo \in [GpuThread -> Seq(TaskType)] /\ \A t \in GpuThread : todo[t] = <<>>
      BY Zenon, <1>1, <1>2 DEF Types, Idle
    <3> QED
      BY Zenon, <1>1, <1>4, <2>0, <3>1
  <2> QED
    BY Zenon, <2>1, <2>2, <2>3
<1>6. \A p \in Place : p = 0 \/ p = 1
  BY Zenon DEF Place
<1>7. /\ \A p \in Place : added[p] \subseteq added'[p] /\ IsFiniteSet(added'[p])
      /\ added[1] \subseteq added'[0]
  <2>1. IsFiniteSet(added[0]) /\ IsFiniteSet(added[1])
    BY Zenon, <1>2, Sets DEF Types
  <2>2. IsFiniteSet(added[0] \cup added[1])
    BY Zenon, <2>1 DEF Counting
  <2>3. added[0] \subseteq added'[0] /\ added[1] \subseteq added'[0] /\ added[1] \subseteq added'[1]
          /\ IsFiniteSet(added'[0]) /\ IsFiniteSet(added'[1])
    BY Zenon, <1>5, <2>1, <2>2
  <2> QED
    BY Zenon, <1>6, <2>3
<1>8. Types'
  <2>1. TypeOK'
    BY Zenon, <1>1, <1>2, <1>3, <1>5 DEF TypeOK
  <2>2. merged' \in BOOLEAN
    BY Zenon, <1>1
  <2> QED
    BY Zenon, <1>5, <1>7, <2>1, <2>2 DEF Types
<1>9. /\ \A t \in GpuThread : Registers(t)' /\ pc'[t] = "max"
      /\ Flights' /\ \A p \in Place : Counters(p)'
  BY Zenon, <1>1, Launch
<1>10. \A s \in Slot : buf[1][s] # 0 => buf[1][s] \in added[1]
  BY Zenon, <1>2 DEF Slots
<1>11. ~is_large[1] =>
         /\ \A n \in DOMAIN m : \/ buf[1][1] # 0 /\ m[n] = Insert(0, buf[1][1])
                                \/ has_zero_elem[1] /\ m[n] = Insert(0, 0)
         /\ buf[1][1] # 0 => \E n \in DOMAIN m : m[n] = Insert(0, buf[1][1])
         /\ has_zero_elem[1] => \E n \in DOMAIN m : m[n] = Insert(0, 0)
  BY Zenon, <1>2, SmallTasks DEF m
<1>12. is_large[1] =>
         /\ \A n \in DOMAIN m : \E b \in HBucket : m[n] = Update(0, b, rank_store[1][b])
         /\ \A b \in HBucket : \E n \in DOMAIN m : m[n] = Update(0, b, rank_store[1][b])
  BY Zenon, <1>2, LargeTasks DEF m
<1>13. \A v \in added'[0] : v \in Value
  BY Zenon, <1>5, Sets
<1>14. ASSUME NEW n \in DOMAIN m
       PROVE  /\ m[n].place = 0 /\ m[n].rank \in RanksOf(added'[0], m[n].bucket)
              /\ m[n].small => /\ m[n].value \in added'[0] /\ m[n].bucket = BucketOf[m[n].value]
                              /\ m[n].rank = RankOf[m[n].value]
  <2>1. CASE is_large[1]
    <3>1. PICK b \in HBucket : m[n] = Update(0, b, rank_store[1][b])
      BY Zenon, <1>12, <2>1
    <3>2. m[n].place = 0 /\ m[n].bucket = b /\ m[n].rank = rank_store[1][b] /\ m[n].small = FALSE
      BY <3>1 DEF Update
    <3>3. rank_store[1][b] \in RanksOf(added[1], b)
      BY Zenon, <1>2 DEF Complete
    <3>4. rank_store[1][b] \in RanksOf(added'[0], b)
      BY Zenon, <1>7, <3>3 DEF RanksOf
    <3> QED
      BY Zenon, <3>2, <3>4
  <2>2. CASE ~is_large[1]
    <3>1. buf[1][1] # 0 => buf[1][1] \in added'[0] /\ buf[1][1] \in Value
      BY Zenon, <1>7, <1>10, <1>13, Sets
    <3>2. has_zero_elem[1] => 0 \in added'[0] /\ 0 \in Value
      BY Zenon, <1>2, <1>7, Constants DEF Slots
    <3>3. \E v \in Value : v \in added'[0] /\ m[n] = Insert(0, v)
      BY Zenon, <1>11, <2>2, <3>1, <3>2
    <3>4. PICK v \in Value : v \in added'[0] /\ m[n] = Insert(0, v)
      BY Zenon, <3>3
    <3>5. m[n].place = 0 /\ m[n].bucket = BucketOf[v] /\ m[n].rank = RankOf[v] /\ m[n].value = v
      BY <3>4, Sets, InsertFacts
    <3>6. RankOf[v] \in RanksOf(added'[0], BucketOf[v])
      BY Zenon, <3>4 DEF RanksOf
    <3> QED
      BY Zenon, <3>4, <3>5, <3>6
  <2> QED
    BY Zenon, <2>1, <2>2
<1>15. Tasks'
  <2>0. DOMAIN <<>> = {}
    OBVIOUS
  <2>1. ASSUME NEW t \in GpuThread, NEW n \in DOMAIN todo'[t] PROVE TaskOK(todo[t][n])'
    <3>1. t = 1
      BY Zenon, <1>5, <2>0, <2>1
    <3>2. n \in DOMAIN m /\ todo'[t][n] = m[n]
      BY Zenon, <1>5, <2>1, <3>1
    <3>3. /\ todo'[t][n].place = 0 /\ todo'[t][n].rank \in RanksOf(added'[0], todo'[t][n].bucket)
          /\ todo'[t][n].small => /\ todo'[t][n].value \in added'[0] /\ todo'[t][n].bucket = BucketOf[todo'[t][n].value]
                                  /\ todo'[t][n].rank = RankOf[todo'[t][n].value]
      BY Zenon, <1>14, <3>2
    <3>4. todo'[t][n].rank \in RanksOf(added'[todo'[t][n].place], todo'[t][n].bucket)
      BY Zenon, <3>3
    <3> QED
      BY Zenon, <3>3, <3>4 DEF TaskOK, RanksOf
  <2> QED
    BY Zenon, <2>1 DEF Tasks
<1>16. ASSUME NEW p \in Place PROVE Slots(p)'
  <2>1. Slots(p) /\ added[p] \subseteq added'[p] /\ IsFiniteSet(added'[p])
    BY Zenon, <1>7 DEF HInv
  <2>2. Cardinality(added[p] \ {0}) > capacity => Cardinality(added'[p] \ {0}) > capacity
    BY Zenon, <2>1, MoreValues
  <2>3. ASSUME is_large'[p] PROVE Cardinality(added'[p] \ {0}) > capacity
    <3>1. CASE is_large[p]
      BY Zenon, <2>1, <2>2, <3>1 DEF Slots
    <3>2. CASE p = 0 /\ is_large[1]
      <4>1. Cardinality(added[1] \ {0}) > capacity
        BY Zenon, <1>2, <3>2 DEF Slots
      <4>2. IsFiniteSet(added'[0]) /\ added'[0] \ {0} \subseteq added'[0] /\ added[1] \ {0} \subseteq added'[0] \ {0}
        BY Zenon, <1>7, Sets
      <4>3. IsFiniteSet(added'[0] \ {0})
        BY Zenon, <4>2 DEF Counting
      <4>4. IsFiniteSet(added[1] \ {0}) /\ Cardinality(added[1] \ {0}) <= Cardinality(added'[0] \ {0})
        BY Zenon, <4>2, <4>3 DEF Counting
      <4>5. Cardinality(added[1] \ {0}) \in Nat /\ Cardinality(added'[0] \ {0}) \in Nat
        BY Zenon, <4>3, <4>4 DEF Counting
      <4>6. Cardinality(added'[0] \ {0}) > capacity
        BY <4>1, <4>4, <4>5, Constants
      <4> QED
        BY Zenon, <3>2, <4>6
    <3>3. is_large[p] \/ (p = 0 /\ is_large[1])
      BY Zenon, <1>5, <1>6, <2>3
    <3> QED
      BY Zenon, <3>1, <3>2, <3>3
  <2> QED
    BY Zenon, <1>1, <2>1, <2>3 DEF Slots
<1>17. ASSUME NEW p \in Place PROVE Elements(p)' = Elements(p)
  BY Zenon, <1>1 DEF Elements, Used
<1>18. Due(0) = added[0] /\ Due(1) = added[1] /\ Due(1)' = added[1] /\ Due(0)' = added'[0] \ LaterSlots
  <2>1. LaterSlots' = LaterSlots
    <3>1. is_large'[1] = is_large[1] /\ buf' = buf
      BY Zenon, <1>1, <1>5
    <3>2. Used(1)' = Used(1)
      BY Zenon, <3>1 DEF Used
    <3>3. CASE is_large[1]
      BY Zenon, <3>1, <3>3 DEF LaterSlots
    <3>4. CASE ~is_large[1]
      BY Zenon, <3>1, <3>2, <3>4 DEF LaterSlots
    <3> QED
      BY Zenon, <3>3, <3>4
  <2> QED
    BY Zenon, <1>1, <1>5, <2>1, Sets DEF Due
<1>19. ASSUME NEW p \in Place, NEW b \in HBucket PROVE rank_store'[p][b] \in RanksOf(added'[p], b)
  <2>1. rank_store[p][b] \in RanksOf(added[p], b)
    BY Zenon DEF HInv, Complete
  <2>2. RanksOf(added[p], b) \subseteq RanksOf(added'[p], b)
    BY Zenon, <1>7, MoreValues
  <2> QED
    BY Zenon, <1>3, <2>1, <2>2
<1>20. ASSUME NEW v \in added[1], v \notin LaterSlots
       PROVE  (is_large'[0] \/ Awaited(0, v)') /\ Rises(0, BucketOf[v], RankOf[v])'
  <2>0. /\ is_large[1] \/ v \in Elements(1)
        /\ rank_store[1][BucketOf[v]] >= RankOf[v]
        /\ v \in Value /\ BucketOf[v] \in HBucket /\ 1 \in GpuThread /\ pc'[1] = "max" /\ 0 \in Place
    <3>1. v \in Due(1) /\ 1 \in Place /\ v \in Value
      BY Zenon, <1>7, <1>13, <1>18, Sets
    <3>2. (is_large[1] \/ v \in Elements(1)) /\ rank_store[1][BucketOf[v]] >= RankOf[v]
      BY Zenon, <1>1, <3>1, IdleFacts
    <3> QED
      BY Zenon, <1>9, <3>1, <3>2, Sets
  <2>1. CASE is_large[1]
    <3>1. PICK n \in DOMAIN m : m[n] = Update(0, BucketOf[v], rank_store[1][BucketOf[v]])
      BY Zenon, <1>12, <2>0, <2>1
    <3>2. m[n].place = 0 /\ m[n].bucket = BucketOf[v] /\ m[n].rank >= RankOf[v]
      <4>1. m[n].place = 0 /\ m[n].bucket = BucketOf[v] /\ m[n].rank = rank_store[1][BucketOf[v]]
        BY <3>1 DEF Update
      <4> QED
        BY Zenon, <2>0, <4>1
    <3>3. n \in DOMAIN todo'[1] /\ todo'[1][n].place = 0 /\ todo'[1][n].bucket = BucketOf[v] /\ todo'[1][n].rank >= RankOf[v]
      BY Zenon, <1>5, <3>2
    <3>4. Rises(0, BucketOf[v], RankOf[v])'
      BY Zenon, <2>0, <3>3 DEF Rises
    <3>5. is_large'[0]
      BY Zenon, <1>5, <2>1
    <3> QED
      BY Zenon, <3>4, <3>5
  <2>2. CASE ~is_large[1]
    <3>1. \E n \in DOMAIN m : m[n] = Insert(0, v)
      <4>1. (\E s \in Slot : buf[1][s] # 0 /\ v = buf[1][s]) \/ (has_zero_elem[1] /\ v = 0)
        BY Zenon, <2>0, <2>2, ElementsFacts
      <4>2. CASE has_zero_elem[1] /\ v = 0
        BY Zenon, <1>11, <2>2, <4>2
      <4>3. CASE \E s \in Slot : buf[1][s] # 0 /\ v = buf[1][s]
        <5>1. PICK s \in Slot : buf[1][s] # 0 /\ v = buf[1][s]
          BY Zenon, <4>3
        <5>2. LaterSlots = {buf[1][r] : r \in Used(1) \ {1}}
          BY Zenon, <2>2 DEF LaterSlots
        <5>3. s \in Used(1)
          BY Zenon, <5>1 DEF Used
        <5>4. s = 1
          BY Zenon, <1>20, <5>1, <5>2, <5>3
        <5> QED
          BY Zenon, <1>11, <2>2, <5>1, <5>4
      <4> QED
        BY Zenon, <4>1, <4>2, <4>3
    <3>2. PICK n \in DOMAIN todo'[1] : todo'[1][n] = Insert(0, v)
      BY Zenon, <1>5, <3>1
    <3> QED
      BY Zenon, <2>0, <3>2, InsertWaits
  <2> QED
    BY Zenon, <2>1, <2>2
<1>21. Complete(0)'
  <2>1. ASSUME NEW v \in added'[0] \ LaterSlots
        PROVE  /\ is_large'[0] \/ v \in Elements(0)' \/ Awaited(0, v)'
               /\ rank_store'[0][BucketOf[v]] >= RankOf[v] \/ Rises(0, BucketOf[v], RankOf[v])'
    <3>1. CASE v \in added[0]
      <4>1. (is_large[0] \/ v \in Elements(0)) /\ rank_store[0][BucketOf[v]] >= RankOf[v]
        BY Zenon, <1>1, <1>18, <3>1, Sets, IdleFacts
      <4>2. Elements(0)' = Elements(0) /\ (is_large[0] => is_large'[0])
        BY Zenon, <1>5, <1>17, Sets
      <4> QED
        BY Zenon, <1>3, <4>1, <4>2
    <3>2. CASE v \in added[1]
      BY Zenon, <1>20, <2>1, <3>2
    <3>3. v \in added[0] \/ v \in added[1]
      BY Zenon, <1>5, <2>1
    <3> QED
      BY Zenon, <3>1, <3>2, <3>3
  <2>2. \A b \in HBucket : rank_store'[0][b] \in RanksOf(added'[0], b)
    BY Zenon, <1>19, Sets
  <2> QED
    BY Zenon, <1>18, <2>1, <2>2 DEF Complete, RanksOf
<1>22. Complete(1)'
  <2>1. ASSUME NEW v \in added[1]
        PROVE  /\ is_large'[1] \/ v \in Elements(1)'
               /\ rank_store'[1][BucketOf[v]] >= RankOf[v]
    <3>1. (is_large[1] \/ v \in Elements(1)) /\ rank_store[1][BucketOf[v]] >= RankOf[v]
      BY Zenon, <1>1, <1>18, Sets, IdleFacts
    <3>2. Elements(1)' = Elements(1) /\ (is_large[1] => is_large'[1])
      BY Zenon, <1>5, <1>17, Sets
    <3> QED
      BY Zenon, <1>3, <3>1, <3>2
  <2>2. \A b \in HBucket : rank_store'[1][b] \in RanksOf(added'[1], b)
    BY Zenon, <1>19, Sets
  <2> QED
    BY Zenon, <1>18, <2>1, <2>2 DEF Complete, RanksOf
<1>23. \A p \in Place : Complete(p)'
  <2>1. ASSUME NEW p \in Place PROVE Complete(p)'
    <3>1. CASE p = 0
      BY Zenon, <1>21, <3>1
    <3>2. CASE p = 1
      BY Zenon, <1>22, <3>2
    <3> QED
      BY Zenon, <1>6, <3>1, <3>2
  <2> QED
    BY Zenon, <2>1
<1> QED
  BY Zenon, <1>8, <1>9, <1>15, <1>16, <1>23 DEF HInv

LEMMA Stutter == ASSUME HInv, UNCHANGED vars PROVE HInv'
<1>1. /\ set' = set /\ counter' = counter /\ history' = history
      /\ todo' = todo /\ pc' = pc /\ i' = i /\ old_rank' = old_rank
  BY Zenon DEF vars
<1>2. /\ \A p \in Place : Slots(p)' /\ Elements(p)' = Elements(p)
      /\ buf' = buf /\ is_large' = is_large /\ has_zero_elem' = has_zero_elem
      /\ rank_store' = rank_store /\ added' = added /\ merged' = merged
  BY Zenon, <1>1, SameSlots DEF counter, history
<1>3. Types'
  BY Zenon, <1>1, <1>2 DEF HInv, Types, TypeOK, counter
<1>4. ASSUME NEW t \in GpuThread PROVE Registers(t)'
  <2>1. Registers(t)
    BY Zenon DEF HInv
  <2> QED
    BY Zenon, <1>1, <1>2, <2>1 DEF Registers, Task
<1>5. Tasks'
  <2>1. Tasks
    BY Zenon DEF HInv
  <2>2. ASSUME NEW k, TaskOK(k) PROVE TaskOK(k)'
    BY Zenon, <1>2, <2>2 DEF TaskOK, RanksOf
  <2> QED
    BY Zenon, <1>1, <2>1, <2>2 DEF Tasks
<1>6. Flights' /\ \A p \in Place : Counters(p)'
  <2>1. \A u \in GpuThread : (Flight(u)' <=> Flight(u)) /\ Task(u)' = Task(u)
    BY Zenon, <1>1 DEF Flight, Task
  <2> QED
    BY Zenon, <1>1, <2>1, QuietCounters
<1>7. ASSUME NEW p \in Place PROVE Complete(p)'
  <2>1. Complete(p)
    BY Zenon DEF HInv
  <2>2. Due(p)' = Due(p) /\ Elements(p)' = Elements(p)
    BY Zenon, <1>2 DEF Due, LaterSlots, Used
  <2>3. \A v : Awaited(p, v) => Awaited(p, v)'
    BY Zenon, <1>1 DEF Awaited
  <2>4. \A b, r : Rises(p, b, r) => Rises(p, b, r)'
    BY Zenon, <1>1 DEF Rises
  <2>5. \A v \in Due(p) : is_large'[p] \/ v \in Elements(p)' \/ Awaited(p, v)'
    BY Zenon, <1>2, <2>1, <2>2, <2>3 DEF Complete
  <2>6. \A v \in Due(p) : rank_store'[p][BucketOf[v]] >= RankOf[v] \/ Rises(p, BucketOf[v], RankOf[v])'
    BY Zenon, <1>2, <2>1, <2>4 DEF Complete
  <2>7. \A b \in HBucket : rank_store'[p][b] \in RanksOf(added'[p], b)
    BY Zenon, <1>2, <2>1 DEF Complete
  <2> QED
    BY Zenon, <2>2, <2>5, <2>6, <2>7 DEF Complete, RanksOf
<1> QED
  BY Zenon, <1>2, <1>3, <1>4, <1>5, <1>6, <1>7 DEF HInv

LEMMA NextHInv == ASSUME Counting, Remainder, HInv, [Next]_vars PROVE HInv'
BY Zenon, AddBulkStep, MergeBulkStep, StepHInv, Stutter DEF Next
-----------------------------------------------------------------------------
\* What the invariant says between kernels

LEMMA SetsFollow == ASSUME Counting, HInv PROVE SmallSetExact
<1>1. Types /\ TypeOK
  BY Zenon DEF HInv, Types
<1>2. \A p \in Place : is_large[p] => Cardinality(added[p] \ {0}) > capacity
  BY Zenon DEF HInv, Slots
<1>3. ASSUME Idle, ~merged, NEW p \in Place, ~is_large[p]
      PROVE  Elements(p) = added[p] /\ size(p) = Cardinality(added[p])
  <2> DEFINE f == buf[p]
             Values == {f[s] : s \in Used(p)}
  <2>0. Slots(p)
    BY Zenon DEF HInv
  <2>1. Due(p) = added[p]
    BY Zenon, <1>3 DEF Due
  <2>2. Elements(p) = added[p]
    <3>1. \A v \in added[p] : v \in Elements(p)
      BY Zenon, <1>3, <2>1, IdleFacts
    <3>2. ASSUME NEW v \in Elements(p) PROVE v \in added[p]
      <4>1. (\E s \in Slot : buf[p][s] # 0 /\ v = buf[p][s]) \/ (has_zero_elem[p] /\ v = 0)
        BY Zenon, <3>2, ElementsFacts
      <4> QED
        BY Zenon, <2>0, <4>1 DEF Slots
    <3> QED
      BY Zenon, <3>1, <3>2
  <2>3. Used(p) \in SUBSET Slot /\ \A r, s \in Used(p) : f[r] = f[s] => r = s
    <3>1. \A r, s \in Slot : r < s \/ s < r \/ r = s
      BY DEF Slot
    <3>2. \A s \in Used(p) : s \in Slot /\ f[s] # 0
      BY Zenon DEF Used
    <3>3. \A r, s \in Used(p) : r < s => f[r] # f[s]
      BY Zenon, <2>0, <3>2 DEF Slots
    <3>4. Used(p) \in SUBSET Slot
      BY Zenon, <3>2
    <3> HIDE DEF f
    <3> QED
      BY Zenon, <3>1, <3>3, <3>4
  <2>4. IsFiniteSet(Values) /\ Cardinality(Values) = Cardinality(Used(p))
    <3>1. \A g : \A U \in SUBSET Slot : (\A r, s \in U : g[r] = g[s] => r = s)
            => IsFiniteSet({g[s] : s \in U}) /\ Cardinality({g[s] : s \in U}) = Cardinality(U)
      BY Zenon DEF Counting
    <3> HIDE DEF f
    <3>2. (\A r, s \in Used(p) : f[r] = f[s] => r = s)
            => IsFiniteSet({f[s] : s \in Used(p)}) /\ Cardinality({f[s] : s \in Used(p)}) = Cardinality(Used(p))
      BY Zenon, <2>3, <3>1
    <3> QED
      BY Zenon, <2>3, <3>2
  <2>5. 0 \notin Values
    BY Zenon DEF Used
  <2>6. CASE has_zero_elem[p]
    <3>1. Elements(p) = Values \cup {0} /\ size(p) = Cardinality(Used(p)) + 1
      BY Zenon, <2>6 DEF Elements, size
    <3> HIDE DEF Values
    <3>2. Cardinality(Values \cup {0}) = Cardinality(Values) + 1
      BY Zenon, <2>4, <2>5 DEF Counting
    <3> QED
      BY Zenon, <2>2, <2>4, <3>1, <3>2
  <2>7. CASE ~has_zero_elem[p]
    <3>1. Elements(p) = Values /\ size(p) = Cardinality(Used(p)) + 0
      BY Zenon, <2>7 DEF Elements, size
    <3>2. Cardinality(Used(p)) \in Nat
      BY Zenon, <2>4 DEF Counting
    <3>3. Cardinality(Used(p)) + 0 = Cardinality(Used(p))
      BY <3>2
    <3> HIDE DEF Values
    <3> QED
      BY Zenon, <2>2, <2>4, <3>1, <3>3
  <2> QED
    BY Zenon, <2>2, <2>6, <2>7
<1>4. ASSUME NEW p \in Place, NEW s \in Used(p), NEW r \in 1..s PROVE r \in Used(p)
  <2>1. s \in Slot /\ buf[p][s] # 0
    BY Zenon DEF Used
  <2>2. r \in Slot /\ (r = s \/ r < s)
    BY <2>1, Constants DEF Slot
  <2>3. Slots(p)
    BY Zenon DEF HInv
  <2>4. buf[p][r] # 0
    BY Zenon, <2>1, <2>2, <2>3 DEF Slots
  <2> QED
    BY Zenon, <2>2, <2>4 DEF Used
<1> QED
  BY Zenon, <1>1, <1>2, <1>3, <1>4 DEF SmallSetExact, SetExact

\* A set of natural numbers that is not empty has a least one
Least == \A S \in SUBSET Nat : S # {} => \E m \in S : \A k \in S : m <= k

\* MaxRankOf is the largest of the ranks of a bucket, and 0 for none
LEMMA MaxRankFacts ==
    ASSUME Least, NEW values \in SUBSET Value, NEW b
    PROVE  /\ RanksOf(values, b) \in SUBSET Rank
           /\ MaxRankOf(values, b) \in RanksOf(values, b)
           /\ \A q \in RanksOf(values, b) : q <= MaxRankOf(values, b)
<1> DEFINE R     == RanksOf(values, b)
           Above == {n \in Nat : \A q \in R : q <= n}
<1>1. R \in SUBSET Rank /\ 0 \in R
  BY Zenon, Sets DEF RanksOf
<1>2. \A q \in R : q \in Nat /\ q <= max_rank
  BY Zenon, <1>1, Sets
<1>3. MaxRankOf(values, b) = CHOOSE r \in R : \A q \in R : q <= r
  BY Zenon DEF MaxRankOf, RanksOf
<1> HIDE DEF R
<1>4. max_rank \in Above /\ Above \in SUBSET Nat
  BY Zenon, <1>2, Constants
<1>5. PICK m \in Above : \A k \in Above : m <= k
  <2>1. Above # {}
    BY Zenon, <1>4
  <2> QED
    BY Zenon, <1>4, <2>1 DEF Least
<1>6. m \in Nat /\ \A q \in R : q <= m
  BY Zenon, <1>5
<1>7. m \in R
  <2> SUFFICES ASSUME m \notin R PROVE FALSE
    OBVIOUS
  <2>1. ASSUME NEW q \in R PROVE q <= m - 1
    <3>1. q \in Nat /\ q <= m /\ q # m
      BY Zenon, <1>2, <1>6
    <3> QED
      BY <1>6, <3>1
  <2>2. m - 1 \in Nat /\ ~(m <= m - 1)
    <3>1. 0 <= m /\ m # 0
      BY Zenon, <1>1, <1>6
    <3> QED
      BY <1>6, <3>1
  <2>3. m - 1 \in Above
    BY Zenon, <2>1, <2>2
  <2> QED
    BY Zenon, <1>5, <2>2, <2>3
<1>8. \E r \in R : \A q \in R : q <= r
  BY Zenon, <1>6, <1>7
<1>9. MaxRankOf(values, b) \in R /\ \A q \in R : q <= MaxRankOf(values, b)
  BY Zenon, <1>3, <1>8
<1> QED
  BY Zenon, <1>1, <1>9 DEF R

\* Between kernels a rank is one of the values given to the place, and not below those due
LEMMA RankBounds ==
    ASSUME Least, HInv, Idle, NEW p \in Place, NEW b \in HBucket
    PROVE  /\ Due(p) \in SUBSET Value
           /\ MaxRankOf(Due(p), b) <= rank_store[p][b] /\ rank_store[p][b] <= MaxRankOf(added[p], b)
           /\ rank_store[p][b] \in Nat /\ MaxRankOf(Due(p), b) \in Nat /\ MaxRankOf(added[p], b) \in Nat
<1>1. added[p] \in SUBSET Value /\ rank_store[p][b] \in RanksOf(added[p], b)
  BY Zenon DEF HInv, Types, Complete
<1>2. Due(p) \in SUBSET Value
  BY Zenon, <1>1 DEF Due
<1>3. /\ RanksOf(added[p], b) \in SUBSET Rank
      /\ MaxRankOf(added[p], b) \in RanksOf(added[p], b)
      /\ \A q \in RanksOf(added[p], b) : q <= MaxRankOf(added[p], b)
  BY Zenon, <1>1, MaxRankFacts
<1>4. /\ RanksOf(Due(p), b) \in SUBSET Rank
      /\ MaxRankOf(Due(p), b) \in RanksOf(Due(p), b)
  BY Zenon, <1>2, MaxRankFacts
<1>5. rank_store[p][b] \in Nat /\ MaxRankOf(Due(p), b) \in Nat /\ MaxRankOf(added[p], b) \in Nat
  BY Zenon, <1>1, <1>3, <1>4, Sets
<1>6. rank_store[p][b] <= MaxRankOf(added[p], b)
  BY Zenon, <1>1, <1>3
<1>7. MaxRankOf(Due(p), b) <= rank_store[p][b]
  <2>1. CASE MaxRankOf(Due(p), b) = 0
    BY <1>5, <2>1
  <2>2. CASE MaxRankOf(Due(p), b) # 0
    <3>1. PICK v \in Due(p) : BucketOf[v] = b /\ MaxRankOf(Due(p), b) = RankOf[v]
      BY Zenon, <1>4, <2>2 DEF RanksOf
    <3>2. rank_store[p][b] >= RankOf[v]
      BY Zenon, <3>1, IdleFacts
    <3> QED
      BY <1>5, <3>1, <3>2
  <2> QED
    BY Zenon, <2>1, <2>2
<1> QED
  BY Zenon, <1>2, <1>5, <1>6, <1>7

LEMMA RanksFollow == ASSUME Least, Counting, HInv PROVE RanksAndCountersExact
<1>1. ASSUME Idle, merged => is_large[1], NEW p \in Place, NEW b \in HBucket
      PROVE  rank_store[p][b] = MaxRankOf(added[p], b)
  <2>1. Due(p) = added[p]
    BY Zenon, <1>1 DEF Due, LaterSlots
  <2>2. /\ MaxRankOf(added[p], b) <= rank_store[p][b] /\ rank_store[p][b] <= MaxRankOf(added[p], b)
        /\ rank_store[p][b] \in Nat /\ MaxRankOf(added[p], b) \in Nat
    BY Zenon, <1>1, <2>1, RankBounds
  <2> QED
    BY <2>2
<1>2. ASSUME Idle, NEW p \in Place
      PROVE  /\ zeros[p] = Cardinality({b \in HBucket : rank_store[p][b] = 0})
             /\ \A r \in Rank : rank_count[p][r] = Cardinality({b \in HBucket : rank_store[p][b] = r})
  <2>1. Counters(p)
    BY Zenon DEF HInv
  <2>2. \A t \in GpuThread : \A b : ~At(t, p, b)
    BY Zenon, <1>2 DEF Idle, At, Flight
  <2>3. ZeroSet(p) = {b \in HBucket : rank_store[p][b] = 0}
    BY Zenon, <2>2 DEF ZeroSet
  <2>4. ASSUME NEW r \in Rank
        PROVE  rank_count[p][r] = Cardinality({b \in HBucket : rank_store[p][b] = r})
    <3>1. Plus(p, r) = {b \in HBucket : rank_store[p][b] = r}
      BY Zenon, <2>2 DEF Plus
    <3>2. Minus(p, r) = {}
      BY Zenon, <2>2 DEF Minus
    <3>3. Cardinality({}) = 0 /\ IsFiniteSet(HBucket)
      BY Zenon DEF Counting
    <3>4. Plus(p, r) \subseteq HBucket
      BY Zenon DEF Plus
    <3>5. IsFiniteSet(Plus(p, r))
      BY Zenon, <3>3, <3>4 DEF Counting
    <3>6. Cardinality(Plus(p, r)) \in Nat
      BY Zenon, <3>5 DEF Counting
    <3>7. \A n \in Nat : Wrapped(n, 0) = n
      BY DEF Wrapped
    <3>8. rank_count[p][r] = Wrapped(Cardinality(Plus(p, r)), Cardinality(Minus(p, r)))
      BY Zenon, <2>1 DEF Counters
    <3>9. rank_count[p][r] = Cardinality(Plus(p, r))
      BY Zenon, <3>2, <3>3, <3>6, <3>7, <3>8
    <3> QED
      BY Zenon, <3>1, <3>9
  <2> QED
    BY Zenon, <2>1, <2>3, <2>4 DEF Counters
<1> QED
  BY Zenon, <1>1, <1>2 DEF RanksAndCountersExact, RanksExact

LEMMA MergeFollows == ASSUME Least, HInv PROVE MergeMissesOnlyLaterSlots
<1> SUFFICES ASSUME Idle, merged
             PROVE  LET kept == added[0] \ LaterSlots IN
                    /\ ~is_large[0] => kept \subseteq Elements(0) /\ Elements(0) \subseteq added[0]
                    /\ \A b \in HBucket : rank_store[0][b] \in MaxRankOf(kept, b)..MaxRankOf(added[0], b)
  BY Zenon DEF MergeMissesOnlyLaterSlots
<1> DEFINE kept == added[0] \ LaterSlots
<1>1. Due(0) = kept /\ 0 \in Place
  BY Zenon, Sets DEF Due
<1> HIDE DEF kept
<1>2. ~is_large[0] => kept \subseteq Elements(0)
  BY Zenon, <1>1, IdleFacts
<1>3. ASSUME NEW p \in Place, NEW v \in Elements(p) PROVE v \in added[p]
  <2>1. (\E s \in Slot : buf[p][s] # 0 /\ v = buf[p][s]) \/ (has_zero_elem[p] /\ v = 0)
    BY Zenon, <1>3, ElementsFacts
  <2>2. Slots(p)
    BY Zenon DEF HInv
  <2> QED
    BY Zenon, <2>1, <2>2 DEF Slots
<1>4. ASSUME NEW b \in HBucket PROVE rank_store[0][b] \in MaxRankOf(kept, b)..MaxRankOf(added[0], b)
  <2>1. /\ MaxRankOf(kept, b) <= rank_store[0][b] /\ rank_store[0][b] <= MaxRankOf(added[0], b)
        /\ rank_store[0][b] \in Nat /\ MaxRankOf(kept, b) \in Nat /\ MaxRankOf(added[0], b) \in Nat
    BY Zenon, <1>1, <1>4, RankBounds
  <2> QED
    BY <2>1
<1> QED
  BY Zenon, <1>1, <1>2, <1>3, <1>4 DEF kept
-----------------------------------------------------------------------------
FST == INSTANCE FiniteSetTheorems
WF  == INSTANCE WellFoundedInduction

LEMMA LeastNumber == Least
<1> DEFINE R == {p \in Nat \X Nat : p[1] < p[2]}
<1>1. WF!IsWellFoundedOn(R, Nat)
  BY Zenon, WF!NatLessThanWellFounded DEF WF!OpToRel
<1>2. ASSUME NEW S \in SUBSET Nat, S # {}
      PROVE  \E m \in S : \A k \in S : m <= k
  <2>1. PICK m \in S : \A k \in S : ~(<<k, m>> \in R)
    BY Zenon, <1>1, <1>2, WF!WFMin
  <2>2. ASSUME NEW k \in S
        PROVE  m <= k
    <3>1. k \in Nat /\ m \in Nat /\ <<k, m>> \in Nat \X Nat
      OBVIOUS
    <3>2. ~(<<k, m>>[1] < <<k, m>>[2])
      BY Zenon, <2>1, <3>1
    <3>3. ~(k < m)
      BY Zenon, <3>2
    <3> QED
      BY <3>1, <3>3
  <2> QED
    BY Zenon, <2>2
<1> QED
  BY Zenon, <1>2 DEF Least

\* Finite sets and cardinalities are those of the model
LEMMA SameCounting == ASSUME NEW S
                      PROVE  FST!Cardinality(S) = Cardinality(S) /\ (FST!IsFiniteSet(S) <=> IsFiniteSet(S))
BY Zenon DEF FST!Cardinality, Cardinality, FST!IsFiniteSet, IsFiniteSet

\* The image of a finite set is finite, and as large when no two elements meet
LEMMA ImageFacts ==
    ASSUME NEW f, NEW U, IsFiniteSet(U)
    PROVE  /\ IsFiniteSet({f[s] : s \in U})
           /\ (\A r, s \in U : f[r] = f[s] => r = s) => Cardinality({f[s] : s \in U}) = Cardinality(U)
<1> DEFINE T == {f[s] : s \in U}
           g == [s \in U |-> f[s]]
<1>1. g \in [U -> T] /\ \A s \in U : g[s] = f[s]
  BY Zenon
<1>2. \A x \in T : \E s \in U : g[s] = x
  BY Zenon
<1> HIDE DEF g, T
<1>3. g \in FST!Surjection(U, T)
  BY Zenon, <1>1, <1>2 DEF FST!Surjection
<1>4. FST!IsFiniteSet(U)
  BY Zenon, SameCounting
<1>5. FST!IsFiniteSet(T) /\ (FST!Cardinality(T) = FST!Cardinality(U) <=> g \in FST!Injection(U, T))
  BY Zenon, <1>3, <1>4, FST!FS_Surjection
<1>6. FST!Cardinality(T) = Cardinality(T) /\ FST!Cardinality(U) = Cardinality(U) /\ (FST!IsFiniteSet(T) <=> IsFiniteSet(T))
  BY Zenon, SameCounting
<1>7. ASSUME \A r, s \in U : f[r] = f[s] => r = s PROVE Cardinality(T) = Cardinality(U)
  <2>1. g \in FST!Injection(U, T)
    <3>1. \A r, s \in U : g[r] = g[s] => r = s
      BY Zenon, <1>1, <1>7
    <3> QED
      BY Zenon, <1>1, <3>1 DEF FST!Injection, FST!IsInjective
  <2> QED
    BY Zenon, <1>5, <1>6, <2>1
<1> QED
  BY Zenon, <1>5, <1>6, <1>7 DEF T

LEMMA CountingFacts == Counting
<1>1. ASSUME NEW S, NEW T, IsFiniteSet(T), S \subseteq T
      PROVE  IsFiniteSet(S) /\ Cardinality(S) <= Cardinality(T)
  <2>1. FST!IsFiniteSet(T) /\ S \in SUBSET T
    BY Zenon, <1>1, SameCounting
  <2>2. FST!IsFiniteSet(S) /\ FST!Cardinality(S) <= FST!Cardinality(T)
    BY Zenon, <2>1, FST!FS_Subset
  <2>3. FST!Cardinality(S) = Cardinality(S) /\ FST!Cardinality(T) = Cardinality(T) /\ (FST!IsFiniteSet(S) <=> IsFiniteSet(S))
    BY Zenon, SameCounting
  <2> QED
    BY Zenon, <2>2, <2>3
<1>2. ASSUME NEW S, IsFiniteSet(S)
      PROVE  Cardinality(S) \in Nat
  <2>1. FST!IsFiniteSet(S)
    BY Zenon, <1>2, SameCounting
  <2>2. FST!Cardinality(S) \in Nat
    BY Zenon, <2>1, FST!FS_CardinalityType
  <2> QED
    BY Zenon, <2>2, SameCounting
<1>3. ASSUME NEW S, NEW x, IsFiniteSet(S), x \notin S
      PROVE  Cardinality(S \cup {x}) = Cardinality(S) + 1
  <2>1. FST!IsFiniteSet(S)
    BY Zenon, <1>3, SameCounting
  <2>2. FST!Cardinality(S \cup {x}) = FST!Cardinality(S) + 1
    BY Zenon, <1>3, <2>1, FST!FS_AddElement
  <2> QED
    BY Zenon, <2>2, SameCounting
<1>4. ASSUME NEW S, NEW T, IsFiniteSet(S), IsFiniteSet(T)
      PROVE  IsFiniteSet(S \cup T)
  <2>1. FST!IsFiniteSet(S) /\ FST!IsFiniteSet(T)
    BY Zenon, <1>4, SameCounting
  <2>2. FST!IsFiniteSet(S \cup T)
    BY Zenon, <2>1, FST!FS_Union
  <2> QED
    BY Zenon, <2>2, SameCounting
<1>5. ASSUME NEW n \in Nat, n > 0
      PROVE  /\ IsFiniteSet(1..n) /\ Cardinality(1..n) = n
             /\ IsFiniteSet(0..(n - 1)) /\ Cardinality(0..(n - 1)) = n
  <2>1. /\ FST!IsFiniteSet(1..n) /\ FST!Cardinality(1..n) = n
        /\ FST!IsFiniteSet(0..(n - 1)) /\ FST!Cardinality(0..(n - 1)) = n
    BY <1>5, FST!FS_Interval
  <2> QED
    BY Zenon, <2>1, SameCounting
<1>6. /\ IsFiniteSet(GpuThread) /\ IsFiniteSet(Slot) /\ Cardinality(Slot) = capacity
      /\ IsFiniteSet(HBucket) /\ Cardinality(HBucket) = bucket_count
  BY Zenon, <1>5, Constants DEF GpuThread, Slot, HBucket
<1>7. ASSUME NEW f, NEW U \in SUBSET GpuThread PROVE IsFiniteSet({f[t] : t \in U})
  <2>1. IsFiniteSet(U)
    BY Zenon, <1>1, <1>6
  <2> QED
    BY Zenon, <2>1, ImageFacts
<1>8. ASSUME NEW f, NEW U \in SUBSET Slot, \A r, s \in U : f[r] = f[s] => r = s
      PROVE  IsFiniteSet({f[s] : s \in U}) /\ Cardinality({f[s] : s \in U}) = Cardinality(U)
  <2>1. IsFiniteSet(U)
    BY Zenon, <1>1, <1>6
  <2> QED
    BY Zenon, <1>8, <2>1, ImageFacts
<1>9. IsFiniteSet({}) /\ Cardinality({}) = 0
  BY Zenon, FST!FS_EmptySet, SameCounting
<1> QED
  BY Zenon, <1>1, <1>2, <1>3, <1>4, <1>6, <1>7, <1>8, <1>9 DEF Counting
-----------------------------------------------------------------------------
\* However the threads of the kernels interleave and whatever a plain read misses, the slots of
\* a small set fill in order, no value and no rank is lost or made up, and the counters are the
\* cardinalities of the buckets that the finished updates leave in them, modulo their width
THEOREM UniqInvariant == Spec => []HInv
<1>1. Init => HInv
  BY Zenon, CountingFacts, InitHInv
<1>2. HInv /\ [Next]_vars => HInv'
  BY Zenon, CountingFacts, RemainderFacts, NextHInv
<1> QED
  BY <1>1, <1>2, PTL DEF Spec

\* CudaSmallSet::tryInsert: between kernels a small set has every value of its group exactly
\* once and without a gap, and only more values than slots make it large, for any number of
\* racing threads, slots and values
THEOREM SmallSetIsExact == Spec => []SmallSetExact
<1>1. HInv => SmallSetExact
  BY Zenon, CountingFacts, SetsFollow
<1> QED
  BY <1>1, UniqInvariant, PTL

\* CudaHyperLogLogCounter::update: between kernels every bucket has the largest rank of its
\* values, and zeros and rank_count count the buckets exactly though they are updated apart from
\* the ranks and wrap around meanwhile, provided their range exceeds the number of buckets
THEOREM CountersAreExact == Spec => []RanksAndCountersExact
<1>1. HInv => RanksAndCountersExact
  BY Zenon, CountingFacts, LeastNumber, RanksFollow
<1> QED
  BY <1>1, UniqInvariant, PTL

\* kerCudaMergeBulk: a merge misses nothing but the values that a small source has behind its
\* first slot, which sizeWithoutZeroElem does not count, and makes nothing up
THEOREM MergeLosesOnlyLaterSlots == Spec => []MergeMissesOnlyLaterSlots
<1>1. HInv => MergeMissesOnlyLaterSlots
  BY Zenon, LeastNumber, MergeFollows
<1> QED
  BY <1>1, UniqInvariant, PTL
=============================================================================
