-------------------- MODULE CudaStringsAggregatorProofs --------------------
(***************************************************************************)
(* Proofs about CudaStringsAggregator, for any number of chunks, any       *)
(* blocks, any sizes of the buffers and of the hash table.                 *)
(***************************************************************************)
EXTENDS CudaStringsAggregator, TLAPS

\* The threads are not all started yet
Early == ~started \/ main = "start"

\* What the query thread knows where it is
Query ==
    /\ ~started => next = 1 /\ main \in {"read", "assert_failed"}
    /\ main = "assert_failed" => ~started /\ next > Len(input)
    /\ ~Early => is_vals_needed = isDataNeeded
    /\ main \in {"read", "start", "queue", "flush", "sync"} => todo = "queue"
    /\ main \in {"hand_over", "end_marker"} => todo = main
    /\ main \in {"join", "merge", "done"} => todo = "end_marker"
    /\ main \in {"start", "lock", "wait", "asleep", "queue", "flush"} /\ todo = "queue" => next <= Len(input)
    /\ todo # "queue" => next = Len(input) + 1
    /\ todo = "end_marker" /\ main \in {"lock", "wait", "asleep", "end_marker", "join"} => i < chunks_num
    /\ main = "merge" => i > 0
    /\ main = "join" => \A c \in Chunk : c < i => worker[c] = "exited"
    /\ main \in {"merge", "done"} => \A c \in Chunk : worker[c] = "exited"

Numbers(s) == {s[p] : p \in DOMAIN s}
Injective(s) == \A p, q \in DOMAIN s : s[p] = s[q] => p = q

\* The blocks in the buffer of a chunk have no rows
Rowless(c) == \A j \in Numbers(keys_blocks[c]) : input[j].rows = 0

\* Who works on a chunk: the mutex and the flag
Handing(c) ==
    /\ main \in {"wait", "queue", "flush", "hand_over", "end_marker"} /\ c = Target => owner[c] = "main"
    /\ worker[c] \in {"wait", "add_data", "add_bulk"} => owner[c] = "worker"
    /\ worker[c] \in {"add_data", "add_bulk", "offsets", "exited"} => cuda_processing_state[c]
    /\ main \in {"queue", "flush", "sync", "hand_over", "end_marker"} /\ c = Target => ~cuda_processing_state[c]
    /\ Early => worker[c] \in {"none", "erase", "lock", "wait", "asleep"} /\ ~cuda_processing_state[c]
    /\ cuda_processing_state[c] \/ c = curr_filling_chunk \/ keys_blocks[c] = <<>>
    /\ todo = "end_marker" => cuda_processing_state[c] \/ Rowless(c)
    /\ worker[c] \in {"offsets", "exited"} => Rowless(c)

\* The copies that did not run yet are those of the last block
Copies ==
    /\ main # "sync" => copy_stream = <<>>
    /\ \A k \in DOMAIN copy_stream :
          LET copy == copy_stream[k] IN
          /\ copy.chunk = curr_filling_chunk /\ copy.block = next - 1
          /\ copy.pos \in DOMAIN keys_blocks[copy.chunk] /\ keys_blocks[copy.chunk][copy.pos] = next - 1

Pending(b, c, p) ==
    \E k \in DOMAIN copy_stream : copy_stream[k].buf = b /\ copy_stream[k].chunk = c /\ copy_stream[k].pos = p

\* What lies in the buffers of a chunk and what its kernel still reads
Filled(c) ==
    /\ Early => keys_blocks[c] = <<>>
    /\ Len(keys_blocks[c]) < next /\ Injective(keys_blocks[c])
    /\ \A j \in Numbers(keys_blocks[c]) : j < next
    /\ vals_blocks[c] = IF isDataNeeded THEN keys_blocks[c] ELSE <<>>
    /\ \A p \in DOMAIN keys_blocks[c] :
          /\ keys_buf[c][p] = keys_blocks[c][p] \/ Pending("keys", c, p)
          /\ isDataNeeded => vals_buf[c][p] = keys_blocks[c][p] \/ Pending("vals", c, p)
    /\ worker[c] = "add_bulk" => group_nums[c] = keys_blocks[c]

InFlight(c) ==
    /\ worker[c] \in {"none", "erase", "add_bulk", "exited"} \/ Early => add_bulk[c] = <<>>
    /\ worker[c] \in {"none", "erase"} \/ Early =>
          table_keys[c] = {} /\ \A j \in Block : group_agg_res[c][j] = 0
    /\ Len(add_bulk[c]) <= MaxBlocks /\ Injective(add_bulk[c])
    /\ \A p \in DOMAIN add_bulk[c] :
          /\ add_bulk[c][p] \in Block
          /\ isDataNeeded => vals_buf[c][p] \in Block /\ add_bulk[c][p] <= vals_buf[c][p]

\* The chunks that count: merged ones do not any more
Active == IF main \in {"merge", "done"} THEN {0} \union {c \in Chunk : c >= i} ELSE Chunk

\* Block j is with chunk c: in its buffer, read by its kernel or aggregated
With(c, j) == j \in Numbers(keys_blocks[c]) \/ j \in Numbers(add_bulk[c]) \/ group_agg_res[c][j] # 0

Accounted(c) ==
    \A j \in Block :
       /\ With(c, j) => j < next
       /\ group_agg_res[c][j] <= 1
       /\ j \in Numbers(keys_blocks[c]) => group_agg_res[c][j] = 0 /\ j \notin Numbers(add_bulk[c])
       /\ j \in Numbers(add_bulk[c]) => group_agg_res[c][j] = 0

\* The keys of a block are in the table before its rows are aggregated
Keyed(c) ==
    \A j \in Block :
       \/ j \in Numbers(add_bulk[c]) \/ group_agg_res[c][j] # 0
       \/ worker[c] = "add_bulk" /\ j \in Numbers(keys_blocks[c])
       => input[j].keys \subseteq table_keys[c]

\* A block is with one chunk
Placed ==
    /\ \A c, d \in Active : \A j \in Block : With(c, j) /\ With(d, j) => c = d
    /\ \A j \in Block : j < next /\ input[j].rows > 0 => \E c \in Active : With(c, j)

Local(c) == Handing(c) /\ Filled(c) /\ InFlight(c)
AInv ==
    /\ TypeOK /\ Query /\ Copies
    /\ \A c \in Chunk : Local(c)
    /\ main # "threw" => Placed /\ \A c \in Active : Accounted(c) /\ Keyed(c)
    /\ \A c \in Chunk : table_keys[c] \subseteq AllKeys
    /\ DiesOnlyIfExceeded /\ ValuesAreNeverStale
-----------------------------------------------------------------------------
\* Totals over the blocks of a buffer.  The totals are recursive functions; what they
\* compute follows from the fact that a set of numbers has a least element.

Least == \A S \in SUBSET Nat : S # {} => \E m \in S : \A k \in S : m <= k

IsSum(f, g, n) == f = [k \in 0..n |-> IF k = 0 THEN 0 ELSE f[k - 1] + g[k]]

LEMMA SumExists ==
    ASSUME Least, NEW N \in Nat, NEW g
    PROVE  \E f : IsSum(f, g, N)
<1> DEFINE S == {n \in Nat : ~\E f : IsSum(f, g, n)}
<1>1. ASSUME S # {}
      PROVE  FALSE
  <2>1. PICK m \in S : \A k \in S : m <= k
    BY Zenon, <1>1 DEF Least
  <2>2. m \in Nat /\ ~\E f : IsSum(f, g, m)
    BY Zenon, <2>1
  <2>3. m # 0
    <3>1. CASE m = 0
      <4> DEFINE f == [k \in 0..0 |-> 0]
      <4>1. 0..0 = {0}
        OBVIOUS
      <4>2. IsSum(f, g, 0)
        BY Zenon, <4>1 DEF IsSum
      <4> QED
        BY Zenon, <2>2, <3>1, <4>2
    <3> QED
      BY Zenon, <3>1
  <2>4. m - 1 \in Nat /\ ~(m <= m - 1) /\ \A k \in 0..m : k = m \/ k \in 0..(m - 1)
    BY <2>2, <2>3
  <2>5. PICK f : IsSum(f, g, m - 1)
    BY Zenon, <2>1, <2>4
  <2>6. \A k \in 0..m : k = 0 \/ k - 1 \in 0..(m - 1)
    BY <2>2
  <2> DEFINE h == [k \in 0..m |-> IF k = m THEN f[m - 1] + g[m] ELSE f[k]]
  <2>7. \A k \in 0..(m - 1) : k \in 0..m /\ k # m
    BY <2>2
  <2>8. \A k \in 0..(m - 1) : h[k] = f[k] /\ f[k] = IF k = 0 THEN 0 ELSE f[k - 1] + g[k]
    BY Zenon, <2>5, <2>7 DEF IsSum
  <2>9. m \in 0..m
    BY <2>2
  <2>10. ASSUME NEW k \in 0..m
         PROVE  h[k] = IF k = 0 THEN 0 ELSE h[k - 1] + g[k]
    <3>1. CASE k = m
      <4>1. h[k] = f[m - 1] + g[m]
        BY Zenon, <3>1
      <4>2. h[k - 1] = f[m - 1]
        BY Zenon, <2>3, <2>6, <2>8, <2>9, <3>1
      <4> QED
        BY Zenon, <2>3, <3>1, <4>1, <4>2
    <3>2. CASE k # m
      <4>1. k \in 0..(m - 1)
        BY Zenon, <2>4, <3>2
      <4>2. k # 0 => k - 1 \in 0..(m - 1)
        BY Zenon, <2>6
      <4> HIDE DEF h
      <4> QED
        BY Zenon, <2>8, <4>1, <4>2
    <3> QED
      BY Zenon, <3>1, <3>2
  <2>11. IsSum(h, g, m)
    <3>1. h = [k \in 0..m |-> h[k]]
      BY Zenon
    <3> HIDE DEF h
    <3> QED
      BY Zenon, <2>10, <3>1 DEF IsSum
  <2> QED
    BY Zenon, <2>2, <2>11
<1> QED
  BY Zenon, <1>1

LEMMA SumTotal ==
    ASSUME Least, NEW N \in Nat, NEW g \in [1..N -> Nat], NEW f, IsSum(f, g, N)
    PROVE  f[N] \in Nat /\ (f[N] = 0 <=> \A k \in 1..N : g[k] = 0)
<1>1. /\ \A k \in 0..N : f[k] = IF k = 0 THEN 0 ELSE f[k - 1] + g[k]
      /\ N \in 0..N /\ 0 \in 0..N
  <2>1. N \in 0..N /\ 0 \in 0..N
    OBVIOUS
  <2> QED
    BY Zenon, <2>1 DEF IsSum
<1>2. \A k \in 0..N : k = 0 \/ (k \in 1..N /\ k - 1 \in 0..N /\ k - 1 < k /\ k \in Nat)
  OBVIOUS
<1> DEFINE Good(n) == f[n] \in Nat /\ (f[n] = 0 <=> \A k \in 1..n : g[k] = 0)
           S == {n \in 0..N : ~Good(n)}
<1>3. ASSUME S # {}
      PROVE  FALSE
  <2>1. S \in SUBSET Nat
    OBVIOUS
  <2>2. PICK m \in S : \A k \in S : m <= k
    BY Zenon, <1>3, <2>1 DEF Least
  <2>3. m \in 0..N /\ ~Good(m)
    BY Zenon, <2>2
  <2>4. m # 0
    <3>1. f[0] = 0 /\ f[0] \in Nat /\ 1..0 = {}
      BY <1>1
    <3> QED
      BY Zenon, <2>3, <3>1
  <2>5. m \in 1..N /\ m - 1 \in 0..N /\ ~(m <= m - 1)
    BY <1>2, <2>3, <2>4
  <2>6. Good(m - 1)
    BY Zenon, <2>2, <2>5
  <2>7. f[m] = f[m - 1] + g[m] /\ g[m] \in Nat
    BY Zenon, <1>1, <2>3, <2>4, <2>5
  <2>8. f[m - 1] \in Nat /\ (f[m - 1] = 0 <=> \A k \in 1..(m - 1) : g[k] = 0)
    BY Zenon, <2>6
  <2>9. \A k \in 1..m : k = m \/ k \in 1..(m - 1)
    BY <2>5
  <2>10. m \in 1..m /\ \A k \in 1..(m - 1) : k \in 1..m
    BY <2>5
  <2>11. f[m] \in Nat /\ (f[m] = 0 <=> f[m - 1] = 0 /\ g[m] = 0)
    BY <2>7, <2>8
  <2>12. f[m] = 0 <=> \A k \in 1..m : g[k] = 0
    BY Zenon, <2>8, <2>9, <2>10, <2>11
  <2> QED
    BY Zenon, <2>3, <2>11, <2>12
<1>4. Good(N)
  BY Zenon, <1>1, <1>3
<1> QED
  BY Zenon, <1>4

LEMMA RowsFacts ==
    ASSUME Least, NEW s \in Seq(Block), \A p \in DOMAIN s : input[s[p]].rows \in Nat
    PROVE  RowsIn(s) \in Nat /\ (RowsIn(s) = 0 <=> \A p \in DOMAIN s : input[s[p]].rows = 0)
<1> DEFINE N == Len(s)
           g == [n \in 1..N |-> input[s[n]].rows]
           sum[n \in 0..N] == IF n = 0 THEN 0 ELSE sum[n - 1] + input[s[n]].rows
<1>1. RowsIn(s) = sum[N]
  BY Zenon DEF RowsIn, SumOf
<1>2. N \in Nat /\ DOMAIN s = 1..N /\ \A n \in 0..N : n = 0 \/ n \in 1..N
  OBVIOUS
<1>3. \E f : f = [n \in 0..N |-> IF n = 0 THEN 0 ELSE f[n - 1] + input[s[n]].rows]
  <2>1. PICK f : IsSum(f, g, N)
    BY Zenon, <1>2, SumExists
  <2>2. f = [n \in 0..N |-> IF n = 0 THEN 0 ELSE f[n - 1] + input[s[n]].rows]
    BY Zenon, <1>2, <2>1 DEF IsSum
  <2> QED
    BY Zenon, <2>2
<1>4. sum = [n \in 0..N |-> IF n = 0 THEN 0 ELSE sum[n - 1] + input[s[n]].rows]
  BY Zenon, <1>3
<1>5. g \in [1..N -> Nat]
  BY Zenon, <1>2
<1> HIDE DEF sum
<1>6. IsSum(sum, g, N)
  BY Zenon, <1>2, <1>4 DEF IsSum
<1>7. sum[N] \in Nat /\ (sum[N] = 0 <=> \A k \in 1..N : g[k] = 0)
  BY Zenon, <1>2, <1>5, <1>6, SumTotal
<1>8. (\A k \in 1..N : g[k] = 0) <=> \A p \in DOMAIN s : input[s[p]].rows = 0
  BY Zenon, <1>2
<1> QED
  BY Zenon, <1>1, <1>7, <1>8

LEMMA KeyBytesFacts ==
    ASSUME Least, NEW s \in Seq(Block), \A p \in DOMAIN s : input[s[p]].key_sz \in Nat
    PROVE  KeyBytesIn(s) \in Nat /\ (KeyBytesIn(s) = 0 <=> \A p \in DOMAIN s : input[s[p]].key_sz = 0)
<1> DEFINE N == Len(s)
           g == [n \in 1..N |-> input[s[n]].key_sz]
           sum[n \in 0..N] == IF n = 0 THEN 0 ELSE sum[n - 1] + input[s[n]].key_sz
<1>1. KeyBytesIn(s) = sum[N]
  BY Zenon DEF KeyBytesIn, SumOf
<1>2. N \in Nat /\ DOMAIN s = 1..N /\ \A n \in 0..N : n = 0 \/ n \in 1..N
  OBVIOUS
<1>3. \E f : f = [n \in 0..N |-> IF n = 0 THEN 0 ELSE f[n - 1] + input[s[n]].key_sz]
  <2>1. PICK f : IsSum(f, g, N)
    BY Zenon, <1>2, SumExists
  <2>2. f = [n \in 0..N |-> IF n = 0 THEN 0 ELSE f[n - 1] + input[s[n]].key_sz]
    BY Zenon, <1>2, <2>1 DEF IsSum
  <2> QED
    BY Zenon, <2>2
<1>4. sum = [n \in 0..N |-> IF n = 0 THEN 0 ELSE sum[n - 1] + input[s[n]].key_sz]
  BY Zenon, <1>3
<1>5. g \in [1..N -> Nat]
  BY Zenon, <1>2
<1> HIDE DEF sum
<1>6. IsSum(sum, g, N)
  BY Zenon, <1>2, <1>4 DEF IsSum
<1>7. sum[N] \in Nat /\ (sum[N] = 0 <=> \A k \in 1..N : g[k] = 0)
  BY Zenon, <1>2, <1>5, <1>6, SumTotal
<1>8. (\A k \in 1..N : g[k] = 0) <=> \A p \in DOMAIN s : input[s[p]].key_sz = 0
  BY Zenon, <1>2
<1> QED
  BY Zenon, <1>1, <1>7, <1>8

LEMMA ValBytesFacts ==
    ASSUME Least, NEW s \in Seq(Block), \A p \in DOMAIN s : input[s[p]].val_sz \in Nat
    PROVE  ValBytesIn(s) \in Nat /\ (ValBytesIn(s) = 0 <=> \A p \in DOMAIN s : input[s[p]].val_sz = 0)
<1> DEFINE N == Len(s)
           g == [n \in 1..N |-> input[s[n]].val_sz]
           sum[n \in 0..N] == IF n = 0 THEN 0 ELSE sum[n - 1] + input[s[n]].val_sz
<1>1. ValBytesIn(s) = sum[N]
  BY Zenon DEF ValBytesIn, SumOf
<1>2. N \in Nat /\ DOMAIN s = 1..N /\ \A n \in 0..N : n = 0 \/ n \in 1..N
  OBVIOUS
<1>3. \E f : f = [n \in 0..N |-> IF n = 0 THEN 0 ELSE f[n - 1] + input[s[n]].val_sz]
  <2>1. PICK f : IsSum(f, g, N)
    BY Zenon, <1>2, SumExists
  <2>2. f = [n \in 0..N |-> IF n = 0 THEN 0 ELSE f[n - 1] + input[s[n]].val_sz]
    BY Zenon, <1>2, <2>1 DEF IsSum
  <2> QED
    BY Zenon, <2>2
<1>4. sum = [n \in 0..N |-> IF n = 0 THEN 0 ELSE sum[n - 1] + input[s[n]].val_sz]
  BY Zenon, <1>3
<1>5. g \in [1..N -> Nat]
  BY Zenon, <1>2
<1> HIDE DEF sum
<1>6. IsSum(sum, g, N)
  BY Zenon, <1>2, <1>4 DEF IsSum
<1>7. sum[N] \in Nat /\ (sum[N] = 0 <=> \A k \in 1..N : g[k] = 0)
  BY Zenon, <1>2, <1>5, <1>6, SumTotal
<1>8. (\A k \in 1..N : g[k] = 0) <=> \A p \in DOMAIN s : input[s[p]].val_sz = 0
  BY Zenon, <1>2
<1> QED
  BY Zenon, <1>1, <1>7, <1>8

-----------------------------------------------------------------------------
\* Facts about the blocks and the buffers

LEMMA InputFacts ==
    ASSUME TypeOK
    PROVE  /\ Len(input) \in Nat /\ Len(input) <= MaxBlocks /\ DOMAIN input = 1..Len(input)
           /\ next \in Nat /\ 1 <= next /\ next <= Len(input) + 1
           /\ \A j \in DOMAIN input :
                 /\ input[j].rows \in Nat /\ input[j].key_sz \in Nat /\ input[j].val_sz \in Nat
                 /\ input[j].keys \subseteq Key
                 /\ input[j].rows = 0 <=> input[j].key_sz = 0
                 /\ input[j].rows = 0 => input[j].val_sz = 0 /\ input[j].keys = {}
<1>1. input \in Seq(BlockType) /\ Len(input) <= MaxBlocks /\ next \in 1..(Len(input) + 1)
  BY Zenon, AggregatorConstants DEF TypeOK
<1>2. Len(input) \in Nat /\ DOMAIN input = 1..Len(input) /\ \A j \in DOMAIN input : input[j] \in BlockType
  BY <1>1
<1>3. next \in Nat /\ 1 <= next /\ next <= Len(input) + 1
  BY <1>1, <1>2
<1>4. ASSUME NEW j \in DOMAIN input
      PROVE  /\ input[j].rows \in Nat /\ input[j].key_sz \in Nat /\ input[j].val_sz \in Nat
             /\ input[j].keys \subseteq Key
             /\ input[j].rows = 0 <=> input[j].key_sz = 0
             /\ input[j].rows = 0 => input[j].val_sz = 0 /\ input[j].keys = {}
  <2>1. input[j] \in BlockType
    BY Zenon, <1>2
  <2>2. input \in Inputs
    BY Zenon DEF TypeOK
  <2> QED
    BY Zenon, <2>1, <2>2, AggregatorConstants DEF BlockType
<1> QED
  BY Zenon, <1>1, <1>2, <1>3, <1>4

LEMMA BlockFacts ==
    ASSUME TypeOK
    PROVE  /\ Block \subseteq Nat /\ Pos = Block /\ Unset \notin Block
           /\ \A j \in Block : j < next => j \in DOMAIN input
           /\ next <= Len(input) => next \in Block /\ next \in DOMAIN input
           /\ \A j \in DOMAIN input : j \in Block
           /\ \A j \in Block : j <= next => j < next + 1
           /\ \A j \in Block : j < next + 1 => j < next \/ j = next
<1>1. /\ Len(input) \in Nat /\ Len(input) <= MaxBlocks /\ DOMAIN input = 1..Len(input)
      /\ next \in Nat /\ 1 <= next /\ next <= Len(input) + 1
  BY Zenon, InputFacts
<1>2. MaxBlocks \in Nat /\ Unset \notin Nat
  BY Zenon, AggregatorConstants
<1>3. Block = 1..MaxBlocks /\ Pos = 1..MaxBlocks
  BY Zenon DEF Block, Pos
<1>4. Block \subseteq Nat /\ \A j \in Block : j \in Nat
  BY <1>2, <1>3
<1>5. /\ \A j \in Block : j < next => j \in 1..Len(input)
      /\ next <= Len(input) => next \in Block /\ next \in 1..Len(input)
      /\ \A j \in 1..Len(input) : j \in Block
      /\ \A j \in Block : j <= next => j < next + 1
      /\ \A j \in Block : j < next + 1 => j < next \/ j = next
  BY <1>1, <1>2, <1>3
<1> QED
  BY Zenon, <1>1, <1>2, <1>3, <1>4, <1>5

LEMMA ChunkFacts ==
    /\ chunks_num \in Nat /\ chunks_num > 0 /\ Chunk \subseteq Nat /\ 0 \in Chunk
    /\ \A c : c \in Chunk <=> c \in Nat /\ c < chunks_num
<1>1. chunks_num \in Nat \ {0}
  BY Zenon, AggregatorConstants
<1> QED
  BY <1>1 DEF Chunk

LEMMA SeqFacts ==
    ASSUME TypeOK, NEW c \in Chunk
    PROVE  /\ keys_blocks[c] \in Seq(Block) /\ Len(keys_blocks[c]) \in Nat
           /\ DOMAIN keys_blocks[c] = 1..Len(keys_blocks[c])
           /\ \A p \in DOMAIN keys_blocks[c] : keys_blocks[c][p] \in Block
           /\ Numbers(keys_blocks[c]) \subseteq Block
<1>1. keys_blocks[c] \in Seq(Block)
  BY Zenon DEF TypeOK
<1>2. /\ Len(keys_blocks[c]) \in Nat /\ DOMAIN keys_blocks[c] = 1..Len(keys_blocks[c])
      /\ \A p \in DOMAIN keys_blocks[c] : keys_blocks[c][p] \in Block
  BY <1>1
<1> QED
  BY Zenon, <1>1, <1>2 DEF Numbers

\* CudaColumnString::empty is right: blocks without rows have no bytes
LEMMA EmptyFacts ==
    ASSUME Least, AInv, NEW c \in Chunk
    PROVE  /\ Empty(c) <=> Rowless(c)
           /\ Empty(c) => /\ RowsIn(keys_blocks[c]) = 0 /\ KeyBytesIn(keys_blocks[c]) = 0
                          /\ RowsIn(vals_blocks[c]) = 0 /\ ValBytesIn(vals_blocks[c]) = 0
<1> DEFINE s == keys_blocks[c]
           e == <<>>
<1>1. TypeOK /\ Filled(c)
  BY Zenon DEF AInv, Local
<1>2. /\ s \in Seq(Block) /\ e \in Seq(Block) /\ DOMAIN e = {}
      /\ \A p \in DOMAIN s : s[p] \in DOMAIN input
  <2>1. e \in Seq(Block) /\ DOMAIN e = {}
    OBVIOUS
  <2> QED
    BY Zenon, <1>1, <2>1, SeqFacts, BlockFacts DEF Filled, Numbers
<1>3. vals_blocks[c] = s \/ vals_blocks[c] = e
  BY Zenon, <1>1 DEF Filled
<1>4. /\ \A p \in DOMAIN s : input[s[p]].rows \in Nat
      /\ \A p \in DOMAIN s : input[s[p]].key_sz \in Nat
      /\ \A p \in DOMAIN s : input[s[p]].val_sz \in Nat
      /\ \A p \in DOMAIN s : input[s[p]].rows = 0 <=> input[s[p]].key_sz = 0
      /\ \A p \in DOMAIN s : input[s[p]].rows = 0 => input[s[p]].val_sz = 0
  BY Zenon, <1>1, <1>2, InputFacts
<1> HIDE DEF s, e
<1>5. RowsIn(s) = 0 <=> \A p \in DOMAIN s : input[s[p]].rows = 0
  BY Zenon, <1>2, <1>4, RowsFacts
<1>6. KeyBytesIn(s) = 0 <=> \A p \in DOMAIN s : input[s[p]].key_sz = 0
  BY Zenon, <1>2, <1>4, KeyBytesFacts
<1>7. ValBytesIn(s) = 0 <=> \A p \in DOMAIN s : input[s[p]].val_sz = 0
  BY Zenon, <1>2, <1>4, ValBytesFacts
<1>8. RowsIn(e) = 0 /\ ValBytesIn(e) = 0
  <2>1. RowsIn(e) = 0
    BY Zenon, <1>2, RowsFacts
  <2>2. ValBytesIn(e) = 0
    BY Zenon, <1>2, ValBytesFacts
  <2> QED
    BY Zenon, <2>1, <2>2
<1>9. Empty(c) <=> \A p \in DOMAIN s : input[s[p]].rows = 0
  BY Zenon, <1>4, <1>5, <1>6 DEF Empty, s
<1>10. Rowless(c) <=> \A p \in DOMAIN s : input[s[p]].rows = 0
  BY Zenon DEF Rowless, Numbers, s
<1>11. Empty(c) => RowsIn(s) = 0 /\ KeyBytesIn(s) = 0 /\ ValBytesIn(s) = 0
  BY Zenon, <1>4, <1>5, <1>6, <1>7, <1>9
<1> QED
  BY Zenon, <1>3, <1>8, <1>9, <1>10, <1>11 DEF s
-----------------------------------------------------------------------------
\* Steps that leave the blocks where they are

data == <<input, next, buffers, device, group_nums, add_bulk, table_keys, group_agg_res, values_read>>

\* What the worker of chunk c may do meanwhile
Moves(c) ==
    \/ worker'[c] = worker[c]
    \/ worker'[c] \in {"lock", "wait", "asleep", "add_data", "offsets"}
    \/ worker'[c] = "erase" /\ Early
    \/ worker'[c] = "exited" /\ add_bulk[c] = <<>>

LEMMA DataKeeps ==
    ASSUME AInv, UNCHANGED data, Early' => Early,
           \A c \in Chunk : Moves(c),
           main' # "threw" => main # "threw" /\ Active' = Active
    PROVE  /\ \A c \in Chunk : Filled(c)' /\ InFlight(c)'
           /\ main' # "threw" => Placed' /\ \A c \in Active' : Accounted(c)' /\ Keyed(c)'
           /\ \A c \in Chunk : table_keys'[c] \subseteq AllKeys'
           /\ ValuesAreNeverStale'
<1>0. \A c \in Chunk : Filled(c) /\ InFlight(c)
  BY Zenon DEF AInv, Local
<1>1. /\ input' = input /\ next' = next /\ keys_blocks' = keys_blocks /\ vals_blocks' = vals_blocks
      /\ keys_buf' = keys_buf /\ vals_buf' = vals_buf /\ copy_stream' = copy_stream
      /\ group_nums' = group_nums /\ add_bulk' = add_bulk /\ table_keys' = table_keys
      /\ group_agg_res' = group_agg_res /\ values_read' = values_read
  BY Zenon DEF data, buffers, device
<1>2. \A c \in Chunk : worker'[c] = "add_bulk" => worker[c] = "add_bulk"
  BY Zenon DEF Moves
<1>3. ASSUME NEW c \in Chunk
      PROVE  Filled(c)'
  <2>1. \A b, p : Pending(b, c, p)' <=> Pending(b, c, p)
    BY Zenon, <1>1 DEF Pending
  <2> QED
    BY Zenon, <1>0, <1>1, <1>2, <2>1 DEF Filled
<1>4. ASSUME NEW c \in Chunk
      PROVE  InFlight(c)'
  <2>1. worker'[c] \in {"none", "erase", "add_bulk", "exited"} \/ Early' => add_bulk'[c] = <<>>
    BY Zenon, <1>0, <1>1 DEF InFlight, Moves
  <2>2. worker'[c] \in {"none", "erase"} \/ Early' => worker[c] \in {"none", "erase"} \/ Early
    BY Zenon DEF Moves
  <2> QED
    BY Zenon, <1>0, <1>1, <2>1, <2>2 DEF InFlight
<1>5. ASSUME main' # "threw"
      PROVE  Placed' /\ \A c \in Active' : Accounted(c)' /\ Keyed(c)'
  <2>1. Placed /\ (\A c \in Active : Accounted(c) /\ Keyed(c)) /\ Active' = Active
    BY Zenon, <1>5 DEF AInv
  <2>2. \A c, j : With(c, j)' <=> With(c, j)
    BY Zenon, <1>1 DEF With
  <2>3. Placed'
    BY Zenon, <1>1, <2>1, <2>2 DEF Placed
  <2>4. ASSUME NEW c \in Active'
        PROVE  Accounted(c)' /\ Keyed(c)'
    <3>1. c \in Chunk /\ Accounted(c) /\ Keyed(c)
      BY Zenon, <2>1, ChunkFacts DEF Active
    <3>2. Accounted(c)'
      BY Zenon, <1>1, <2>2, <3>1 DEF Accounted
    <3>3. Keyed(c)'
      BY Zenon, <1>1, <1>2, <3>1 DEF Keyed
    <3> QED
      BY Zenon, <3>2, <3>3
  <2> QED
    BY Zenon, <2>3, <2>4
<1>6. \A c \in Chunk : table_keys'[c] \subseteq AllKeys'
  BY Zenon, <1>1 DEF AInv, AllKeys
<1>7. ValuesAreNeverStale'
  BY Zenon, <1>1 DEF AInv, ValuesAreNeverStale
<1> QED
  BY Zenon, <1>3, <1>4, <1>5, <1>6, <1>7

LEMMA ControlTypes ==
    ASSUME TypeOK, UNCHANGED data,
           main' \in MainLabel, todo' \in {"queue", "hand_over", "end_marker"}, i' \in 0..chunks_num,
           curr_filling_chunk' \in Chunk, is_vals_needed' \in BOOLEAN \union {Unset}, started' \in BOOLEAN,
           cuda_processing_state' \in [Chunk -> BOOLEAN], owner' \in [Chunk -> {"free", "main", "worker"}],
           worker' \in [Chunk -> WorkerLabel], offsets_known' \in [Chunk -> SUBSET Key], alive' \in BOOLEAN
    PROVE  TypeOK'
BY Zenon DEF TypeOK, data, buffers, device

\* A step of the control alone: what is left to show
LEMMA ControlStep ==
    ASSUME AInv, UNCHANGED data, Early' => Early,
           \A c \in Chunk : Moves(c),
           main' # "threw" => main # "threw" /\ Active' = Active,
           TypeOK', Query', Copies', \A c \in Chunk : Handing(c)', DiesOnlyIfExceeded'
    PROVE  AInv'
<1>1. /\ \A c \in Chunk : Filled(c)' /\ InFlight(c)'
      /\ main' # "threw" => Placed' /\ \A c \in Active' : Accounted(c)' /\ Keyed(c)'
      /\ \A c \in Chunk : table_keys'[c] \subseteq AllKeys'
      /\ ValuesAreNeverStale'
  BY Zenon, DataKeeps
<1> QED
  BY Zenon, <1>1 DEF AInv, Local

\* The step of a thread, one chunk at a time: nobody dies, and the queries of a dead server end
LEMMA StaysAlive ==
    ASSUME AInv, input' = input, alive' = alive, main' = "assert_failed" => main = "assert_failed"
    PROVE  DiesOnlyIfExceeded'
BY Zenon DEF AInv, DiesOnlyIfExceeded, AllKeys

LEMMA CopiesKeep ==
    ASSUME AInv, UNCHANGED <<copy_stream, next, keys_blocks>>,
           copy_stream = <<>> \/ UNCHANGED <<main, curr_filling_chunk>>
    PROVE  Copies'
<1>1. Copies
  BY Zenon DEF AInv
<1>2. CASE copy_stream = <<>>
  <2>1. DOMAIN copy_stream = {}
    BY <1>2
  <2> QED
    BY Zenon, <1>2, <2>1 DEF Copies
<1>3. CASE UNCHANGED <<main, curr_filling_chunk>>
  BY Zenon, <1>1, <1>3 DEF Copies
<1> QED
  BY Zenon, <1>2, <1>3
-----------------------------------------------------------------------------
\* The query thread: steps of the control

LEMMA ReadBlockStep == ASSUME AInv, ReadBlock PROVE AInv'
<1>0. TypeOK /\ Query /\ Copies /\ \A c \in Chunk : Handing(c)
  BY Zenon DEF AInv, Local
<1>1. /\ main = "read" /\ next <= Len(input) /\ main' \in {"lock", "start"} /\ todo' = "queue" /\ started'
      /\ started => main' = "lock" /\ i' = i
      /\ ~started => main' = "start" /\ i' = 0
  BY Zenon DEF ReadBlock
<1>2. /\ UNCHANGED data /\ input' = input /\ next' = next /\ curr_filling_chunk' = curr_filling_chunk
      /\ is_vals_needed' = is_vals_needed /\ cuda_processing_state' = cuda_processing_state /\ owner' = owner
      /\ worker' = worker /\ offsets_known' = offsets_known /\ alive' = alive
      /\ keys_blocks' = keys_blocks /\ copy_stream' = copy_stream
  BY Zenon DEF ReadBlock, data, aggr, buffers, device
<1>3. 0 \in 0..chunks_num
  BY ChunkFacts
<1>4. TypeOK'
  BY Zenon, <1>0, <1>1, <1>2, <1>3, ControlTypes DEF TypeOK, MainLabel
<1>5. Early' => Early
  BY Zenon, <1>1 DEF Early
<1>6. Query'
  BY Zenon, <1>0, <1>1, <1>2 DEF Query, Early
<1>7. Copies'
  BY Zenon, <1>0, <1>1, <1>2, CopiesKeep DEF Copies
<1>8. ASSUME NEW c \in Chunk
      PROVE  Handing(c)'
  <2>1. Rowless(c)' <=> Rowless(c)
    BY Zenon, <1>2 DEF Rowless
  <2> QED
    BY Zenon, <1>0, <1>1, <1>2, <1>5, <2>1 DEF Handing
<1>9. DiesOnlyIfExceeded'
  BY Zenon, <1>1, <1>2, StaysAlive
<1>10. Active' = Active
  BY Zenon, <1>1 DEF Active
<1> QED
  BY Zenon, <1>1, <1>2, <1>4, <1>5, <1>6, <1>7, <1>8, <1>9, <1>10, ControlStep DEF Moves

LEMMA ReadEndStep == ASSUME AInv, ReadEnd PROVE AInv'
<1>0. TypeOK /\ Query /\ Copies /\ \A c \in Chunk : Handing(c)
  BY Zenon DEF AInv, Local
<1>1. /\ main = "read" /\ next > Len(input) /\ main' \in {"lock", "assert_failed"}
      /\ started => main' = "lock" /\ todo' = "hand_over"
      /\ ~started => main' = "assert_failed" /\ todo' = todo
  BY Zenon DEF ReadEnd
<1>2. /\ UNCHANGED data /\ input' = input /\ next' = next /\ curr_filling_chunk' = curr_filling_chunk
      /\ is_vals_needed' = is_vals_needed /\ cuda_processing_state' = cuda_processing_state /\ owner' = owner
      /\ worker' = worker /\ offsets_known' = offsets_known /\ alive' = alive /\ i' = i /\ started' = started
      /\ keys_blocks' = keys_blocks /\ copy_stream' = copy_stream
  BY Zenon DEF ReadEnd, data, aggr, buffers, device
<1>3. next = Len(input) + 1
  <2>1. Len(input) \in Nat /\ next \in Nat /\ next <= Len(input) + 1
    BY Zenon, <1>0, InputFacts
  <2> QED
    BY <1>1, <2>1
<1>4. TypeOK'
  BY Zenon, <1>0, <1>1, <1>2, ControlTypes DEF TypeOK, MainLabel
<1>5. Early' <=> Early
  BY Zenon, <1>1, <1>2 DEF Early
<1>6. Query'
  BY Zenon, <1>0, <1>1, <1>2, <1>3, <1>5 DEF Query
<1>7. Copies'
  BY Zenon, <1>0, <1>1, <1>2, CopiesKeep DEF Copies
<1>8. ASSUME NEW c \in Chunk
      PROVE  Handing(c)'
  <2>1. Rowless(c)' <=> Rowless(c)
    BY Zenon, <1>2 DEF Rowless
  <2>2. todo = "queue"
    BY Zenon, <1>0, <1>1 DEF Query
  <2> QED
    BY Zenon, <1>0, <1>1, <1>2, <1>5, <2>1, <2>2 DEF Handing
<1>9. DiesOnlyIfExceeded'
  <2>1. ASSUME main' = "assert_failed"
        PROVE  input = <<>>
    <3>1. next = 1 /\ input \in Seq(BlockType) /\ Len(input) \in Nat
      BY Zenon, <1>0, <1>1, <2>1, InputFacts, AggregatorConstants DEF Query, TypeOK
    <3> QED
      BY <1>3, <3>1
  <2> QED
    BY Zenon, <1>2, <2>1 DEF AInv, DiesOnlyIfExceeded, AllKeys
<1>10. Active' = Active
  BY Zenon, <1>1 DEF Active
<1> QED
  BY Zenon, <1>1, <1>2, <1>4, <1>5, <1>6, <1>7, <1>8, <1>9, <1>10, ControlStep DEF Moves

LEMMA startProcessingStep == ASSUME AInv, startProcessing PROVE AInv'
<1>0. TypeOK /\ Query /\ Copies /\ \A c \in Chunk : Handing(c)
  BY Zenon DEF AInv, Local
<1>1. /\ main = "start" /\ UNCHANGED data /\ input' = input /\ next' = next /\ owner' = owner
      /\ offsets_known' = offsets_known /\ alive' = alive /\ started' = started /\ todo' = todo
      /\ keys_blocks' = keys_blocks /\ copy_stream' = copy_stream
  BY Zenon DEF startProcessing, data, aggr, buffers, device
<1>2. Early /\ started /\ todo = "queue" /\ next <= Len(input) /\ i \in Nat /\ i <= chunks_num /\ i \in 0..chunks_num
  <2>1. i \in Nat /\ i <= chunks_num /\ i \in 0..chunks_num
    BY <1>0, ChunkFacts DEF TypeOK
  <2> QED
    BY Zenon, <1>0, <1>1, <2>1 DEF Query, Early
<1>3. CASE i < chunks_num
  <2>1. /\ cuda_processing_state' = [cuda_processing_state EXCEPT ![i] = FALSE]
        /\ worker' = [worker EXCEPT ![i] = "erase"] /\ i' = i + 1 /\ main' = main
        /\ curr_filling_chunk' = curr_filling_chunk /\ is_vals_needed' = is_vals_needed
    BY Zenon, <1>3 DEF startProcessing
  <2>2. i' \in 0..chunks_num /\ i \in Chunk
    BY <1>2, <1>3, <2>1, ChunkFacts
  <2>3. /\ cuda_processing_state' \in [Chunk -> BOOLEAN] /\ worker' \in [Chunk -> WorkerLabel]
        /\ \A c \in Chunk : /\ cuda_processing_state'[c] = FALSE \/ cuda_processing_state'[c] = cuda_processing_state[c]
                            /\ worker'[c] = "erase" \/ worker'[c] = worker[c]
    BY Zenon, <1>0, <2>1, <2>2 DEF TypeOK, WorkerLabel
  <2>4. TypeOK'
    BY Zenon, <1>0, <1>1, <2>1, <2>2, <2>3, ControlTypes DEF TypeOK
  <2>5. Early'
    BY Zenon, <1>1, <2>1 DEF Early
  <2>6. Query'
    BY Zenon, <1>0, <1>1, <1>2, <2>1, <2>5 DEF Query
  <2>7. Copies'
    BY Zenon, <1>0, <1>1, CopiesKeep DEF Copies
  <2>8. ASSUME NEW c \in Chunk
        PROVE  Handing(c)'
    <3>1. Handing(c) /\ (Rowless(c)' <=> Rowless(c)) /\ Filled(c)
      BY Zenon, <1>0, <1>1 DEF Rowless, AInv, Local
    <3>2. /\ worker[c] \in {"none", "erase", "lock", "wait", "asleep"} /\ ~cuda_processing_state[c]
          /\ keys_blocks[c] = <<>> /\ ~cuda_processing_state'[c]
      BY Zenon, <1>2, <2>3, <3>1 DEF Handing, Filled
    <3> QED
      BY Zenon, <1>1, <1>2, <2>1, <2>3, <3>1, <3>2 DEF Handing
  <2>9. DiesOnlyIfExceeded'
    BY Zenon, <1>1, <2>1, StaysAlive
  <2>10. Active' = Active
    BY Zenon, <1>1, <2>1 DEF Active
  <2> QED
    BY Zenon, <1>1, <1>2, <2>1, <2>3, <2>4, <2>5, <2>6, <2>7, <2>8, <2>9, <2>10, ControlStep DEF Moves
<1>4. CASE ~(i < chunks_num)
  <2>1. /\ cuda_processing_state' = cuda_processing_state /\ worker' = worker /\ i' = i /\ main' = "lock"
        /\ curr_filling_chunk' = 0 /\ is_vals_needed' = isDataNeeded
    BY Zenon, <1>4 DEF startProcessing
  <2>2. isDataNeeded \in BOOLEAN
    BY Zenon, AggregatorConstants
  <2>4. TypeOK'
    BY Zenon, <1>0, <1>1, <2>1, <2>2, ChunkFacts, ControlTypes DEF TypeOK, MainLabel
  <2>6. Query'
    BY Zenon, <1>0, <1>1, <1>2, <2>1 DEF Query, Early
  <2>7. Copies'
    BY Zenon, <1>0, <1>1, CopiesKeep DEF Copies
  <2>8. ASSUME NEW c \in Chunk
        PROVE  Handing(c)'
    <3>1. Handing(c) /\ (Rowless(c)' <=> Rowless(c)) /\ Filled(c)
      BY Zenon, <1>0, <1>1 DEF Rowless, AInv, Local
    <3>2. worker[c] \in {"none", "erase", "lock", "wait", "asleep"} /\ ~cuda_processing_state[c] /\ keys_blocks[c] = <<>>
      BY Zenon, <1>2, <3>1 DEF Handing, Filled
    <3> QED
      BY Zenon, <1>1, <1>2, <2>1, <3>1, <3>2 DEF Handing, Early
  <2>9. DiesOnlyIfExceeded'
    BY Zenon, <1>1, <2>1, StaysAlive
  <2>10. Active' = Active
    BY Zenon, <1>1, <2>1 DEF Active
  <2> QED
    BY Zenon, <1>1, <1>2, <2>1, <2>4, <2>6, <2>7, <2>8, <2>9, <2>10, ControlStep DEF Moves
<1> QED
  BY Zenon, <1>3, <1>4
-----------------------------------------------------------------------------
\* The query thread: the mutex and the flag of a chunk

LEMMA TargetFacts ==
    ASSUME AInv, main \in {"lock", "wait", "asleep", "queue", "flush", "sync", "hand_over", "end_marker"}
    PROVE  Target \in Chunk /\ ~Early /\ (todo # "end_marker" => Target = curr_filling_chunk)
<1>1. TypeOK /\ Query
  BY Zenon DEF AInv
<1>2. ~Early
  BY Zenon, <1>1 DEF Query, Early
<1>3. CASE todo = "end_marker"
  <2>1. i < chunks_num /\ Target = i
    BY Zenon, <1>1, <1>3 DEF Query, Target
  <2>2. i \in Nat
    BY <1>1, ChunkFacts DEF TypeOK
  <2> QED
    BY Zenon, <1>2, <1>3, <2>1, <2>2, ChunkFacts
<1>4. CASE todo # "end_marker"
  BY Zenon, <1>1, <1>2, <1>4 DEF Target, TypeOK
<1> QED
  BY Zenon, <1>3, <1>4

LEMMA HandOverFacts ==
    ASSUME TypeOK, NEW c \in Chunk, HandOver(c)
    PROVE  /\ cuda_processing_state' \in [Chunk -> BOOLEAN] /\ owner' \in [Chunk -> {"free", "main", "worker"}]
           /\ worker' \in [Chunk -> WorkerLabel]
           /\ cuda_processing_state'[c] /\ owner'[c] = "free"
           /\ \A d \in Chunk : /\ d # c => cuda_processing_state'[d] = cuda_processing_state[d] /\ owner'[d] = owner[d]
                               /\ worker'[d] = worker[d] \/ (worker[d] = "asleep" /\ worker'[d] = "lock")
<1>1. /\ cuda_processing_state \in [Chunk -> BOOLEAN] /\ owner \in [Chunk -> {"free", "main", "worker"}]
      /\ worker \in [Chunk -> WorkerLabel]
  BY Zenon DEF TypeOK
<1>2. /\ cuda_processing_state' = [cuda_processing_state EXCEPT ![c] = TRUE]
      /\ owner' = [owner EXCEPT ![c] = "free"]
      /\ worker' = [worker EXCEPT ![c] = IF worker[c] = "asleep" THEN "lock" ELSE worker[c]]
  BY Zenon DEF HandOver
<1>3. (IF worker[c] = "asleep" THEN "lock" ELSE worker[c]) \in WorkerLabel
  BY Zenon, <1>1 DEF WorkerLabel
<1> QED
  BY Zenon, <1>1, <1>2, <1>3

LEMMA LockStep == ASSUME AInv, Lock PROVE AInv'
<1>0. TypeOK /\ Query /\ Copies /\ \A c \in Chunk : Handing(c)
  BY Zenon DEF AInv, Local
<1>1. /\ main = "lock" /\ owner[Target] = "free" /\ main' = "wait" /\ owner' = [owner EXCEPT ![Target] = "main"]
      /\ UNCHANGED data /\ input' = input /\ next' = next /\ todo' = todo /\ i' = i
      /\ curr_filling_chunk' = curr_filling_chunk /\ is_vals_needed' = is_vals_needed /\ started' = started
      /\ cuda_processing_state' = cuda_processing_state /\ worker' = worker /\ alive' = alive
      /\ offsets_known' = offsets_known /\ keys_blocks' = keys_blocks /\ copy_stream' = copy_stream
  BY Zenon DEF Lock, data, aggr, buffers, device
<1>2. Target \in Chunk /\ ~Early /\ Target' = Target
  BY Zenon, <1>1, TargetFacts DEF Target
<1>3. /\ owner' \in [Chunk -> {"free", "main", "worker"}] /\ owner'[Target] = "main"
      /\ \A c \in Chunk \ {Target} : owner'[c] = owner[c]
  BY Zenon, <1>0, <1>1, <1>2 DEF TypeOK
<1>4. TypeOK'
  BY Zenon, <1>0, <1>1, <1>3, ControlTypes DEF TypeOK, MainLabel
<1>5. ~Early'
  BY Zenon, <1>1, <1>2 DEF Early
<1>6. Query'
  BY Zenon, <1>0, <1>1, <1>2, <1>5 DEF Query
<1>7. Copies'
  BY Zenon, <1>0, <1>1, CopiesKeep DEF Copies
<1>8. ASSUME NEW c \in Chunk
      PROVE  Handing(c)'
  <2>1. Handing(c) /\ (Rowless(c)' <=> Rowless(c))
    BY Zenon, <1>0, <1>1 DEF Rowless
  <2>2. worker[c] \in {"wait", "add_data", "add_bulk"} => c # Target
    BY Zenon, <1>1, <2>1 DEF Handing
  <2> QED
    BY Zenon, <1>1, <1>2, <1>3, <1>5, <2>1, <2>2 DEF Handing
<1>9. DiesOnlyIfExceeded'
  BY Zenon, <1>1, StaysAlive
<1>10. Active' = Active
  BY Zenon, <1>1 DEF Active
<1> QED
  BY Zenon, <1>1, <1>4, <1>5, <1>6, <1>7, <1>8, <1>9, <1>10, ControlStep DEF Moves

LEMMA WaitStep == ASSUME AInv, Wait PROVE AInv'
<1>0. TypeOK /\ Query /\ Copies /\ \A c \in Chunk : Handing(c)
  BY Zenon DEF AInv, Local
<1>1. /\ main = "wait"
      /\ UNCHANGED data /\ input' = input /\ next' = next /\ todo' = todo /\ i' = i
      /\ curr_filling_chunk' = curr_filling_chunk /\ is_vals_needed' = is_vals_needed /\ started' = started
      /\ cuda_processing_state' = cuda_processing_state /\ worker' = worker /\ alive' = alive
      /\ offsets_known' = offsets_known /\ keys_blocks' = keys_blocks /\ copy_stream' = copy_stream
  BY Zenon DEF Wait, data, aggr, buffers, device
<1>2. Target \in Chunk /\ ~Early /\ Target' = Target
  BY Zenon, <1>1, TargetFacts DEF Target
<1>3. \/ cuda_processing_state[Target] /\ main' = "asleep" /\ owner' = [owner EXCEPT ![Target] = "free"]
      \/ ~cuda_processing_state[Target] /\ main' = todo /\ owner' = owner
  BY Zenon DEF Wait
<1>a. todo \in {"queue", "hand_over", "end_marker"}
  BY Zenon, <1>0 DEF TypeOK
<1>b. /\ owner' \in [Chunk -> {"free", "main", "worker"}]
      /\ \A c \in Chunk : owner'[c] = owner[c] \/ (c = Target /\ main' = "asleep")
  BY Zenon, <1>0, <1>2, <1>3 DEF TypeOK
<1>4. TypeOK'
  BY Zenon, <1>0, <1>1, <1>3, <1>a, <1>b, ControlTypes DEF TypeOK, MainLabel
<1>5. ~Early'
  BY Zenon, <1>1, <1>2, <1>3, <1>a DEF Early
<1>6. Query'
  BY Zenon, <1>0, <1>1, <1>2, <1>3, <1>5, <1>a DEF Query
<1>7. Copies'
  BY Zenon, <1>0, <1>1, CopiesKeep DEF Copies
<1>8. ASSUME NEW c \in Chunk
      PROVE  Handing(c)'
  <2>1. Handing(c) /\ (Rowless(c)' <=> Rowless(c))
    BY Zenon, <1>0, <1>1 DEF Rowless
  <2>2. c = Target => owner[c] = "main"
    BY Zenon, <1>1, <2>1 DEF Handing
  <2>3. worker[c] \in {"wait", "add_data", "add_bulk"} => c # Target
    BY Zenon, <2>1, <2>2 DEF Handing
  <2> QED
    BY Zenon, <1>1, <1>2, <1>3, <1>5, <1>a, <1>b, <2>1, <2>2, <2>3 DEF Handing
<1>9. DiesOnlyIfExceeded'
  BY Zenon, <1>1, <1>3, <1>a, StaysAlive
<1>10. Active' = Active /\ main' # "threw"
  BY Zenon, <1>1, <1>3, <1>a DEF Active
<1> QED
  BY Zenon, <1>1, <1>4, <1>5, <1>6, <1>7, <1>8, <1>9, <1>10, ControlStep DEF Moves

LEMMA waitQueueDataStep == ASSUME AInv, waitQueueData PROVE AInv'
<1>0. TypeOK /\ Query /\ Copies /\ \A c \in Chunk : Handing(c)
  BY Zenon DEF AInv, Local
<1>1. /\ main = "sync" /\ main' = "read" /\ copy_stream = <<>>
      /\ UNCHANGED data /\ input' = input /\ next' = next /\ todo' = todo /\ i' = i
      /\ curr_filling_chunk' = curr_filling_chunk /\ is_vals_needed' = is_vals_needed /\ started' = started
      /\ cuda_processing_state' = cuda_processing_state /\ worker' = worker /\ alive' = alive /\ owner' = owner
      /\ offsets_known' = offsets_known /\ keys_blocks' = keys_blocks /\ copy_stream' = copy_stream
  BY Zenon DEF waitQueueData, data, aggr, buffers, device
<1>4. TypeOK'
  BY Zenon, <1>0, <1>1, ControlTypes DEF TypeOK, MainLabel
<1>5. Early' <=> Early
  BY Zenon, <1>1 DEF Early
<1>6. Query'
  BY Zenon, <1>0, <1>1, <1>5 DEF Query
<1>7. Copies'
  BY Zenon, <1>1, CopiesKeep
<1>8. ASSUME NEW c \in Chunk
      PROVE  Handing(c)'
  <2>1. Handing(c) /\ (Rowless(c)' <=> Rowless(c))
    BY Zenon, <1>0, <1>1 DEF Rowless
  <2> QED
    BY Zenon, <1>1, <1>5, <2>1 DEF Handing
<1>9. DiesOnlyIfExceeded'
  BY Zenon, <1>1, StaysAlive
<1>10. Active' = Active
  BY Zenon, <1>1 DEF Active
<1> QED
  BY Zenon, <1>1, <1>4, <1>5, <1>6, <1>7, <1>8, <1>9, <1>10, ControlStep DEF Moves

LEMMA FlushChunkStep == ASSUME AInv, FlushChunk PROVE AInv'
<1> DEFINE c0 == curr_filling_chunk
<1>0. TypeOK /\ Query /\ Copies /\ \A c \in Chunk : Handing(c)
  BY Zenon DEF AInv, Local
<1>1. /\ main = "flush" /\ main' = "lock" /\ copy_stream = <<>> /\ HandOver(c0)
      /\ curr_filling_chunk' = NextChunk(c0)
      /\ UNCHANGED data /\ input' = input /\ next' = next /\ todo' = todo /\ i' = i
      /\ is_vals_needed' = is_vals_needed /\ started' = started /\ alive' = alive
      /\ offsets_known' = offsets_known /\ keys_blocks' = keys_blocks /\ copy_stream' = copy_stream
  BY Zenon DEF FlushChunk, data, aggr, buffers, device
<1>2. c0 \in Chunk /\ ~Early /\ todo = "queue" /\ Target = c0
  BY Zenon, <1>0, <1>1, TargetFacts DEF Query, Target, TypeOK
<1>3. curr_filling_chunk' \in Chunk
  BY <1>1, <1>2, ChunkFacts DEF NextChunk
<1>a. /\ cuda_processing_state' \in [Chunk -> BOOLEAN] /\ owner' \in [Chunk -> {"free", "main", "worker"}]
      /\ worker' \in [Chunk -> WorkerLabel]
      /\ cuda_processing_state'[c0] /\ owner'[c0] = "free"
      /\ \A d \in Chunk : /\ d # c0 => cuda_processing_state'[d] = cuda_processing_state[d] /\ owner'[d] = owner[d]
                          /\ worker'[d] = worker[d] \/ (worker[d] = "asleep" /\ worker'[d] = "lock")
  BY Zenon, <1>0, <1>1, <1>2, HandOverFacts
<1> HIDE DEF c0
<1>4. TypeOK'
  BY Zenon, <1>0, <1>1, <1>3, <1>a, ControlTypes DEF TypeOK, MainLabel
<1>5. ~Early'
  BY Zenon, <1>1, <1>2 DEF Early
<1>6. Query'
  BY Zenon, <1>0, <1>1, <1>2, <1>5 DEF Query
<1>7. Copies'
  BY Zenon, <1>1, CopiesKeep
<1>8. ASSUME NEW c \in Chunk
      PROVE  Handing(c)'
  <2>1. Handing(c) /\ (Rowless(c)' <=> Rowless(c)) /\ (c = c0 => owner[c] = "main")
    BY Zenon, <1>0, <1>1, <1>2 DEF Rowless, Handing
  <2>2. worker[c] \in {"wait", "add_data", "add_bulk"} => c # c0
    BY Zenon, <2>1 DEF Handing
  <2>3. cuda_processing_state[c] => cuda_processing_state'[c]
    BY Zenon, <1>a
  <2>4. cuda_processing_state'[c] \/ keys_blocks[c] = <<>>
    BY Zenon, <1>a, <2>1 DEF Handing, c0
  <2> QED
    BY Zenon, <1>1, <1>2, <1>5, <1>a, <2>1, <2>2, <2>3, <2>4 DEF Handing
<1>9. DiesOnlyIfExceeded'
  BY Zenon, <1>1, StaysAlive
<1>10. Active' = Active
  BY Zenon, <1>1 DEF Active
<1> QED
  BY Zenon, <1>1, <1>4, <1>5, <1>6, <1>7, <1>8, <1>9, <1>10, <1>a, ControlStep DEF Moves
-----------------------------------------------------------------------------
\* The query thread: waitProcessed

LEMMA NothingIn == Numbers(<<>>) = {}
BY DEF Numbers

LEMMA HandOverLastStep == ASSUME Least, AInv, HandOverLast PROVE AInv'
<1> DEFINE c0 == curr_filling_chunk
<1>0. TypeOK /\ Query /\ Copies /\ \A c \in Chunk : Handing(c)
  BY Zenon DEF AInv, Local
<1>1. /\ main = "hand_over" /\ main' = "lock" /\ todo' = "end_marker" /\ i' = 0
      /\ UNCHANGED data /\ input' = input /\ next' = next /\ curr_filling_chunk' = curr_filling_chunk
      /\ is_vals_needed' = is_vals_needed /\ started' = started /\ alive' = alive
      /\ offsets_known' = offsets_known /\ keys_blocks' = keys_blocks /\ copy_stream' = copy_stream
  BY Zenon DEF HandOverLast, data, aggr, buffers, device
<1>2. c0 \in Chunk /\ ~Early /\ todo = "hand_over" /\ Target = c0
  BY Zenon, <1>0, <1>1, TargetFacts DEF Query, Target, TypeOK
<1>3. 0 \in 0..chunks_num /\ 0 < chunks_num
  BY ChunkFacts
<1>b. \/ /\ Rowless(c0) /\ owner' = [owner EXCEPT ![c0] = "free"]
         /\ cuda_processing_state' = cuda_processing_state /\ worker' = worker
      \/ HandOver(c0)
  BY Zenon, <1>2, EmptyFacts DEF HandOverLast
<1>a. /\ cuda_processing_state' \in [Chunk -> BOOLEAN] /\ owner' \in [Chunk -> {"free", "main", "worker"}]
      /\ worker' \in [Chunk -> WorkerLabel]
      /\ Rowless(c0) \/ cuda_processing_state'[c0]
      /\ \A d \in Chunk : /\ d # c0 => cuda_processing_state'[d] = cuda_processing_state[d] /\ owner'[d] = owner[d]
                          /\ cuda_processing_state[d] => cuda_processing_state'[d]
                          /\ worker'[d] = worker[d] \/ (worker[d] = "asleep" /\ worker'[d] = "lock")
  BY Zenon, <1>0, <1>2, <1>b, HandOverFacts DEF TypeOK
<1> HIDE DEF c0
<1>4. TypeOK'
  BY Zenon, <1>0, <1>1, <1>3, <1>a, ControlTypes DEF TypeOK, MainLabel
<1>5. ~Early'
  BY Zenon, <1>1, <1>2 DEF Early
<1>6. Query'
  BY Zenon, <1>0, <1>1, <1>2, <1>3, <1>5 DEF Query
<1>7. Copies'
  BY Zenon, <1>0, <1>1, CopiesKeep DEF Copies
<1>8. ASSUME NEW c \in Chunk
      PROVE  Handing(c)'
  <2>1. Handing(c) /\ (Rowless(c)' <=> Rowless(c)) /\ (c = c0 => owner[c] = "main")
    BY Zenon, <1>0, <1>1, <1>2 DEF Rowless, Handing
  <2>2. worker[c] \in {"wait", "add_data", "add_bulk"} => c # c0
    BY Zenon, <2>1 DEF Handing
  <2>3. cuda_processing_state'[c] \/ c = c0 \/ keys_blocks[c] = <<>>
    BY Zenon, <1>a, <2>1 DEF Handing, c0
  <2>4. cuda_processing_state'[c] \/ Rowless(c)
    BY Zenon, <1>a, <2>3, NothingIn DEF Rowless
  <2> QED
    BY Zenon, <1>1, <1>2, <1>5, <1>a, <2>1, <2>2, <2>3, <2>4 DEF Handing, c0
<1>9. DiesOnlyIfExceeded'
  BY Zenon, <1>1, StaysAlive
<1>10. Active' = Active
  BY Zenon, <1>1 DEF Active
<1> QED
  BY Zenon, <1>1, <1>4, <1>5, <1>6, <1>7, <1>8, <1>9, <1>10, <1>a, ControlStep DEF Moves

\* The buffer of the chunk is empty: "host buffer is not empty after transfer" never comes
LEMMA SendEndMarkerStep == ASSUME Least, AInv, SendEndMarker PROVE AInv'
<1>0. TypeOK /\ Query /\ Copies /\ \A c \in Chunk : Handing(c)
  BY Zenon DEF AInv, Local
<1>1. /\ main = "end_marker" /\ todo' = todo
      /\ UNCHANGED data /\ input' = input /\ next' = next /\ curr_filling_chunk' = curr_filling_chunk
      /\ is_vals_needed' = is_vals_needed /\ started' = started
      /\ offsets_known' = offsets_known /\ keys_blocks' = keys_blocks /\ copy_stream' = copy_stream
  BY Zenon DEF SendEndMarker, data, aggr, buffers, device
<1>2. i \in Chunk /\ ~Early /\ todo = "end_marker" /\ Target = i
  BY Zenon, <1>0, <1>1, TargetFacts DEF Query, Target
<1>3. Rowless(i) /\ Empty(i)
  <2>1. Rowless(i)
    BY Zenon, <1>0, <1>1, <1>2 DEF Handing
  <2> QED
    BY Zenon, <1>2, <2>1, EmptyFacts
<1>b. /\ HandOver(i) /\ alive' = alive
      /\ \/ i + 1 < chunks_num /\ main' = "lock" /\ i' = i + 1
         \/ main' = "join" /\ i' = 0
  BY Zenon, <1>3 DEF SendEndMarker
<1>c. i' \in 0..chunks_num /\ i' < chunks_num /\ \A c \in Chunk : ~(c < 0)
  BY <1>2, <1>b, ChunkFacts
<1>a. /\ cuda_processing_state' \in [Chunk -> BOOLEAN] /\ owner' \in [Chunk -> {"free", "main", "worker"}]
      /\ worker' \in [Chunk -> WorkerLabel]
      /\ cuda_processing_state'[i] /\ owner'[i] = "free"
      /\ \A d \in Chunk : /\ d # i => cuda_processing_state'[d] = cuda_processing_state[d] /\ owner'[d] = owner[d]
                          /\ worker'[d] = worker[d] \/ (worker[d] = "asleep" /\ worker'[d] = "lock")
  BY Zenon, <1>0, <1>2, <1>b, HandOverFacts
<1>4. TypeOK'
  BY Zenon, <1>0, <1>1, <1>2, <1>a, <1>b, <1>c, ControlTypes DEF TypeOK, MainLabel
<1>5. ~Early'
  BY Zenon, <1>1, <1>2, <1>b DEF Early
<1>6. Query'
  BY Zenon, <1>0, <1>1, <1>2, <1>5, <1>b, <1>c DEF Query
<1>7. Copies'
  BY Zenon, <1>0, <1>1, CopiesKeep DEF Copies
<1>8. ASSUME NEW c \in Chunk
      PROVE  Handing(c)'
  <2>1. Handing(c) /\ (Rowless(c)' <=> Rowless(c)) /\ (c = i => owner[c] = "main")
    BY Zenon, <1>0, <1>1, <1>2 DEF Rowless, Handing
  <2>2. worker[c] \in {"wait", "add_data", "add_bulk"} => c # i
    BY Zenon, <2>1 DEF Handing
  <2>3. cuda_processing_state[c] => cuda_processing_state'[c]
    BY Zenon, <1>a
  <2> QED
    BY Zenon, <1>1, <1>2, <1>5, <1>a, <1>b, <2>1, <2>2, <2>3 DEF Handing
<1>9. DiesOnlyIfExceeded'
  BY Zenon, <1>1, <1>b, StaysAlive
<1>10. Active' = Active
  BY Zenon, <1>1, <1>b DEF Active
<1> QED
  BY Zenon, <1>1, <1>4, <1>5, <1>6, <1>7, <1>8, <1>9, <1>10, <1>a, ControlStep DEF Moves

LEMMA JoinThreadStep == ASSUME AInv, JoinThread PROVE AInv'
<1>0. TypeOK /\ Query /\ Copies /\ \A c \in Chunk : Handing(c)
  BY Zenon DEF AInv, Local
<1>1. /\ main = "join" /\ worker[i] = "exited"
      /\ \/ i + 1 < chunks_num /\ i' = i + 1 /\ main' = "join"
         \/ ~(i + 1 < chunks_num) /\ i' = 1 /\ main' = "merge"
      /\ UNCHANGED data /\ input' = input /\ next' = next /\ todo' = todo
      /\ curr_filling_chunk' = curr_filling_chunk /\ is_vals_needed' = is_vals_needed /\ started' = started
      /\ cuda_processing_state' = cuda_processing_state /\ worker' = worker /\ alive' = alive /\ owner' = owner
      /\ offsets_known' = offsets_known /\ keys_blocks' = keys_blocks /\ copy_stream' = copy_stream
  BY Zenon DEF JoinThread, data, aggr, buffers, device
<1>2. todo = "end_marker" /\ i < chunks_num /\ \A c \in Chunk : c < i => worker[c] = "exited"
  BY Zenon, <1>0, <1>1 DEF Query
<1>a. i \in 0..chunks_num
  BY Zenon, <1>0 DEF TypeOK
<1>3. /\ i' \in 0..chunks_num /\ (main' = "join" => i' < chunks_num) /\ 1 > 0
      /\ \A c \in Chunk : c < i' /\ main' = "join" => c < i \/ c = i
      /\ \A c \in Chunk : main' = "merge" => c < i \/ c = i
      /\ \A c \in Chunk : c = 0 \/ c >= 1
  BY <1>1, <1>2, <1>a, ChunkFacts
<1>4. TypeOK'
  BY Zenon, <1>0, <1>1, <1>3, ControlTypes DEF TypeOK, MainLabel
<1>5. Early' <=> Early
  BY Zenon, <1>1 DEF Early
<1>6. Query'
  BY Zenon, <1>0, <1>1, <1>2, <1>3, <1>5 DEF Query
<1>7. Copies'
  BY Zenon, <1>0, <1>1, CopiesKeep DEF Copies
<1>8. ASSUME NEW c \in Chunk
      PROVE  Handing(c)'
  <2>1. Handing(c) /\ (Rowless(c)' <=> Rowless(c))
    BY Zenon, <1>0, <1>1 DEF Rowless
  <2> QED
    BY Zenon, <1>1, <1>5, <2>1 DEF Handing
<1>9. DiesOnlyIfExceeded'
  BY Zenon, <1>1, StaysAlive
<1>10. Active' = Active
  <2>1. Active = Chunk
    BY Zenon, <1>1 DEF Active
  <2>2. Active' = Chunk
    BY Zenon, <1>1, <1>3, ChunkFacts DEF Active
  <2> QED
    BY Zenon, <2>1, <2>2
<1> QED
  BY Zenon, <1>1, <1>4, <1>5, <1>6, <1>7, <1>8, <1>9, <1>10, ControlStep DEF Moves

LEMMA BuildResultStep == ASSUME AInv, BuildResult PROVE AInv'
<1>0. TypeOK /\ Query /\ Copies /\ \A c \in Chunk : Handing(c)
  BY Zenon DEF AInv, Local
<1>1. /\ main = "merge" /\ main' \in {"threw", "done"}
      /\ UNCHANGED data /\ input' = input /\ next' = next /\ todo' = todo /\ i' = i
      /\ curr_filling_chunk' = curr_filling_chunk /\ is_vals_needed' = is_vals_needed /\ started' = started
      /\ cuda_processing_state' = cuda_processing_state /\ worker' = worker /\ alive' = alive /\ owner' = owner
      /\ offsets_known' = offsets_known /\ keys_blocks' = keys_blocks /\ copy_stream' = copy_stream
  BY Zenon DEF BuildResult, data, aggr, buffers, device
<1>4. TypeOK'
  BY Zenon, <1>0, <1>1, ControlTypes DEF TypeOK, MainLabel
<1>5. Early' <=> Early
  BY Zenon, <1>1 DEF Early
<1>6. Query'
  BY Zenon, <1>0, <1>1, <1>5 DEF Query
<1>7. Copies'
  BY Zenon, <1>0, <1>1, CopiesKeep DEF Copies
<1>8. ASSUME NEW c \in Chunk
      PROVE  Handing(c)'
  <2>1. Handing(c) /\ (Rowless(c)' <=> Rowless(c))
    BY Zenon, <1>0, <1>1 DEF Rowless
  <2> QED
    BY Zenon, <1>1, <1>5, <2>1 DEF Handing
<1>9. DiesOnlyIfExceeded'
  BY Zenon, <1>1, StaysAlive
<1>10. main' # "threw" => Active' = Active
  BY Zenon, <1>1 DEF Active
<1> QED
  BY Zenon, <1>1, <1>4, <1>5, <1>6, <1>7, <1>8, <1>9, <1>10, ControlStep DEF Moves
-----------------------------------------------------------------------------
\* The workers: steps of the control, and wakeups without a reason

LEMMA WorkerControl ==
    ASSUME AInv, NEW c \in Chunk, NEW l \in WorkerLabel, worker' = [worker EXCEPT ![c] = l], worker[c] # "exited",
           UNCHANGED <<query, cuda_processing_state, alive>>, UNCHANGED data, Moves(c),
           owner' \in [Chunk -> {"free", "main", "worker"}], \A d \in Chunk \ {c} : owner'[d] = owner[d],
           offsets_known' \in [Chunk -> SUBSET Key], Handing(c)'
    PROVE  AInv'
<1>0. TypeOK /\ Query /\ Copies /\ \A d \in Chunk : Handing(d)
  BY Zenon DEF AInv, Local
<1>1. /\ input' = input /\ next' = next /\ main' = main /\ todo' = todo /\ i' = i /\ alive' = alive
      /\ curr_filling_chunk' = curr_filling_chunk /\ is_vals_needed' = is_vals_needed /\ started' = started
      /\ cuda_processing_state' = cuda_processing_state
      /\ keys_blocks' = keys_blocks /\ copy_stream' = copy_stream
  BY Zenon DEF query, data, buffers, device
<1>2. worker' \in [Chunk -> WorkerLabel] /\ \A d \in Chunk \ {c} : worker'[d] = worker[d]
  BY Zenon, <1>0 DEF TypeOK
<1>4. TypeOK'
  BY Zenon, <1>0, <1>1, <1>2, ControlTypes DEF TypeOK
<1>5. (Early' <=> Early) /\ Active' = Active
  BY Zenon, <1>1 DEF Early, Active
<1>6. Query'
  <2>1. \A d \in Chunk : worker[d] = "exited" => worker'[d] = "exited"
    BY Zenon, <1>2
  <2> QED
    BY Zenon, <1>0, <1>1, <1>5, <2>1 DEF Query
<1>7. Copies'
  BY Zenon, <1>1, CopiesKeep
<1>8. ASSUME NEW d \in Chunk
      PROVE  Handing(d)'
  <2>1. CASE d # c
    <3>1. Handing(d) /\ (Rowless(d)' <=> Rowless(d)) /\ Target' = Target /\ worker'[d] = worker[d] /\ owner'[d] = owner[d]
      BY Zenon, <1>0, <1>1, <1>2, <2>1 DEF Rowless, Target
    <3> QED
      BY Zenon, <1>1, <1>5, <3>1 DEF Handing
  <2> QED
    BY Zenon, <2>1
<1>9. DiesOnlyIfExceeded'
  BY Zenon, <1>1, StaysAlive
<1>10. \A d \in Chunk : Moves(d)
  BY Zenon, <1>2 DEF Moves
<1> QED
  BY Zenon, <1>1, <1>4, <1>5, <1>6, <1>7, <1>8, <1>9, <1>10, ControlStep

LEMMA WorkerLockStep == ASSUME AInv, NEW c \in Chunk, WorkerLock(c) PROVE AInv'
<1>0. TypeOK /\ Query /\ Handing(c)
  BY Zenon DEF AInv, Local
<1>1. /\ worker[c] = "lock" /\ owner[c] = "free" /\ owner' = [owner EXCEPT ![c] = "worker"]
      /\ worker' = [worker EXCEPT ![c] = "wait"] /\ UNCHANGED <<query, cuda_processing_state, alive>> /\ UNCHANGED data
      /\ offsets_known' = offsets_known /\ keys_blocks' = keys_blocks
  BY Zenon DEF WorkerLock, workerOnly, query, aggr, data, buffers, device
<1>2. worker'[c] = "wait" /\ "wait" \in WorkerLabel
  BY Zenon, <1>0, <1>1 DEF TypeOK, WorkerLabel
<1>3. /\ owner' \in [Chunk -> {"free", "main", "worker"}] /\ owner'[c] = "worker"
      /\ \A d \in Chunk \ {c} : owner'[d] = owner[d]
  BY Zenon, <1>0, <1>1 DEF TypeOK
<1>4. Handing(c)'
  <2>1. /\ input' = input /\ main' = main /\ todo' = todo /\ i' = i /\ curr_filling_chunk' = curr_filling_chunk
        /\ started' = started /\ cuda_processing_state' = cuda_processing_state
    BY Zenon, <1>1 DEF query
  <2>2. (Rowless(c)' <=> Rowless(c)) /\ Target' = Target /\ (Early' <=> Early)
    BY Zenon, <1>1, <2>1 DEF Rowless, Target, Early
  <2>3. ~(main \in {"wait", "queue", "flush", "hand_over", "end_marker"} /\ c = Target)
    BY Zenon, <1>0, <1>1 DEF Handing
  <2> QED
    BY Zenon, <1>0, <1>1, <1>2, <1>3, <2>1, <2>2, <2>3 DEF Handing
<1> QED
  BY Zenon, <1>0, <1>1, <1>2, <1>3, <1>4, WorkerControl DEF Moves, TypeOK

LEMMA WorkerWaitStep == ASSUME Least, AInv, NEW c \in Chunk, WorkerWait(c) PROVE AInv'
<1>0. TypeOK /\ Query /\ Handing(c)
  BY Zenon DEF AInv, Local
<1> DEFINE l == CASE ~cuda_processing_state[c] -> "asleep"
                  [] cuda_processing_state[c] /\ Empty(c) -> "offsets"
                  [] OTHER -> "add_data"
<1>1. /\ worker[c] = "wait" /\ worker' = [worker EXCEPT ![c] = l]
      /\ UNCHANGED <<query, cuda_processing_state, alive>> /\ UNCHANGED data
      /\ owner' = IF cuda_processing_state[c] /\ ~Empty(c) THEN owner ELSE [owner EXCEPT ![c] = "free"]
      /\ offsets_known' = offsets_known /\ keys_blocks' = keys_blocks
  BY Zenon DEF WorkerWait, workerOnly, query, aggr, data, buffers, device
<1>2. cuda_processing_state[c] \in BOOLEAN /\ (Empty(c) <=> Rowless(c))
  BY Zenon, <1>0, EmptyFacts DEF TypeOK
<1>3. \/ l = "asleep" /\ ~cuda_processing_state[c]
      \/ l = "offsets" /\ cuda_processing_state[c] /\ Empty(c)
      \/ l = "add_data" /\ cuda_processing_state[c] /\ ~Empty(c)
  BY Zenon, <1>2
<1> HIDE DEF l
<1>4. /\ l \in WorkerLabel /\ worker'[c] = l
      /\ owner' \in [Chunk -> {"free", "main", "worker"}] /\ (l = "add_data" => owner' = owner)
      /\ \A d \in Chunk \ {c} : owner'[d] = owner[d]
  BY Zenon, <1>0, <1>1, <1>3 DEF TypeOK, WorkerLabel
<1>5. Handing(c)'
  <2>1. /\ input' = input /\ main' = main /\ todo' = todo /\ i' = i /\ curr_filling_chunk' = curr_filling_chunk
        /\ started' = started /\ cuda_processing_state' = cuda_processing_state
    BY Zenon, <1>1 DEF query
  <2>2. (Rowless(c)' <=> Rowless(c)) /\ Target' = Target /\ (Early' <=> Early)
    BY Zenon, <1>1, <2>1 DEF Rowless, Target, Early
  <2>3. owner[c] = "worker" /\ ~(main \in {"wait", "queue", "flush", "hand_over", "end_marker"} /\ c = Target)
    BY Zenon, <1>0, <1>1 DEF Handing
  <2> QED
    BY Zenon, <1>0, <1>1, <1>2, <1>3, <1>4, <2>1, <2>2, <2>3 DEF Handing
<1> QED
  BY Zenon, <1>0, <1>1, <1>3, <1>4, <1>5, WorkerControl DEF Moves, TypeOK

LEMMA WorkerExitStep == ASSUME AInv, NEW c \in Chunk, WorkerExit(c) PROVE AInv'
<1>0. TypeOK /\ Query /\ Handing(c)
  BY Zenon DEF AInv, Local
<1>1. /\ worker[c] = "offsets" /\ add_bulk[c] = <<>> /\ owner' = owner
      /\ offsets_known' = [offsets_known EXCEPT ![c] = table_keys[c]]
      /\ worker' = [worker EXCEPT ![c] = "exited"] /\ UNCHANGED <<query, cuda_processing_state, alive>> /\ UNCHANGED data
      /\ keys_blocks' = keys_blocks
  BY Zenon DEF WorkerExit, workerOnly, query, data, buffers, device
<1>2. worker'[c] = "exited" /\ "exited" \in WorkerLabel /\ offsets_known' \in [Chunk -> SUBSET Key]
  BY Zenon, <1>0, <1>1 DEF TypeOK, WorkerLabel
<1>4. Handing(c)'
  <2>1. /\ input' = input /\ main' = main /\ todo' = todo /\ i' = i /\ curr_filling_chunk' = curr_filling_chunk
        /\ started' = started /\ cuda_processing_state' = cuda_processing_state
    BY Zenon, <1>1 DEF query
  <2>2. (Rowless(c)' <=> Rowless(c)) /\ Target' = Target /\ (Early' <=> Early)
    BY Zenon, <1>1, <2>1 DEF Rowless, Target, Early
  <2> QED
    BY Zenon, <1>0, <1>1, <1>2, <2>1, <2>2 DEF Handing
<1> QED
  BY Zenon, <1>0, <1>1, <1>2, <1>4, WorkerControl DEF Moves, TypeOK

LEMMA SpuriousWakeupStep == ASSUME AInv, SpuriousWakeup PROVE AInv'
<1>0. TypeOK /\ Query /\ Copies /\ \A c \in Chunk : Handing(c)
  BY Zenon DEF AInv, Local
<1>1. /\ UNCHANGED data /\ input' = input /\ next' = next /\ todo' = todo /\ i' = i
      /\ curr_filling_chunk' = curr_filling_chunk /\ is_vals_needed' = is_vals_needed /\ started' = started
      /\ cuda_processing_state' = cuda_processing_state /\ alive' = alive /\ owner' = owner
      /\ offsets_known' = offsets_known /\ keys_blocks' = keys_blocks /\ copy_stream' = copy_stream
  BY Zenon DEF SpuriousWakeup, data, aggr, buffers, device
<1>2. CASE main = "asleep" /\ main' = "lock" /\ UNCHANGED worker
  <2>4. TypeOK'
    BY Zenon, <1>0, <1>1, <1>2, ControlTypes DEF TypeOK, MainLabel
  <2>5. Early' <=> Early
    BY Zenon, <1>1, <1>2 DEF Early
  <2>6. Query'
    BY Zenon, <1>0, <1>1, <1>2, <2>5 DEF Query
  <2>7. Copies'
    BY Zenon, <1>0, <1>1, <1>2, CopiesKeep DEF Copies
  <2>8. ASSUME NEW c \in Chunk
        PROVE  Handing(c)'
    <3>1. Handing(c) /\ (Rowless(c)' <=> Rowless(c))
      BY Zenon, <1>0, <1>1 DEF Rowless
    <3> QED
      BY Zenon, <1>1, <1>2, <2>5, <3>1 DEF Handing
  <2>9. DiesOnlyIfExceeded'
    BY Zenon, <1>1, <1>2, StaysAlive
  <2>10. Active' = Active
    BY Zenon, <1>2 DEF Active
  <2> QED
    BY Zenon, <1>1, <1>2, <2>4, <2>5, <2>6, <2>7, <2>8, <2>9, <2>10, ControlStep DEF Moves
<1>3. ASSUME NEW c \in Chunk, worker[c] = "asleep", worker' = [worker EXCEPT ![c] = "lock"], main' = main
      PROVE  AInv'
  <2>1. worker'[c] = "lock" /\ "lock" \in WorkerLabel
    BY Zenon, <1>0, <1>3 DEF TypeOK, WorkerLabel
  <2>2. (Rowless(c)' <=> Rowless(c)) /\ Target' = Target /\ (Early' <=> Early)
    BY Zenon, <1>1, <1>3 DEF Rowless, Target, Early
  <2>3. Handing(c)'
    BY Zenon, <1>0, <1>1, <1>3, <2>1, <2>2 DEF Handing
  <2> QED
    BY Zenon, <1>0, <1>1, <1>3, <2>1, <2>3, WorkerControl DEF Moves, TypeOK, query
<1> QED
  BY Zenon, <1>2, <1>3 DEF SpuriousWakeup
-----------------------------------------------------------------------------
\* The query thread: tryQueueData

LEMMA AppendFacts ==
    ASSUME NEW S, NEW s \in Seq(S), NEW e \in S
    PROVE  /\ Append(s, e) \in Seq(S) /\ Len(Append(s, e)) = Len(s) + 1
           /\ DOMAIN Append(s, e) = DOMAIN s \union {Len(s) + 1} /\ Len(s) + 1 \notin DOMAIN s
           /\ Append(s, e)[Len(s) + 1] = e /\ \A p \in DOMAIN s : Append(s, e)[p] = s[p]
           /\ Numbers(Append(s, e)) = Numbers(s) \union {e}
<1>1. /\ Append(s, e) \in Seq(S) /\ Len(Append(s, e)) = Len(s) + 1
      /\ DOMAIN Append(s, e) = DOMAIN s \union {Len(s) + 1} /\ Len(s) + 1 \notin DOMAIN s
      /\ Append(s, e)[Len(s) + 1] = e /\ \A p \in DOMAIN s : Append(s, e)[p] = s[p]
  OBVIOUS
<1>2. Numbers(Append(s, e)) = Numbers(s) \union {e}
  BY <1>1 DEF Numbers
<1> QED
  BY Zenon, <1>1, <1>2

LEMMA QueueLeaves ==
    ASSUME Least, AInv, tryQueueData, ~HasSpace(curr_filling_chunk, next)
    PROVE  AInv'
<1> DEFINE c0 == curr_filling_chunk
<1>0. TypeOK /\ Query /\ Copies /\ \A c \in Chunk : Handing(c)
  BY Zenon DEF AInv, Local
<1>1. /\ main = "queue" /\ main' = (IF Empty(c0) THEN "threw" ELSE "flush") /\ alive' = ~Empty(c0)
      /\ UNCHANGED data /\ input' = input /\ next' = next /\ todo' = todo /\ i' = i
      /\ curr_filling_chunk' = curr_filling_chunk /\ is_vals_needed' = is_vals_needed /\ started' = started
      /\ cuda_processing_state' = cuda_processing_state /\ worker' = worker /\ owner' = owner
      /\ offsets_known' = offsets_known /\ keys_blocks' = keys_blocks /\ copy_stream' = copy_stream
  BY Zenon DEF tryQueueData, data, aggr, buffers, device
<1>2. /\ c0 \in Chunk /\ ~Early /\ todo = "queue" /\ next <= Len(input)
      /\ Target = c0 /\ Target' = Target
  BY Zenon, <1>0, <1>1, TargetFacts DEF Query, Target, TypeOK
<1>3. \/ Empty(c0) /\ main' = "threw" /\ alive' = FALSE
      \/ ~Empty(c0) /\ main' = "flush" /\ alive' = TRUE
  BY Zenon, <1>1
<1>4. TypeOK'
  BY Zenon, <1>0, <1>1, <1>3, ControlTypes DEF TypeOK, MainLabel
<1>5. ~Early'
  BY Zenon, <1>1, <1>2, <1>3 DEF Early
<1>6. Query'
  BY Zenon, <1>0, <1>1, <1>2, <1>3, <1>5 DEF Query
<1>7. Copies'
  BY Zenon, <1>0, <1>1, CopiesKeep DEF Copies
<1>8. ASSUME NEW c \in Chunk
      PROVE  Handing(c)'
  <2>1. Handing(c) /\ (Rowless(c)' <=> Rowless(c))
    BY Zenon, <1>0, <1>1 DEF Rowless
  <2> QED
    BY Zenon, <1>1, <1>2, <1>3, <1>5, <2>1 DEF Handing
<1>9. DiesOnlyIfExceeded'
  <2>1. CASE Empty(c0)
    <3>1. /\ RowsIn(keys_blocks[c0]) = 0 /\ KeyBytesIn(keys_blocks[c0]) = 0
          /\ RowsIn(vals_blocks[c0]) = 0 /\ ValBytesIn(vals_blocks[c0]) = 0
      BY Zenon, <1>2, <2>1, EmptyFacts
    <3>2. next \in DOMAIN input /\ input[next].rows \in Nat /\ input[next].key_sz \in Nat /\ input[next].val_sz \in Nat
      BY Zenon, <1>0, <1>2, BlockFacts, InputFacts
    <3>3. buffer_max_str_num \in Nat /\ buffer_max_size \in Nat
      BY Zenon, AggregatorConstants
    <3>4. \/ ~(0 + input[next].rows <= buffer_max_str_num) \/ ~(0 + input[next].key_sz <= buffer_max_size)
          \/ ~(0 + input[next].val_sz <= buffer_max_size)
      BY Zenon, <3>1 DEF HasSpace
    <3>5. \/ input[next].rows > buffer_max_str_num \/ input[next].key_sz > buffer_max_size
          \/ input[next].val_sz > buffer_max_size
      BY <3>2, <3>3, <3>4
    <3> QED
      BY Zenon, <1>1, <1>3, <3>2, <3>5 DEF DiesOnlyIfExceeded
  <2>2. CASE ~Empty(c0)
    BY Zenon, <1>3, <2>2 DEF DiesOnlyIfExceeded
  <2> QED
    BY Zenon, <2>1, <2>2
<1>10. main' # "threw" => Active' = Active
  BY Zenon, <1>1, <1>3 DEF Active
<1> QED
  BY Zenon, <1>1, <1>4, <1>5, <1>6, <1>7, <1>8, <1>9, <1>10, ControlStep DEF Moves

\* What the step that queues block next in the chunk c0 leaves behind
Queued(c0) ==
    /\ main = "queue" /\ main' = "sync" /\ next' = next + 1 /\ owner' = [owner EXCEPT ![c0] = "free"]
    /\ input' = input /\ todo' = todo /\ i' = i /\ curr_filling_chunk' = curr_filling_chunk
    /\ is_vals_needed' = is_vals_needed /\ started' = started /\ cuda_processing_state' = cuda_processing_state
    /\ keys_buf' = keys_buf /\ vals_buf' = vals_buf /\ worker' = worker /\ alive' = alive
    /\ group_nums' = group_nums /\ add_bulk' = add_bulk /\ table_keys' = table_keys
    /\ offsets_known' = offsets_known /\ group_agg_res' = group_agg_res /\ values_read' = values_read
    /\ keys_blocks' \in [Chunk -> Seq(Block)] /\ vals_blocks' \in [Chunk -> Seq(Block)]
    /\ \A c \in Chunk \ {c0} : keys_blocks'[c] = keys_blocks[c] /\ vals_blocks'[c] = vals_blocks[c]
    /\ keys_blocks'[c0] = Append(keys_blocks[c0], next)
    /\ vals_blocks'[c0] = IF isDataNeeded THEN keys_blocks'[c0] ELSE <<>>
    /\ copy_stream' \in Seq(CopyType)
    /\ \A k \in DOMAIN copy_stream' :
          copy_stream'[k].chunk = c0 /\ copy_stream'[k].block = next /\ copy_stream'[k].pos = Len(keys_blocks[c0]) + 1
    /\ \E k \in DOMAIN copy_stream' : copy_stream'[k].buf = "keys"
    /\ isDataNeeded => \E k \in DOMAIN copy_stream' : copy_stream'[k].buf = "vals"

LEMMA QueueBlockFacts ==
    ASSUME AInv, tryQueueData, HasSpace(curr_filling_chunk, next)
    PROVE  Queued(curr_filling_chunk)
<1> DEFINE c0 == curr_filling_chunk
           s == keys_blocks[c0]
           kc == [buf |-> "keys", chunk |-> c0, pos |-> Len(s) + 1, block |-> next]
           vc == [buf |-> "vals", chunk |-> c0, pos |-> Len(s) + 1, block |-> next]
<1>0. TypeOK /\ Query /\ Copies
  BY Zenon DEF AInv
<1>1. /\ main = "queue" /\ main' = "sync" /\ next' = next + 1 /\ owner' = [owner EXCEPT ![c0] = "free"]
      /\ input' = input /\ todo' = todo /\ i' = i /\ curr_filling_chunk' = curr_filling_chunk
      /\ is_vals_needed' = is_vals_needed /\ started' = started /\ cuda_processing_state' = cuda_processing_state
      /\ keys_buf' = keys_buf /\ vals_buf' = vals_buf /\ worker' = worker /\ alive' = alive
      /\ group_nums' = group_nums /\ add_bulk' = add_bulk /\ table_keys' = table_keys
      /\ offsets_known' = offsets_known /\ group_agg_res' = group_agg_res /\ values_read' = values_read
      /\ QueueBlock(c0, next)
  BY Zenon DEF tryQueueData, aggr
<1>2. c0 \in Chunk /\ next <= Len(input) /\ is_vals_needed = isDataNeeded /\ copy_stream = <<>>
  BY Zenon, <1>0, <1>1, TargetFacts DEF Query, TypeOK, Copies
<1>3. Filled(c0)
  BY Zenon, <1>2 DEF AInv, Local
<1>4. s \in Seq(Block) /\ Len(s) \in Nat /\ next \in Block
  BY Zenon, <1>0, <1>2, SeqFacts, BlockFacts
<1>5. Len(s) + 1 \in Pos
  <2>1. Len(s) < next /\ next \in 1..MaxBlocks /\ MaxBlocks \in Nat
    BY Zenon, <1>3, <1>4, AggregatorConstants DEF Filled, Block
  <2> QED
    BY <1>4, <2>1 DEF Pos
<1>6. Append(s, next) \in Seq(Block)
  BY Zenon, <1>4, AppendFacts
<1>7. /\ keys_blocks' \in [Chunk -> Seq(Block)] /\ keys_blocks'[c0] = Append(s, next)
      /\ \A c \in Chunk \ {c0} : keys_blocks'[c] = keys_blocks[c]
  BY Zenon, <1>0, <1>1, <1>2, <1>6 DEF QueueBlock, TypeOK
<1>8. vals_blocks[c0] = IF isDataNeeded THEN s ELSE <<>>
  BY Zenon, <1>3 DEF Filled
<1>9. /\ vals_blocks' \in [Chunk -> Seq(Block)] /\ vals_blocks'[c0] = (IF isDataNeeded THEN keys_blocks'[c0] ELSE <<>>)
      /\ \A c \in Chunk \ {c0} : vals_blocks'[c] = vals_blocks[c]
  <2>1. CASE isDataNeeded
    <3>1. vals_blocks' = [vals_blocks EXCEPT ![c0] = Append(s, next)]
      BY Zenon, <1>1, <1>2, <1>8, <2>1 DEF QueueBlock
    <3> QED
      BY Zenon, <1>0, <1>2, <1>6, <1>7, <2>1, <3>1 DEF TypeOK
  <2>2. CASE ~isDataNeeded
    <3>1. vals_blocks' = vals_blocks
      BY Zenon, <1>1, <1>2, <2>2 DEF QueueBlock
    <3> QED
      BY Zenon, <1>0, <1>8, <2>2, <3>1 DEF TypeOK
  <2> QED
    BY Zenon, <2>1, <2>2
<1>10. kc \in CopyType /\ vc \in CopyType
  BY <1>2, <1>4, <1>5 DEF CopyType
<1>11. /\ kc.buf = "keys" /\ kc.chunk = c0 /\ kc.pos = Len(s) + 1 /\ kc.block = next
       /\ vc.buf = "vals" /\ vc.chunk = c0 /\ vc.pos = Len(s) + 1 /\ vc.block = next
  OBVIOUS
<1>12. copy_stream' = (copy_stream \o <<kc>>) \o (IF isDataNeeded THEN <<vc>> ELSE <<>>)
  <2>1. isDataNeeded => vals_blocks[c0] = s
    BY Zenon, <1>8
  <2>2. copy_stream' = (copy_stream \o <<kc>>) \o (IF is_vals_needed
             THEN <<[buf |-> "vals", chunk |-> c0, pos |-> Len(vals_blocks[c0]) + 1, block |-> next]>> ELSE <<>>)
    BY Zenon, <1>1 DEF QueueBlock
  <2> QED
    BY Zenon, <1>2, <2>1, <2>2
<1> HIDE DEF kc, vc
<1>13. /\ copy_stream' \in Seq(CopyType) /\ \A k \in DOMAIN copy_stream' : copy_stream'[k] \in {kc, vc}
       /\ 1 \in DOMAIN copy_stream' /\ copy_stream'[1] = kc
       /\ isDataNeeded => 2 \in DOMAIN copy_stream' /\ copy_stream'[2] = vc
  <2>1. CASE isDataNeeded
    <3>1. copy_stream' = (<<>> \o <<kc>>) \o <<vc>>
      BY Zenon, <1>2, <1>12, <2>1
    <3>a. <<>> \o <<kc>> = <<kc>>
      BY <1>10
    <3>b. copy_stream' = <<kc>> \o <<vc>>
      BY Zenon, <3>1, <3>a
    <3>c. <<kc>> \in Seq(CopyType) /\ <<vc>> \in Seq(CopyType) /\ Len(<<kc>>) = 1 /\ Len(<<vc>>) = 1
      BY <1>10
    <3>2. copy_stream' \in Seq(CopyType) /\ Len(copy_stream') = 2
      BY <3>b, <3>c
    <3>3. copy_stream'[1] = kc /\ copy_stream'[2] = vc
      BY <3>b, <3>c
    <3>4. DOMAIN copy_stream' = {1, 2}
      BY <3>2
    <3> QED
      BY Zenon, <2>1, <3>2, <3>3, <3>4
  <2>2. CASE ~isDataNeeded
    <3>1. copy_stream' = (<<>> \o <<kc>>) \o <<>>
      BY Zenon, <1>2, <1>12, <2>2
    <3>2. copy_stream' = <<kc>>
      BY <1>10, <3>1
    <3> QED
      BY <1>10, <2>2, <3>2
  <2> QED
    BY Zenon, <2>1, <2>2
<1>14. /\ \A k \in DOMAIN copy_stream' :
            copy_stream'[k].chunk = c0 /\ copy_stream'[k].block = next /\ copy_stream'[k].pos = Len(s) + 1
       /\ \E k \in DOMAIN copy_stream' : copy_stream'[k].buf = "keys"
       /\ isDataNeeded => \E k \in DOMAIN copy_stream' : copy_stream'[k].buf = "vals"
  BY Zenon, <1>11, <1>13
<1> QED
  BY Zenon, <1>1, <1>7, <1>9, <1>13, <1>14 DEF Queued

LEMMA QueueTakes ==
    ASSUME AInv, Queued(curr_filling_chunk)
    PROVE  AInv'
<1> DEFINE c0 == curr_filling_chunk
           s == keys_blocks[c0]
           q == Len(s) + 1
<1>0. TypeOK /\ Query /\ Copies /\ \A c \in Chunk : Handing(c) /\ Filled(c) /\ InFlight(c)
  BY Zenon DEF AInv, Local
<1>1. /\ main = "queue" /\ main' = "sync" /\ next' = next + 1 /\ owner' = [owner EXCEPT ![c0] = "free"]
      /\ input' = input /\ todo' = todo /\ i' = i /\ curr_filling_chunk' = c0
      /\ is_vals_needed' = is_vals_needed /\ started' = started /\ cuda_processing_state' = cuda_processing_state
      /\ keys_buf' = keys_buf /\ vals_buf' = vals_buf /\ worker' = worker /\ alive' = alive
      /\ group_nums' = group_nums /\ add_bulk' = add_bulk /\ table_keys' = table_keys
      /\ offsets_known' = offsets_known /\ group_agg_res' = group_agg_res /\ values_read' = values_read
  BY Zenon DEF Queued
<1>2. /\ c0 \in Chunk /\ ~Early /\ started /\ todo = "queue" /\ next <= Len(input) /\ Target = c0
      /\ copy_stream = <<>> /\ DOMAIN copy_stream = {}
  <2>1. c0 \in Chunk /\ ~Early /\ todo = "queue" /\ next <= Len(input) /\ copy_stream = <<>>
    BY Zenon, <1>0, <1>1, TargetFacts DEF Query, TypeOK, Copies
  <2>2. DOMAIN <<>> = {}
    OBVIOUS
  <2> QED
    BY Zenon, <2>1, <2>2 DEF Early, Target
<1>3. /\ keys_blocks' \in [Chunk -> Seq(Block)] /\ vals_blocks' \in [Chunk -> Seq(Block)]
      /\ \A c \in Chunk \ {c0} : keys_blocks'[c] = keys_blocks[c] /\ vals_blocks'[c] = vals_blocks[c]
      /\ keys_blocks'[c0] = Append(s, next)
      /\ vals_blocks'[c0] = IF isDataNeeded THEN keys_blocks'[c0] ELSE <<>>
      /\ copy_stream' \in Seq(CopyType)
      /\ \A k \in DOMAIN copy_stream' :
            copy_stream'[k].chunk = c0 /\ copy_stream'[k].block = next /\ copy_stream'[k].pos = q
      /\ \E k \in DOMAIN copy_stream' : copy_stream'[k].buf = "keys"
      /\ isDataNeeded => \E k \in DOMAIN copy_stream' : copy_stream'[k].buf = "vals"
  BY Zenon DEF Queued
<1>4. /\ s \in Seq(Block) /\ Len(s) \in Nat /\ next \in Block /\ next \in DOMAIN input
      /\ \A c \in Chunk : Len(keys_blocks[c]) \in Nat /\ Numbers(keys_blocks[c]) \subseteq Block
  BY Zenon, <1>0, <1>2, SeqFacts, BlockFacts
<1>5. /\ Len(Append(s, next)) = q /\ DOMAIN Append(s, next) = DOMAIN s \union {q} /\ q \notin DOMAIN s
      /\ Append(s, next)[q] = next /\ \A p \in DOMAIN s : Append(s, next)[p] = s[p]
      /\ Numbers(Append(s, next)) = Numbers(s) \union {next}
  BY <1>4, AppendFacts
<1>6. /\ next \in Nat /\ next' \in 1..(Len(input) + 1) /\ next' - 1 = next /\ ~(next < next) /\ next < next'
      /\ \A n \in Nat : n < next => n < next'
      /\ \A j \in Block : (j < next' <=> j < next \/ j = next)
      /\ q < next'
  <2>1. next \in Nat /\ next >= 1 /\ Len(input) \in Nat /\ Block \subseteq Nat
    BY Zenon, <1>0, InputFacts, BlockFacts
  <2>2. Len(s) < next
    BY Zenon, <1>0, <1>2 DEF Filled
  <2> QED
    BY <1>1, <1>2, <1>4, <2>1, <2>2
<1>a. owner' \in [Chunk -> {"free", "main", "worker"}] /\ \A c \in Chunk \ {c0} : owner'[c] = owner[c]
  BY Zenon, <1>0, <1>1, <1>2 DEF TypeOK
<1>b. ~cuda_processing_state[c0] /\ worker[c0] \notin {"wait", "add_data", "add_bulk", "offsets", "exited"}
  <2>1. Handing(c0) /\ ~cuda_processing_state[c0] /\ owner[c0] = "main"
    BY Zenon, <1>0, <1>1, <1>2 DEF Handing
  <2> QED
    BY Zenon, <2>1 DEF Handing
<1> HIDE DEF c0, s, q
<1>7. TypeOK'
  BY Zenon, <1>0, <1>1, <1>3, <1>6, <1>a, <1>2 DEF TypeOK, MainLabel
<1>8. ~Early'
  BY Zenon, <1>1, <1>2 DEF Early
<1>9. Query'
  BY Zenon, <1>0, <1>1, <1>2, <1>8 DEF Query
<1>10. Copies'
  BY Zenon, <1>1, <1>3, <1>5, <1>6 DEF Copies
<1>11. ASSUME NEW c \in Chunk
       PROVE  Handing(c)'
  <2>1. Handing(c) /\ (c # c0 => keys_blocks'[c] = keys_blocks[c])
    BY Zenon, <1>0, <1>3
  <2>2. c # c0 => (Rowless(c)' <=> Rowless(c))
    BY Zenon, <1>1, <2>1 DEF Rowless
  <2>3. c = c0 => worker[c] \notin {"wait", "add_data", "add_bulk", "offsets", "exited"}
    BY Zenon, <1>b
  <2>4. Target' = c0 /\ (cuda_processing_state[c] \/ c = c0 \/ keys_blocks[c] = <<>>)
    BY Zenon, <1>1, <1>2, <2>1 DEF Target, Handing, c0
  <2> QED
    BY Zenon, <1>1, <1>2, <1>8, <1>a, <1>b, <2>1, <2>2, <2>3, <2>4 DEF Handing
<1>12. ASSUME NEW c \in Chunk
       PROVE  Filled(c)'
  <2>0. Filled(c) /\ \A b, p : ~Pending(b, c, p)
    BY Zenon, <1>0, <1>2 DEF Pending
  <2>1. CASE c # c0
    <3>1. keys_blocks'[c] = keys_blocks[c] /\ vals_blocks'[c] = vals_blocks[c]
      BY Zenon, <1>3, <2>1
    <3>2. Len(keys_blocks[c]) < next' /\ \A j \in Numbers(keys_blocks[c]) : j < next'
      BY Zenon, <1>4, <1>6, <2>0 DEF Filled
    <3> QED
      BY Zenon, <1>1, <1>8, <2>0, <3>1, <3>2 DEF Filled
  <2>2. CASE c = c0
    <3>1. Injective(s) /\ next \notin Numbers(s)
      BY Zenon, <1>6, <2>0, <2>2 DEF Filled, s
    <3>2. Injective(Append(s, next))
      BY Zenon, <1>5, <3>1 DEF Injective, Numbers
    <3>3. \A j \in Numbers(s) \union {next} : j < next'
      BY Zenon, <1>4, <1>6, <2>0, <2>2 DEF Filled, s
    <3>4. ASSUME NEW p \in DOMAIN Append(s, next)
          PROVE  /\ keys_buf[c][p] = Append(s, next)[p] \/ Pending("keys", c, p)'
                 /\ isDataNeeded => vals_buf[c][p] = Append(s, next)[p] \/ Pending("vals", c, p)'
      <4>1. CASE p \in DOMAIN s
        BY Zenon, <1>5, <2>0, <2>2, <4>1 DEF Filled, s
      <4>2. CASE p = q
        BY Zenon, <1>3, <2>2, <4>2 DEF Pending
      <4> QED
        BY Zenon, <1>5, <4>1, <4>2
    <3>5. vals_blocks'[c] = (IF isDataNeeded THEN keys_blocks'[c] ELSE <<>>) /\ keys_blocks'[c] = Append(s, next)
      BY Zenon, <1>3, <2>2
    <3> QED
      BY Zenon, <1>1, <1>5, <1>6, <1>8, <1>b, <2>2, <3>2, <3>3, <3>4, <3>5 DEF Filled
  <2> QED
    BY Zenon, <2>1, <2>2
<1>13. ASSUME NEW c \in Chunk
       PROVE  InFlight(c)'
  BY Zenon, <1>0, <1>1, <1>8 DEF InFlight
<1>14. Active = Chunk /\ Active' = Chunk /\ main # "threw"
  BY Zenon, <1>1 DEF Active
<1>15. Placed /\ \A c \in Chunk : Accounted(c) /\ Keyed(c)
  BY Zenon, <1>14 DEF AInv
<1>16. \A c \in Chunk, j \in Block : (With(c, j)' <=> With(c, j) \/ (c = c0 /\ j = next)) /\ (With(c, j) => j < next)
  <2>1. \A c \in Chunk, j \in Block : j \in Numbers(keys_blocks'[c]) <=> j \in Numbers(keys_blocks[c]) \/ (c = c0 /\ j = next)
    <3>1. \A c \in Chunk \ {c0} : Numbers(keys_blocks'[c]) = Numbers(keys_blocks[c])
      BY Zenon, <1>3
    <3>2. Numbers(keys_blocks'[c0]) = Numbers(keys_blocks[c0]) \union {next}
      BY Zenon, <1>3, <1>5 DEF s
    <3> QED
      BY <3>1, <3>2
  <2> QED
    BY Zenon, <1>1, <1>15, <2>1 DEF With, Accounted
<1>17. Placed'
  <2>1. ASSUME NEW c \in Chunk, NEW d \in Chunk, NEW j \in Block, With(c, j)', With(d, j)'
        PROVE  c = d
    BY Zenon, <1>6, <1>14, <1>15, <1>16, <2>1 DEF Placed
  <2>2. ASSUME NEW j \in Block, j < next', input'[j].rows > 0
        PROVE  \E c \in Chunk : With(c, j)'
    BY Zenon, <1>1, <1>2, <1>6, <1>14, <1>15, <1>16, <2>2 DEF Placed
  <2> QED
    BY Zenon, <1>14, <2>1, <2>2 DEF Placed
<1>18. ASSUME NEW c \in Chunk
       PROVE  Accounted(c)'
  <2>1. Accounted(c) /\ (c # c0 => keys_blocks'[c] = keys_blocks[c])
    BY Zenon, <1>3, <1>15
  <2>2. group_agg_res[c][next] = 0 /\ next \notin Numbers(add_bulk[c])
    BY Zenon, <1>4, <1>6, <1>16 DEF With
  <2>3. Numbers(keys_blocks'[c]) \subseteq Numbers(keys_blocks[c]) \union {next}
    BY Zenon, <1>3, <1>5 DEF s
  <2>4. \A j \in Block : With(c, j)' => j < next'
    BY Zenon, <1>6, <1>16
  <2> QED
    BY Zenon, <1>1, <1>2, <1>8, <2>1, <2>2, <2>3, <2>4 DEF Accounted
<1>19. ASSUME NEW c \in Chunk
       PROVE  Keyed(c)'
  <2>1. Keyed(c) /\ (worker[c] = "add_bulk" => keys_blocks'[c] = keys_blocks[c])
    BY Zenon, <1>3, <1>15, <1>b
  <2> QED
    BY Zenon, <1>1, <1>2, <1>8, <2>1 DEF Keyed
<1>20. DiesOnlyIfExceeded' /\ ValuesAreNeverStale' /\ \A c \in Chunk : table_keys'[c] \subseteq AllKeys'
  BY Zenon, <1>1, StaysAlive DEF AInv, ValuesAreNeverStale, AllKeys
<1> QED
  BY Zenon, <1>7, <1>9, <1>10, <1>11, <1>12, <1>13, <1>14, <1>17, <1>18, <1>19, <1>20 DEF AInv, Local

LEMMA tryQueueDataStep == ASSUME Least, AInv, tryQueueData PROVE AInv'
<1>1. CASE HasSpace(curr_filling_chunk, next)
  BY Zenon, <1>1, QueueBlockFacts, QueueTakes
<1>2. CASE ~HasSpace(curr_filling_chunk, next)
  BY Zenon, <1>2, QueueLeaves
<1> QED
  BY Zenon, <1>1, <1>2
-----------------------------------------------------------------------------
\* The hash tables: merging the chunks, and erasing what is already empty

LEMMA MergeThrows ==
    ASSUME AInv, MergeChunk, Cardinality(table_keys[0] \union table_keys[i]) > hash_table_max_size
    PROVE  AInv'
<1>0. TypeOK /\ Query /\ Copies /\ \A c \in Chunk : Handing(c)
  BY Zenon DEF AInv, Local
<1>1. /\ main = "merge" /\ main' = "threw"
      /\ UNCHANGED data /\ input' = input /\ next' = next /\ todo' = todo /\ i' = i
      /\ curr_filling_chunk' = curr_filling_chunk /\ is_vals_needed' = is_vals_needed /\ started' = started
      /\ cuda_processing_state' = cuda_processing_state /\ worker' = worker /\ alive' = alive /\ owner' = owner
      /\ offsets_known' = offsets_known /\ keys_blocks' = keys_blocks /\ copy_stream' = copy_stream
  BY Zenon DEF MergeChunk, data, aggr, buffers, device
<1>4. TypeOK'
  BY Zenon, <1>0, <1>1, ControlTypes DEF TypeOK, MainLabel
<1>5. Early' <=> Early
  BY Zenon, <1>1 DEF Early
<1>6. Query'
  BY Zenon, <1>0, <1>1, <1>5 DEF Query
<1>7. Copies'
  BY Zenon, <1>0, <1>1, CopiesKeep DEF Copies
<1>8. ASSUME NEW c \in Chunk
      PROVE  Handing(c)'
  <2>1. Handing(c) /\ (Rowless(c)' <=> Rowless(c))
    BY Zenon, <1>0, <1>1 DEF Rowless
  <2> QED
    BY Zenon, <1>1, <1>5, <2>1 DEF Handing
<1>9. DiesOnlyIfExceeded'
  BY Zenon, <1>1, StaysAlive
<1> QED
  BY Zenon, <1>1, <1>4, <1>5, <1>6, <1>7, <1>8, <1>9, ControlStep DEF Moves

LEMMA MergeMerges ==
    ASSUME AInv, MergeChunk, ~(Cardinality(table_keys[0] \union table_keys[i]) > hash_table_max_size)
    PROVE  AInv'
<1> DEFINE merged == table_keys[0] \union table_keys[i]
           g == [j \in Block |-> group_agg_res[0][j] + group_agg_res[i][j]]
<1>0. TypeOK /\ Query /\ Copies /\ \A c \in Chunk : Handing(c) /\ Filled(c) /\ InFlight(c)
  BY Zenon DEF AInv, Local
<1>1. /\ main = "merge" /\ i < chunks_num /\ i' = i + 1 /\ main' = main
      /\ table_keys' = [table_keys EXCEPT ![0] = merged]
      /\ offsets_known' = [offsets_known EXCEPT ![i] = table_keys[i]]
      /\ group_agg_res' = [group_agg_res EXCEPT ![0] = g]
      /\ group_nums' = group_nums /\ add_bulk' = add_bulk /\ values_read' = values_read
      /\ input' = input /\ next' = next /\ todo' = todo
      /\ curr_filling_chunk' = curr_filling_chunk /\ is_vals_needed' = is_vals_needed /\ started' = started
      /\ cuda_processing_state' = cuda_processing_state /\ worker' = worker /\ alive' = alive /\ owner' = owner
      /\ keys_blocks' = keys_blocks /\ vals_blocks' = vals_blocks
      /\ keys_buf' = keys_buf /\ vals_buf' = vals_buf /\ copy_stream' = copy_stream
  BY Zenon DEF MergeChunk, MergedAggregates, buffers, device
<1>2. /\ started /\ todo = "end_marker" /\ i > 0 /\ \A c \in Chunk : worker[c] = "exited"
      /\ i \in 0..chunks_num
  BY Zenon, <1>0, <1>1 DEF Query, TypeOK
<1>3. /\ i \in Chunk /\ 0 \in Chunk /\ i # 0 /\ i' > 0 /\ i' \in 0..chunks_num
      /\ \A c \in Chunk : c >= i <=> c >= i' \/ c = i
      /\ ~(i >= i')
  BY <1>1, <1>2, ChunkFacts
<1>4. Active = Active' \union {i} /\ i \notin Active' /\ 0 \in Active' /\ Active' \subseteq Chunk
  <2>1. Active = {0} \union {c \in Chunk : c >= i} /\ Active' = {0} \union {c \in Chunk : c >= i'}
    BY Zenon, <1>1 DEF Active
  <2> QED
    BY Zenon, <1>3, <2>1
<1>5. Placed /\ \A c \in Active : c \in Chunk /\ Accounted(c) /\ Keyed(c)
  BY Zenon, <1>1, <1>3, <1>4 DEF AInv
<1>6. \A c \in Chunk, j \in Block : group_agg_res[c][j] \in Nat
  BY Zenon, <1>0 DEF TypeOK
<1>7. \A j \in Block : /\ g[j] \in Nat /\ (g[j] # 0 <=> group_agg_res[0][j] # 0 \/ group_agg_res[i][j] # 0)
                       /\ group_agg_res[0][j] = 0 => g[j] = group_agg_res[i][j]
                       /\ group_agg_res[i][j] = 0 => g[j] = group_agg_res[0][j]
  BY <1>3, <1>6
<1>8. g \in [Block -> Nat]
  BY Zenon, <1>7
<1> HIDE DEF g
<1>9. /\ group_agg_res' \in [Chunk -> [Block -> Nat]] /\ group_agg_res'[0] = g
      /\ table_keys' \in [Chunk -> SUBSET Key] /\ table_keys'[0] = merged
      /\ offsets_known' \in [Chunk -> SUBSET Key]
      /\ \A c \in Chunk \ {0} : group_agg_res'[c] = group_agg_res[c] /\ table_keys'[c] = table_keys[c]
  <2>1. table_keys[0] \in SUBSET Key /\ table_keys[i] \in SUBSET Key
    BY Zenon, <1>0, <1>3 DEF TypeOK
  <2>2. merged \in SUBSET Key
    BY Zenon, <2>1
  <2> QED
    BY Zenon, <1>0, <1>1, <1>3, <1>8, <2>1, <2>2 DEF TypeOK
<1>10. TypeOK'
  BY Zenon, <1>0, <1>1, <1>3, <1>9 DEF TypeOK
<1>11. (Early' <=> Early) /\ ~Early
  BY Zenon, <1>1, <1>2 DEF Early
<1>12. Query'
  BY Zenon, <1>0, <1>1, <1>2, <1>3, <1>11 DEF Query
<1>13. Copies'
  BY Zenon, <1>0, <1>1, CopiesKeep DEF Copies
<1>14. ASSUME NEW c \in Chunk
       PROVE  Local(c)'
  <2>1. Handing(c) /\ Filled(c) /\ InFlight(c) /\ worker[c] = "exited"
    BY Zenon, <1>0, <1>2
  <2>2. (Rowless(c)' <=> Rowless(c)) /\ \A b, p : Pending(b, c, p)' <=> Pending(b, c, p)
    BY Zenon, <1>1 DEF Rowless, Pending
  <2>3. Handing(c)'
    BY Zenon, <1>1, <1>11, <2>1, <2>2 DEF Handing
  <2>4. Filled(c)'
    BY Zenon, <1>1, <1>11, <2>1, <2>2 DEF Filled
  <2>5. InFlight(c)'
    BY Zenon, <1>1, <1>11, <2>1 DEF InFlight
  <2> QED
    BY Zenon, <2>3, <2>4, <2>5 DEF Local
<1>15. /\ \A c \in Chunk \ {0}, j \in Block : With(c, j)' <=> With(c, j)
       /\ \A j \in Block : With(0, j)' <=> With(0, j) \/ group_agg_res[i][j] # 0
  BY Zenon, <1>1, <1>3, <1>7, <1>9 DEF With
<1>16. \A j \in Block : group_agg_res[i][j] # 0 => With(i, j) /\ ~With(0, j)
  <2>1. i \in Active /\ 0 \in Active /\ \A j \in Block : group_agg_res[i][j] # 0 => With(i, j)
    BY Zenon, <1>4 DEF With
  <2> QED
    BY Zenon, <1>3, <1>5, <2>1 DEF Placed
<1>17. Placed'
  <2>1. ASSUME NEW c \in Active', NEW d \in Active', NEW j \in Block, With(c, j)', With(d, j)'
        PROVE  c = d
    <3>1. c \in Active /\ d \in Active /\ i \in Active /\ c # i /\ d # i
      BY Zenon, <1>4
    <3>2. \A e \in Active' : With(e, j)' => With(e, j) \/ (e = 0 /\ With(i, j))
      BY Zenon, <1>4, <1>15, <1>16
    <3> QED
      BY Zenon, <1>5, <2>1, <3>1, <3>2 DEF Placed
  <2>2. ASSUME NEW j \in Block, j < next', input'[j].rows > 0
        PROVE  \E c \in Active' : With(c, j)'
    <3>1. PICK c \in Active : With(c, j)
      BY Zenon, <1>1, <1>5, <2>2 DEF Placed
    <3>2. CASE c # i
      BY Zenon, <1>4, <1>15, <3>1, <3>2
    <3>3. CASE c = i
      <4>1. Rowless(i) /\ add_bulk[i] = <<>>
        BY Zenon, <1>0, <1>2, <1>3 DEF Handing, InFlight
      <4>2. ~(0 > 0)
        OBVIOUS
      <4>3. group_agg_res[i][j] # 0
        BY Zenon, <1>1, <2>2, <3>1, <3>3, <4>1, <4>2, NothingIn DEF With, Rowless
      <4> QED
        BY Zenon, <1>4, <1>15, <4>3
    <3> QED
      BY Zenon, <3>2, <3>3
  <2> QED
    BY Zenon, <2>1, <2>2 DEF Placed
<1>18. ASSUME NEW c \in Active'
       PROVE  Accounted(c)' /\ Keyed(c)'
  <2>0. c \in Active /\ c \in Chunk /\ i \in Active /\ Accounted(c) /\ Keyed(c) /\ Accounted(i) /\ Keyed(i)
    BY Zenon, <1>4, <1>5
  <2>1. CASE c # 0
    BY Zenon, <1>1, <1>9, <1>15, <2>0, <2>1 DEF Accounted, Keyed
  <2>2. CASE c = 0
    <3>1. ASSUME NEW j \in Block
          PROVE  /\ With(0, j)' => j < next'
                 /\ g[j] <= 1
                 /\ j \in Numbers(keys_blocks[0]) => g[j] = 0 /\ j \notin Numbers(add_bulk[0])
                 /\ j \in Numbers(add_bulk[0]) => g[j] = 0
      <4>1. With(0, j)' => j < next'
        BY Zenon, <1>1, <1>15, <1>16, <2>0, <2>2 DEF Accounted
      <4>2. CASE group_agg_res[i][j] = 0
        BY Zenon, <1>7, <2>0, <2>2, <4>1, <4>2 DEF Accounted
      <4>3. CASE group_agg_res[i][j] # 0
        BY Zenon, <1>7, <1>16, <2>0, <4>1, <4>3 DEF Accounted, With
      <4> QED
        BY Zenon, <4>2, <4>3
    <3>2. Accounted(0)'
      BY Zenon, <1>1, <1>9, <3>1 DEF Accounted
    <3>3. ASSUME NEW j \in Block, j \in Numbers(add_bulk[0]) \/ g[j] # 0
          PROVE  input[j].keys \subseteq merged
      <4>1. input[j].keys \subseteq table_keys[0] \/ input[j].keys \subseteq table_keys[i]
        BY Zenon, <1>7, <2>0, <2>2, <3>3 DEF Keyed
      <4> QED
        BY Zenon, <4>1
    <3>4. worker'[0] # "add_bulk"
      BY Zenon, <1>1, <1>2, <1>3
    <3>5. Keyed(0)'
      BY Zenon, <1>1, <1>9, <3>3, <3>4 DEF Keyed
    <3> QED
      BY Zenon, <2>2, <3>2, <3>5
  <2> QED
    BY Zenon, <2>1, <2>2
<1>19. DiesOnlyIfExceeded' /\ ValuesAreNeverStale'
  BY Zenon, <1>1, StaysAlive DEF AInv, ValuesAreNeverStale
<1>20. \A c \in Chunk : table_keys'[c] \subseteq AllKeys'
  <2>1. AllKeys' = AllKeys /\ merged \subseteq AllKeys
    BY Zenon, <1>1, <1>3 DEF AInv, AllKeys
  <2> QED
    BY Zenon, <1>9, <2>1 DEF AInv
<1> QED
  BY Zenon, <1>10, <1>12, <1>13, <1>14, <1>17, <1>18, <1>19, <1>20 DEF AInv

LEMMA MergeChunkStep == ASSUME AInv, MergeChunk PROVE AInv'
BY Zenon, MergeThrows, MergeMerges

LEMMA WorkerEraseStep == ASSUME AInv, NEW c \in Chunk, WorkerErase(c) PROVE AInv'
<1>0. TypeOK /\ Query /\ Handing(c) /\ InFlight(c)
  BY Zenon DEF AInv, Local
<1>1. /\ worker[c] = "erase" /\ worker' = [worker EXCEPT ![c] = "lock"]
      /\ table_keys' = [table_keys EXCEPT ![c] = {}]
      /\ group_agg_res' = [group_agg_res EXCEPT ![c] = [j \in Block |-> 0]]
      /\ UNCHANGED <<query, cuda_processing_state, alive>> /\ owner' = owner /\ offsets_known' = offsets_known
      /\ input' = input /\ next' = next /\ buffers' = buffers /\ device' = device /\ group_nums' = group_nums
      /\ add_bulk' = add_bulk /\ values_read' = values_read /\ keys_blocks' = keys_blocks
  BY Zenon DEF WorkerErase, workerOnly, query, buffers
<1>2. table_keys[c] = {} /\ \A j \in Block : group_agg_res[c][j] = 0
  BY Zenon, <1>0, <1>1 DEF InFlight
<1>3. table_keys \in [Chunk -> SUBSET Key] /\ group_agg_res \in [Chunk -> [Block -> Nat]] /\ group_agg_res[c] \in [Block -> Nat]
  BY Zenon, <1>0 DEF TypeOK
<1>4. group_agg_res[c] = [j \in Block |-> 0]
  BY <1>2, <1>3
<1>5. table_keys' = table_keys /\ group_agg_res' = group_agg_res
  BY <1>1, <1>2, <1>3, <1>4
<1>6. UNCHANGED data
  BY Zenon, <1>1, <1>5 DEF data
<1>7. worker'[c] = "lock" /\ "lock" \in WorkerLabel
  BY Zenon, <1>0, <1>1 DEF TypeOK, WorkerLabel
<1>8. Handing(c)'
  <2>1. /\ input' = input /\ main' = main /\ todo' = todo /\ i' = i /\ curr_filling_chunk' = curr_filling_chunk
        /\ started' = started /\ cuda_processing_state' = cuda_processing_state
    BY Zenon, <1>1 DEF query
  <2>2. (Rowless(c)' <=> Rowless(c)) /\ Target' = Target /\ (Early' <=> Early)
    BY Zenon, <1>1, <2>1 DEF Rowless, Target, Early
  <2> QED
    BY Zenon, <1>0, <1>1, <1>7, <2>1, <2>2 DEF Handing
<1> QED
  BY Zenon, <1>0, <1>1, <1>6, <1>7, <1>8, WorkerControl DEF Moves, TypeOK
-----------------------------------------------------------------------------
\* The worker: addData and the way back of a chunk

\* What is known of cardinalities
Counting ==
    /\ \A S, T : IsFiniteSet(T) /\ S \subseteq T => IsFiniteSet(S) /\ Cardinality(S) <= Cardinality(T)
    /\ \A S : IsFiniteSet(S) => Cardinality(S) \in Nat
    /\ Cardinality({}) = 0 /\ \A x : Cardinality({x}) = 1

\* No copy goes into the buffer of a chunk that was handed over
LEMMA NoPending ==
    ASSUME AInv, NEW c \in Chunk, cuda_processing_state[c]
    PROVE  /\ \A b, p : ~Pending(b, c, p)
           /\ copy_stream # <<>> => curr_filling_chunk # c
<1>1. TypeOK /\ Query /\ Copies /\ Handing(c)
  BY Zenon DEF AInv, Local
<1>2. copy_stream # <<>> => curr_filling_chunk # c
  <2>1. copy_stream # <<>> => main = "sync" /\ Target = curr_filling_chunk
    BY Zenon, <1>1 DEF Copies, Query, Target
  <2> QED
    BY Zenon, <1>1, <2>1 DEF Handing
<1>3. DOMAIN <<>> = {}
  OBVIOUS
<1> QED
  BY Zenon, <1>1, <1>2, <1>3 DEF Copies, Pending

LEMMA KeysReadFacts ==
    ASSUME AInv, NEW c \in Chunk, worker[c] = "add_data"
    PROVE  KeysRead(c) = keys_blocks[c]
<1>1. TypeOK /\ Handing(c) /\ Filled(c)
  BY Zenon DEF AInv, Local
<1>2. \A p \in DOMAIN keys_blocks[c] : keys_buf[c][p] = keys_blocks[c][p]
  BY Zenon, <1>1, NoPending DEF Handing, Filled
<1>3. keys_blocks[c] \in Seq(Block) /\ DOMAIN keys_blocks[c] = 1..Len(keys_blocks[c])
  BY Zenon, <1>1, SeqFacts
<1> QED
  BY <1>2, <1>3 DEF KeysRead

LEMMA KeysOfFacts ==
    ASSUME AInv, NEW c \in Chunk
    PROVE  /\ KeysOf(keys_blocks[c]) \subseteq AllKeys /\ KeysOf(keys_blocks[c]) \subseteq Key
           /\ \A j \in Numbers(keys_blocks[c]) : input[j].keys \subseteq KeysOf(keys_blocks[c])
<1> DEFINE s == keys_blocks[c]
<1>1. TypeOK /\ Filled(c)
  BY Zenon DEF AInv, Local
<1>2. \A p \in DOMAIN s : s[p] \in Numbers(s) /\ s[p] \in Block /\ s[p] < next
  BY Zenon, <1>1, SeqFacts DEF Filled, Numbers
<1>3. \A p \in DOMAIN s : s[p] \in DOMAIN input /\ s[p] # Unset /\ input[s[p]].keys \subseteq Key
  BY Zenon, <1>1, <1>2, BlockFacts, InputFacts
<1> HIDE DEF s
<1>4. KeysOf(s) \subseteq AllKeys /\ KeysOf(s) \subseteq Key
  BY Zenon, <1>3 DEF KeysOf, AllKeys
<1>5. \A j \in Numbers(s) : input[j].keys \subseteq KeysOf(s)
  BY Zenon, <1>3 DEF KeysOf, Numbers
<1> QED
  BY Zenon, <1>4, <1>5 DEF s

LEMMA AddDataThrows ==
    ASSUME Counting, AInv, NEW c \in Chunk, WorkerAddData(c),
           Cardinality(table_keys[c] \union KeysOf(KeysRead(c))) > hash_table_max_size
    PROVE  AInv'
<1> DEFINE added == table_keys[c] \union KeysOf(KeysRead(c))
<1>0. TypeOK /\ Query /\ Copies /\ \A d \in Chunk : Handing(d)
  BY Zenon DEF AInv, Local
<1>1. /\ worker[c] = "add_data" /\ alive' = FALSE /\ main' = main
      /\ UNCHANGED data /\ input' = input /\ next' = next /\ todo' = todo /\ i' = i
      /\ curr_filling_chunk' = curr_filling_chunk /\ is_vals_needed' = is_vals_needed /\ started' = started
      /\ cuda_processing_state' = cuda_processing_state /\ worker' = worker /\ owner' = owner
      /\ offsets_known' = offsets_known /\ keys_blocks' = keys_blocks /\ copy_stream' = copy_stream
  BY Zenon DEF WorkerAddData, workerOnly, query, data, buffers, device
<1>4. TypeOK'
  BY Zenon, <1>0, <1>1, ControlTypes DEF TypeOK
<1>5. Early' <=> Early
  BY Zenon, <1>1 DEF Early
<1>6. Query'
  BY Zenon, <1>0, <1>1, <1>5 DEF Query
<1>7. Copies'
  BY Zenon, <1>1, CopiesKeep
<1>8. ASSUME NEW d \in Chunk
      PROVE  Handing(d)'
  <2>1. Handing(d) /\ (Rowless(d)' <=> Rowless(d)) /\ Target' = Target
    BY Zenon, <1>0, <1>1 DEF Rowless, Target
  <2> QED
    BY Zenon, <1>1, <1>5, <2>1 DEF Handing
<1>9. DiesOnlyIfExceeded'
  <2>1. added \subseteq AllKeys
    BY Zenon, <1>1, KeysReadFacts, KeysOfFacts DEF AInv
  <2>2. AllKeys \subseteq Key /\ IsFiniteSet(Key)
    BY Zenon, <1>0, InputFacts, AggregatorConstants DEF AllKeys
  <2>3. /\ IsFiniteSet(AllKeys) /\ Cardinality(added) <= Cardinality(AllKeys)
        /\ Cardinality(added) \in Nat /\ Cardinality(AllKeys) \in Nat
    BY Zenon, <2>1, <2>2 DEF Counting
  <2>4. hash_table_max_size \in Nat /\ Cardinality(added) > hash_table_max_size
    BY Zenon, AggregatorConstants
  <2> HIDE DEF added
  <2>5. Cardinality(AllKeys) > hash_table_max_size
    BY <2>3, <2>4
  <2>6. AllKeys' = AllKeys /\ (main' = "assert_failed" => input' = <<>>)
    BY Zenon, <1>1 DEF AllKeys, AInv, DiesOnlyIfExceeded
  <2> QED
    BY Zenon, <2>5, <2>6 DEF DiesOnlyIfExceeded
<1>10. Active' = Active
  BY Zenon, <1>1 DEF Active
<1> QED
  BY Zenon, <1>1, <1>4, <1>5, <1>6, <1>7, <1>8, <1>9, <1>10, ControlStep DEF Moves

LEMMA AddDataAdds ==
    ASSUME AInv, NEW c \in Chunk, WorkerAddData(c),
           ~(Cardinality(table_keys[c] \union KeysOf(KeysRead(c))) > hash_table_max_size)
    PROVE  AInv'
<1> DEFINE added == table_keys[c] \union KeysOf(keys_blocks[c])
<1>0. TypeOK /\ Query /\ Copies /\ \A d \in Chunk : Handing(d) /\ Filled(d) /\ InFlight(d)
  BY Zenon DEF AInv, Local
<1>1. /\ worker[c] = "add_data" /\ add_bulk[c] = <<>> /\ worker' = [worker EXCEPT ![c] = "add_bulk"]
      /\ table_keys' = [table_keys EXCEPT ![c] = added] /\ group_nums' = [group_nums EXCEPT ![c] = keys_blocks[c]]
      /\ input' = input /\ next' = next /\ main' = main /\ todo' = todo /\ i' = i /\ alive' = alive
      /\ curr_filling_chunk' = curr_filling_chunk /\ is_vals_needed' = is_vals_needed /\ started' = started
      /\ cuda_processing_state' = cuda_processing_state /\ owner' = owner
      /\ keys_blocks' = keys_blocks /\ vals_blocks' = vals_blocks
      /\ keys_buf' = keys_buf /\ vals_buf' = vals_buf /\ copy_stream' = copy_stream
      /\ add_bulk' = add_bulk /\ offsets_known' = offsets_known /\ group_agg_res' = group_agg_res
      /\ values_read' = values_read
  <2>1. worker[c] = "add_data"
    BY Zenon DEF WorkerAddData
  <2>2. KeysRead(c) = keys_blocks[c]
    BY Zenon, <2>1, KeysReadFacts
  <2> QED
    BY Zenon, <2>2 DEF WorkerAddData, workerOnly, query, buffers, device
<1>2. /\ added \subseteq AllKeys /\ added \in SUBSET Key /\ table_keys[c] \subseteq added
      /\ \A j \in Numbers(keys_blocks[c]) : input[j].keys \subseteq added
  <2>1. table_keys[c] \subseteq AllKeys /\ table_keys[c] \subseteq Key
    BY Zenon, <1>0 DEF AInv, TypeOK
  <2> QED
    BY Zenon, <2>1, KeysOfFacts
<1>3. keys_blocks[c] \in Seq(Block \union {Unset})
  <2>1. keys_blocks[c] \in Seq(Block)
    BY Zenon, <1>0, SeqFacts
  <2> QED
    BY <2>1
<1> HIDE DEF added
<1>4. /\ worker' \in [Chunk -> WorkerLabel] /\ worker'[c] = "add_bulk"
      /\ table_keys' \in [Chunk -> SUBSET Key] /\ table_keys'[c] = added
      /\ group_nums' \in [Chunk -> Seq(Block \union {Unset})] /\ group_nums'[c] = keys_blocks[c]
      /\ \A d \in Chunk \ {c} : worker'[d] = worker[d] /\ table_keys'[d] = table_keys[d] /\ group_nums'[d] = group_nums[d]
  BY Zenon, <1>0, <1>1, <1>2, <1>3 DEF TypeOK, WorkerLabel
<1>5. TypeOK'
  BY Zenon, <1>0, <1>1, <1>4 DEF TypeOK
<1>6. (Early' <=> Early) /\ ~Early /\ Active = Chunk /\ Active' = Chunk
  BY Zenon, <1>0, <1>1 DEF Early, Active, Handing, Query
<1>7. Query'
  <2>1. \A d \in Chunk : worker[d] = "exited" => worker'[d] = "exited"
    BY Zenon, <1>1, <1>4
  <2> QED
    BY Zenon, <1>0, <1>1, <1>6, <2>1 DEF Query
<1>8. Copies'
  BY Zenon, <1>1, CopiesKeep
<1>9. ASSUME NEW d \in Chunk
      PROVE  Local(d)'
  <2>1. /\ Handing(d) /\ Filled(d) /\ InFlight(d) /\ (Rowless(d)' <=> Rowless(d)) /\ Target' = Target
        /\ \A b, p : Pending(b, d, p)' <=> Pending(b, d, p)
    BY Zenon, <1>0, <1>1 DEF Rowless, Target, Pending
  <2>2. CASE d # c
    <3>1. worker'[d] = worker[d] /\ table_keys'[d] = table_keys[d] /\ group_nums'[d] = group_nums[d]
      BY Zenon, <1>4, <2>2
    <3>2. Handing(d)'
      BY Zenon, <1>1, <1>6, <2>1, <3>1 DEF Handing
    <3>3. Filled(d)'
      BY Zenon, <1>1, <1>6, <2>1, <3>1 DEF Filled
    <3>4. InFlight(d)'
      BY Zenon, <1>1, <1>6, <2>1, <3>1 DEF InFlight
    <3> QED
      BY Zenon, <3>2, <3>3, <3>4 DEF Local
  <2>3. CASE d = c
    <3>2. Handing(c)'
      BY Zenon, <1>1, <1>4, <1>6, <2>1, <2>3 DEF Handing
    <3>3. Filled(c)'
      BY Zenon, <1>1, <1>4, <1>6, <2>1, <2>3 DEF Filled
    <3>4. InFlight(c)'
      BY Zenon, <1>1, <1>4, <1>6, <2>1, <2>3 DEF InFlight
    <3> QED
      BY Zenon, <2>3, <3>2, <3>3, <3>4 DEF Local
  <2> QED
    BY Zenon, <2>2, <2>3
<1>10. ASSUME main' # "threw"
       PROVE  Placed' /\ \A d \in Chunk : Accounted(d)' /\ Keyed(d)'
  <2>1. Placed /\ \A d \in Chunk : Accounted(d) /\ Keyed(d)
    BY Zenon, <1>1, <1>6, <1>10 DEF AInv
  <2>2. \A d, j : With(d, j)' <=> With(d, j)
    BY Zenon, <1>1 DEF With
  <2>3. Placed'
    BY Zenon, <1>1, <1>6, <2>1, <2>2 DEF Placed
  <2>4. \A d \in Chunk : Accounted(d)'
    BY Zenon, <1>1, <2>1, <2>2 DEF Accounted
  <2>5. \A d \in Chunk \ {c} : Keyed(d)'
    BY Zenon, <1>1, <1>4, <2>1 DEF Keyed
  <2>6. Keyed(c)'
    <3>1. ASSUME NEW j \in Block, group_agg_res[c][j] # 0
          PROVE  input[j].keys \subseteq added
      <4>1. input[j].keys \subseteq table_keys[c]
        BY Zenon, <2>1, <3>1 DEF Keyed
      <4> QED
        BY Zenon, <1>2, <4>1
    <3> QED
      BY Zenon, <1>1, <1>2, <1>4, <3>1, NothingIn DEF Keyed
  <2> QED
    BY Zenon, <2>3, <2>4, <2>5, <2>6
<1>11. DiesOnlyIfExceeded' /\ ValuesAreNeverStale' /\ AllKeys' = AllKeys
  BY Zenon, <1>1, StaysAlive DEF AInv, ValuesAreNeverStale, AllKeys
<1>12. \A d \in Chunk : table_keys'[d] \subseteq AllKeys'
  BY Zenon, <1>2, <1>4, <1>11 DEF AInv
<1> QED
  BY Zenon, <1>5, <1>6, <1>7, <1>8, <1>9, <1>10, <1>11, <1>12 DEF AInv

LEMMA WorkerAddDataStep == ASSUME Counting, AInv, NEW c \in Chunk, WorkerAddData(c) PROVE AInv'
BY Zenon, AddDataThrows, AddDataAdds

LEMMA NoneFacts == Len(<<>>) = 0 /\ DOMAIN <<>> = {} /\ Numbers(<<>>) = {} /\ Injective(<<>>)
BY DEF Numbers, Injective

LEMMA WorkerGiveBackStep == ASSUME AInv, NEW c \in Chunk, WorkerGiveBack(c) PROVE AInv'
<1>0. TypeOK /\ Query /\ Copies /\ \A d \in Chunk : Handing(d) /\ Filled(d) /\ InFlight(d)
  BY Zenon DEF AInv, Local
<1>1. /\ worker[c] = "add_bulk" /\ worker' = [worker EXCEPT ![c] = "lock"]
      /\ add_bulk' = [add_bulk EXCEPT ![c] = group_nums[c]]
      /\ keys_blocks' = [keys_blocks EXCEPT ![c] = <<>>] /\ vals_blocks' = [vals_blocks EXCEPT ![c] = <<>>]
      /\ cuda_processing_state' = [cuda_processing_state EXCEPT ![c] = FALSE]
      /\ main' = (IF main = "asleep" /\ Target = c THEN "lock" ELSE main)
      /\ owner' = [owner EXCEPT ![c] = "free"]
      /\ input' = input /\ next' = next /\ todo' = todo /\ i' = i /\ alive' = alive
      /\ curr_filling_chunk' = curr_filling_chunk /\ is_vals_needed' = is_vals_needed /\ started' = started
      /\ keys_buf' = keys_buf /\ vals_buf' = vals_buf /\ copy_stream' = copy_stream
      /\ group_nums' = group_nums /\ table_keys' = table_keys /\ offsets_known' = offsets_known
      /\ group_agg_res' = group_agg_res /\ values_read' = values_read
  BY Zenon DEF WorkerGiveBack, reset, device
<1>2. /\ owner[c] = "worker" /\ cuda_processing_state[c] /\ ~Early /\ add_bulk[c] = <<>>
      /\ group_nums[c] = keys_blocks[c]
  BY Zenon, <1>0, <1>1 DEF Handing, InFlight, Filled
<1>3. main' = main \/ (main = "asleep" /\ main' = "lock")
  BY Zenon, <1>1
<1>4. <<>> \in Seq(Block) /\ 0 < next
  <2>1. next \in Nat /\ 1 <= next
    BY Zenon, <1>0, InputFacts
  <2> QED
    BY <2>1
<1>5. /\ worker' \in [Chunk -> WorkerLabel] /\ worker'[c] = "lock"
      /\ add_bulk' \in [Chunk -> Seq(Block \union {Unset})] /\ add_bulk'[c] = keys_blocks[c]
      /\ keys_blocks' \in [Chunk -> Seq(Block)] /\ keys_blocks'[c] = <<>>
      /\ vals_blocks' \in [Chunk -> Seq(Block)] /\ vals_blocks'[c] = <<>>
      /\ cuda_processing_state' \in [Chunk -> BOOLEAN] /\ cuda_processing_state'[c] = FALSE
      /\ owner' \in [Chunk -> {"free", "main", "worker"}] /\ owner'[c] = "free"
  BY Zenon, <1>0, <1>1, <1>2, <1>4 DEF TypeOK, WorkerLabel
<1>6. \A d \in Chunk \ {c} :
          /\ worker'[d] = worker[d] /\ add_bulk'[d] = add_bulk[d] /\ keys_blocks'[d] = keys_blocks[d]
          /\ vals_blocks'[d] = vals_blocks[d] /\ cuda_processing_state'[d] = cuda_processing_state[d]
          /\ owner'[d] = owner[d]
  BY Zenon, <1>0, <1>1 DEF TypeOK
<1>7. TypeOK'
  <2>1. main' \in MainLabel
    BY Zenon, <1>0, <1>3 DEF TypeOK, MainLabel
  <2> QED
    BY Zenon, <1>0, <1>1, <1>5, <2>1 DEF TypeOK
<1>8. ~Early' /\ Active = Chunk /\ Active' = Chunk
  BY Zenon, <1>0, <1>1, <1>2, <1>3 DEF Early, Active, Query
<1>9. Query'
  <2>1. \A d \in Chunk : worker[d] = "exited" => worker'[d] = "exited"
    BY Zenon, <1>1, <1>6
  <2> QED
    BY Zenon, <1>0, <1>1, <1>2, <1>3, <1>8, <2>1 DEF Query
<1>10. Copies'
  <2>1. CASE copy_stream = <<>>
    BY Zenon, <1>1, <2>1, NoneFacts DEF Copies
  <2>2. CASE copy_stream # <<>>
    <3>1. main = "sync" /\ main' = "sync" /\ curr_filling_chunk # c /\ curr_filling_chunk \in Chunk
      BY Zenon, <1>0, <1>2, <1>3, <2>2, NoPending DEF Copies, TypeOK
    <3>2. keys_blocks'[curr_filling_chunk] = keys_blocks[curr_filling_chunk]
      BY Zenon, <1>6, <3>1
    <3> QED
      BY Zenon, <1>0, <1>1, <3>1, <3>2 DEF Copies
  <2> QED
    BY Zenon, <2>1, <2>2
<1>11. ASSUME NEW d \in Chunk
       PROVE  Handing(d)'
  <2>0. Handing(d) /\ Target' = Target
    BY Zenon, <1>0, <1>1 DEF Target
  <2>1. CASE d # c
    <3>1. /\ worker'[d] = worker[d] /\ keys_blocks'[d] = keys_blocks[d]
          /\ cuda_processing_state'[d] = cuda_processing_state[d] /\ owner'[d] = owner[d]
      BY Zenon, <1>6, <2>1
    <3>2. Rowless(d)' <=> Rowless(d)
      BY Zenon, <1>1, <3>1 DEF Rowless
    <3> QED
      BY Zenon, <1>1, <1>3, <1>8, <2>0, <3>1, <3>2 DEF Handing
  <2>2. CASE d = c
    <3>1. ~(main \in {"wait", "queue", "flush", "hand_over", "end_marker"} /\ c = Target)
      BY Zenon, <1>2, <2>0, <2>2 DEF Handing
    <3>2. Rowless(c)'
      BY Zenon, <1>5, NoneFacts DEF Rowless
    <3> QED
      BY Zenon, <1>1, <1>3, <1>5, <1>8, <2>0, <2>2, <3>1, <3>2 DEF Handing
  <2> QED
    BY Zenon, <2>1, <2>2
<1>12. ASSUME NEW d \in Chunk
       PROVE  Filled(d)'
  <2>0. Filled(d) /\ \A b, p : Pending(b, d, p)' <=> Pending(b, d, p)
    BY Zenon, <1>0, <1>1 DEF Pending
  <2>1. CASE d # c
    <3>1. worker'[d] = worker[d] /\ keys_blocks'[d] = keys_blocks[d] /\ vals_blocks'[d] = vals_blocks[d]
      BY Zenon, <1>6, <2>1
    <3> QED
      BY Zenon, <1>1, <1>8, <2>0, <3>1 DEF Filled
  <2>2. CASE d = c
    BY Zenon, <1>1, <1>4, <1>5, <1>8, <2>2, NoneFacts DEF Filled
  <2> QED
    BY Zenon, <2>1, <2>2
<1>13. ASSUME NEW d \in Chunk
       PROVE  InFlight(d)'
  <2>0. InFlight(d)
    BY Zenon, <1>0
  <2>1. CASE d # c
    <3>1. worker'[d] = worker[d] /\ add_bulk'[d] = add_bulk[d]
      BY Zenon, <1>6, <2>1
    <3> QED
      BY Zenon, <1>1, <1>8, <2>0, <3>1 DEF InFlight
  <2>2. CASE d = c
    <3>1. Filled(c) /\ \A b, p : ~Pending(b, c, p)
      BY Zenon, <1>0, <1>2, NoPending
    <3>2. Len(keys_blocks[c]) <= MaxBlocks
      <4>1. /\ Len(keys_blocks[c]) < next /\ Len(keys_blocks[c]) \in Nat /\ next \in Nat /\ next <= Len(input) + 1
            /\ Len(input) \in Nat /\ Len(input) <= MaxBlocks /\ MaxBlocks \in Nat
        BY Zenon, <1>0, <3>1, InputFacts, SeqFacts, AggregatorConstants DEF Filled
      <4> QED
        BY <4>1
    <3>3. \A p \in DOMAIN keys_blocks[c] : keys_blocks[c][p] \in Block /\ keys_blocks[c][p] <= keys_blocks[c][p]
      <4>1. \A j \in Nat : j <= j
        OBVIOUS
      <4> QED
        BY Zenon, <1>0, <4>1, SeqFacts, BlockFacts
    <3>4. \A p \in DOMAIN keys_blocks[c] : isDataNeeded => vals_buf[c][p] = keys_blocks[c][p]
      BY Zenon, <3>1 DEF Filled
    <3>5. Injective(keys_blocks[c])
      BY Zenon, <3>1 DEF Filled
    <3> QED
      BY Zenon, <1>1, <1>5, <1>8, <2>2, <3>2, <3>3, <3>4, <3>5 DEF InFlight
  <2> QED
    BY Zenon, <2>1, <2>2
<1>14. ASSUME main' # "threw"
       PROVE  Placed' /\ \A d \in Chunk : Accounted(d)' /\ Keyed(d)'
  <2>1. Placed /\ \A d \in Chunk : Accounted(d) /\ Keyed(d)
    BY Zenon, <1>3, <1>8, <1>14 DEF AInv
  <2>2. ASSUME NEW d \in Chunk, NEW j
        PROVE  /\ With(d, j)' <=> With(d, j)
               /\ d # c => keys_blocks'[d] = keys_blocks[d] /\ add_bulk'[d] = add_bulk[d] /\ worker'[d] = worker[d]
    <3>1. CASE d # c
      BY Zenon, <1>1, <1>6, <3>1 DEF With
    <3>2. CASE d = c
      BY Zenon, <1>1, <1>2, <1>5, <3>2, NoneFacts DEF With
    <3> QED
      BY Zenon, <3>1, <3>2
  <2>3. Placed'
    <3>1. \A d \in Chunk : \A j : With(d, j)' <=> With(d, j)
      BY Zenon, <2>2
    <3>2. input' = input /\ next' = next
      BY Zenon, <1>1
    <3>3. \A d, e \in Chunk : \A j \in Block : With(d, j)' /\ With(e, j)' => d = e
      BY Zenon, <1>8, <2>1, <3>1 DEF Placed
    <3>4. \A j \in Block : j < next /\ input[j].rows > 0 => \E d \in Chunk : With(d, j)'
      BY Zenon, <1>8, <2>1, <3>1 DEF Placed
    <3> QED
      BY Zenon, <1>8, <3>2, <3>3, <3>4 DEF Placed
  <2>4. ASSUME NEW d \in Chunk
        PROVE  Accounted(d)' /\ Keyed(d)'
    <3>1. CASE d # c
      BY Zenon, <1>1, <2>1, <2>2, <3>1 DEF Accounted, Keyed
    <3>2. CASE d = c
      <4>1. Accounted(c) /\ Keyed(c) /\ \A j : With(c, j)' <=> With(c, j)
        BY Zenon, <2>1, <2>2
      <4>2. Accounted(c)'
        BY Zenon, <1>1, <1>5, <4>1, NoneFacts DEF Accounted
      <4>3. Keyed(c)'
        BY Zenon, <1>1, <1>5, <4>1, NoneFacts DEF Keyed
      <4> QED
        BY Zenon, <3>2, <4>2, <4>3
    <3> QED
      BY Zenon, <3>1, <3>2
  <2> QED
    BY Zenon, <2>3, <2>4
<1>15. DiesOnlyIfExceeded' /\ ValuesAreNeverStale' /\ \A d \in Chunk : table_keys'[d] \subseteq AllKeys'
  BY Zenon, <1>1, <1>3, StaysAlive DEF AInv, ValuesAreNeverStale, AllKeys
<1> QED
  BY Zenon, <1>7, <1>8, <1>9, <1>10, <1>11, <1>12, <1>13, <1>14, <1>15 DEF AInv, Local
-----------------------------------------------------------------------------
\* The GPU

\* What a copy does to a buffer
LEMMA CopyFacts ==
    ASSUME NEW buf \in [Chunk -> [Pos -> Block \union {Unset}]], NEW c \in Chunk, NEW p \in Pos, NEW j \in Block,
           NEW new, new = [buf EXCEPT ![c][p] = j]
    PROVE  /\ new \in [Chunk -> [Pos -> Block \union {Unset}]] /\ new[c][p] = j
           /\ \A d \in Chunk, q \in Pos : new[d][q] = buf[d][q] \/ (d = c /\ q = p /\ new[d][q] = j)
OBVIOUS

LEMMA RunCopyStep == ASSUME AInv, RunCopy PROVE AInv'
<1> DEFINE copy == copy_stream[1]
           c0 == curr_filling_chunk
           p0 == copy.pos
           j0 == copy.block
<1>0. TypeOK /\ Query /\ Copies /\ \A d \in Chunk : Handing(d) /\ Filled(d) /\ InFlight(d)
  BY Zenon DEF AInv, Local
<1>1. /\ copy_stream # <<>> /\ copy_stream' = Tail(copy_stream)
      /\ keys_buf' = (IF Head(copy_stream).buf = "keys" THEN
              [keys_buf EXCEPT ![Head(copy_stream).chunk][Head(copy_stream).pos] = Head(copy_stream).block] ELSE keys_buf)
      /\ vals_buf' = (IF Head(copy_stream).buf = "vals" THEN
              [vals_buf EXCEPT ![Head(copy_stream).chunk][Head(copy_stream).pos] = Head(copy_stream).block] ELSE vals_buf)
      /\ input' = input /\ next' = next /\ main' = main /\ todo' = todo /\ i' = i /\ alive' = alive
      /\ curr_filling_chunk' = c0 /\ is_vals_needed' = is_vals_needed /\ started' = started
      /\ cuda_processing_state' = cuda_processing_state /\ owner' = owner /\ worker' = worker
      /\ keys_blocks' = keys_blocks /\ vals_blocks' = vals_blocks
      /\ group_nums' = group_nums /\ add_bulk' = add_bulk /\ table_keys' = table_keys
      /\ offsets_known' = offsets_known /\ group_agg_res' = group_agg_res /\ values_read' = values_read
  BY Zenon DEF RunCopy, query, buffers, aggr
<1>2. main = "sync" /\ copy_stream \in Seq(CopyType) /\ c0 \in Chunk
  BY Zenon, <1>0, <1>1 DEF Copies, TypeOK
<1>3. /\ Head(copy_stream) = copy /\ 1 \in DOMAIN copy_stream /\ copy \in CopyType
      /\ copy_stream' \in Seq(CopyType)
      /\ \A k \in DOMAIN copy_stream' : k + 1 \in DOMAIN copy_stream /\ copy_stream'[k] = copy_stream[k + 1]
      /\ \A k \in DOMAIN copy_stream : k = 1 \/ (k - 1 \in DOMAIN copy_stream' /\ copy_stream'[k - 1] = copy_stream[k])
  BY <1>1, <1>2
<1>4. /\ copy.buf \in {"keys", "vals"} /\ copy.chunk = c0 /\ p0 \in Pos /\ j0 \in Block
      /\ j0 = next - 1 /\ p0 \in DOMAIN keys_blocks[c0] /\ keys_blocks[c0][p0] = j0
  <2>1. copy.buf \in {"keys", "vals"} /\ p0 \in Pos /\ j0 \in Block
    BY <1>3 DEF CopyType
  <2> QED
    BY Zenon, <1>0, <1>3, <2>1 DEF Copies
<1>5. \/ /\ copy.buf = "keys" /\ keys_buf' = [keys_buf EXCEPT ![c0][p0] = j0] /\ vals_buf' = vals_buf
      \/ /\ copy.buf = "vals" /\ vals_buf' = [vals_buf EXCEPT ![c0][p0] = j0] /\ keys_buf' = keys_buf
  BY Zenon, <1>1, <1>3, <1>4
<1> HIDE DEF copy, c0, p0, j0
<1>6. /\ keys_buf' \in [Chunk -> [Pos -> Block \union {Unset}]]
      /\ vals_buf' \in [Chunk -> [Pos -> Block \union {Unset}]]
      /\ copy.buf = "keys" => keys_buf'[c0][p0] = j0
      /\ copy.buf = "vals" => vals_buf'[c0][p0] = j0
      /\ \A d \in Chunk, q \in Pos : /\ keys_buf'[d][q] = keys_buf[d][q] \/ (d = c0 /\ q = p0 /\ keys_buf'[d][q] = j0)
                                     /\ vals_buf'[d][q] = vals_buf[d][q] \/ (d = c0 /\ q = p0 /\ vals_buf'[d][q] = j0)
  <2>1. keys_buf \in [Chunk -> [Pos -> Block \union {Unset}]] /\ vals_buf \in [Chunk -> [Pos -> Block \union {Unset}]]
    BY Zenon, <1>0 DEF TypeOK
  <2>2. CASE copy.buf = "keys"
    <3>1. keys_buf' = [keys_buf EXCEPT ![c0][p0] = j0] /\ vals_buf' = vals_buf /\ copy.buf # "vals"
      BY Zenon, <1>5, <2>2
    <3>2. /\ keys_buf' \in [Chunk -> [Pos -> Block \union {Unset}]] /\ keys_buf'[c0][p0] = j0
          /\ \A d \in Chunk, q \in Pos : keys_buf'[d][q] = keys_buf[d][q] \/ (d = c0 /\ q = p0 /\ keys_buf'[d][q] = j0)
      BY <1>2, <1>4, <2>1, <3>1, CopyFacts
    <3> QED
      BY Zenon, <2>1, <3>1, <3>2
  <2>3. CASE copy.buf = "vals"
    <3>1. vals_buf' = [vals_buf EXCEPT ![c0][p0] = j0] /\ keys_buf' = keys_buf /\ copy.buf # "keys"
      BY Zenon, <1>5, <2>3
    <3>2. /\ vals_buf' \in [Chunk -> [Pos -> Block \union {Unset}]] /\ vals_buf'[c0][p0] = j0
          /\ \A d \in Chunk, q \in Pos : vals_buf'[d][q] = vals_buf[d][q] \/ (d = c0 /\ q = p0 /\ vals_buf'[d][q] = j0)
      BY <1>2, <1>4, <2>1, <3>1, CopyFacts
    <3> QED
      BY Zenon, <2>1, <3>1, <3>2
  <2> QED
    BY Zenon, <1>4, <2>2, <2>3
<1>7. TypeOK'
  BY Zenon, <1>0, <1>1, <1>2, <1>3, <1>6 DEF TypeOK
<1>8. (Early' <=> Early) /\ Active = Chunk /\ Active' = Chunk /\ Target' = Target
  BY Zenon, <1>1, <1>2 DEF Early, Active, Target, c0
<1>9. Query'
  BY Zenon, <1>0, <1>1, <1>8 DEF Query
<1>10. Copies'
  <2>1. \A k \in DOMAIN copy_stream' : \E m \in DOMAIN copy_stream : copy_stream'[k] = copy_stream[m]
    BY Zenon, <1>3
  <2>2. main' = "sync" /\ next' = next /\ keys_blocks' = keys_blocks /\ curr_filling_chunk' = curr_filling_chunk
    BY Zenon, <1>1, <1>2 DEF c0
  <2> QED
    BY Zenon, <1>0, <2>1, <2>2 DEF Copies
<1>11. \A d \in Chunk : DOMAIN keys_blocks[d] \subseteq Pos /\ \A p \in DOMAIN add_bulk[d] : p \in Pos /\ add_bulk[d][p] <= j0
  <2> SUFFICES ASSUME NEW d \in Chunk
               PROVE  DOMAIN keys_blocks[d] \subseteq Pos /\ \A p \in DOMAIN add_bulk[d] : p \in Pos /\ add_bulk[d][p] <= j0
    OBVIOUS
  <2>1. /\ Len(keys_blocks[d]) < next /\ Len(keys_blocks[d]) \in Nat /\ next \in Nat /\ next <= Len(input) + 1
        /\ Len(input) \in Nat /\ Len(input) <= MaxBlocks /\ MaxBlocks \in Nat
        /\ DOMAIN keys_blocks[d] = 1..Len(keys_blocks[d])
    BY Zenon, <1>0, InputFacts, SeqFacts, AggregatorConstants DEF Filled
  <2>2. add_bulk[d] \in Seq(Block \union {Unset}) /\ Len(add_bulk[d]) <= MaxBlocks
    BY Zenon, <1>0 DEF TypeOK, InFlight
  <2>3. DOMAIN keys_blocks[d] \subseteq Pos /\ DOMAIN add_bulk[d] \subseteq Pos
    BY <2>1, <2>2 DEF Pos
  <2>4. Accounted(d)
    BY Zenon, <1>2, <1>8 DEF AInv
  <2>5. \A p \in DOMAIN add_bulk[d] : add_bulk[d][p] \in Block /\ add_bulk[d][p] < next
    BY Zenon, <1>0, <2>4 DEF InFlight, Accounted, With, Numbers
  <2>6. \A j \in Block : j < next => j <= j0
    BY <1>4, <2>1 DEF Block
  <2> QED
    BY Zenon, <2>3, <2>5, <2>6
<1>12. ASSUME NEW d \in Chunk
       PROVE  Local(d)'
  <2>0. Handing(d) /\ Filled(d) /\ InFlight(d) /\ (Rowless(d)' <=> Rowless(d))
    BY Zenon, <1>0, <1>1 DEF Rowless
  <2>1. Handing(d)'
    BY Zenon, <1>1, <1>8, <2>0 DEF Handing, c0
  <2>2. ASSUME NEW p \in DOMAIN keys_blocks[d]
        PROVE  /\ keys_buf'[d][p] = keys_blocks[d][p] \/ Pending("keys", d, p)'
               /\ isDataNeeded => vals_buf'[d][p] = keys_blocks[d][p] \/ Pending("vals", d, p)'
    <3>1. p \in Pos /\ (d = c0 /\ p = p0 => keys_blocks[d][p] = j0)
      BY Zenon, <1>4, <1>11
    <3>2. \A b : Pending(b, d, p) => Pending(b, d, p)' \/ (copy.buf = b /\ d = c0 /\ p = p0)
      BY Zenon, <1>3, <1>4 DEF Pending, copy, p0
    <3>3. keys_buf[d][p] = keys_blocks[d][p] => keys_buf'[d][p] = keys_blocks[d][p]
      BY Zenon, <1>6, <3>1
    <3>4. vals_buf[d][p] = keys_blocks[d][p] => vals_buf'[d][p] = keys_blocks[d][p]
      BY Zenon, <1>6, <3>1
    <3>5. keys_buf'[d][p] = keys_blocks[d][p] \/ Pending("keys", d, p)'
      BY Zenon, <1>6, <2>0, <3>1, <3>2, <3>3 DEF Filled
    <3>6. isDataNeeded => vals_buf'[d][p] = keys_blocks[d][p] \/ Pending("vals", d, p)'
      BY Zenon, <1>6, <2>0, <3>1, <3>2, <3>4 DEF Filled
    <3> QED
      BY Zenon, <3>5, <3>6
  <2>3. Filled(d)'
    BY Zenon, <1>1, <1>8, <2>0, <2>2 DEF Filled
  <2>4. \A p \in DOMAIN add_bulk[d] : isDataNeeded => vals_buf'[d][p] \in Block /\ add_bulk[d][p] <= vals_buf'[d][p]
    BY Zenon, <1>4, <1>6, <1>11, <2>0 DEF InFlight
  <2>5. InFlight(d)'
    BY Zenon, <1>1, <1>8, <2>0, <2>4 DEF InFlight
  <2> QED
    BY Zenon, <2>1, <2>3, <2>5 DEF Local
<1>13. Placed' /\ \A d \in Chunk : Accounted(d)' /\ Keyed(d)'
  <2>1. Placed /\ \A d \in Chunk : Accounted(d) /\ Keyed(d)
    BY Zenon, <1>2, <1>8 DEF AInv
  <2>2. \A d, j : With(d, j)' <=> With(d, j)
    BY Zenon, <1>1 DEF With
  <2>3. Placed'
    BY Zenon, <1>1, <1>8, <2>1, <2>2 DEF Placed
  <2>4. \A d \in Chunk : Accounted(d)' /\ Keyed(d)'
    BY Zenon, <1>1, <2>1, <2>2 DEF Accounted, Keyed
  <2> QED
    BY Zenon, <2>3, <2>4
<1>14. DiesOnlyIfExceeded' /\ ValuesAreNeverStale' /\ \A d \in Chunk : table_keys'[d] \subseteq AllKeys'
  BY Zenon, <1>1, StaysAlive DEF AInv, ValuesAreNeverStale, AllKeys
<1> QED
  BY Zenon, <1>7, <1>8, <1>9, <1>10, <1>12, <1>13, <1>14 DEF AInv

\* The kernel adds the rows of a block as often as the block is in its batch
LEMMA BatchFacts ==
    ASSUME Counting, NEW s, Injective(s), NEW j
    PROVE  Cardinality({p \in DOMAIN s : s[p] = j}) = IF j \in Numbers(s) THEN 1 ELSE 0
<1>1. CASE j \in Numbers(s)
  <2>1. PICK p \in DOMAIN s : s[p] = j
    BY Zenon, <1>1 DEF Numbers
  <2>2. {q \in DOMAIN s : s[q] = j} = {p}
    BY Zenon, <2>1 DEF Injective
  <2> QED
    BY Zenon, <1>1, <2>2 DEF Counting
<1>2. CASE j \notin Numbers(s)
  <2>1. {q \in DOMAIN s : s[q] = j} = {}
    BY Zenon, <1>2 DEF Numbers
  <2> QED
    BY Zenon, <1>2, <2>1 DEF Counting
<1> QED
  BY Zenon, <1>1, <1>2

LEMMA RunAddBulkStep == ASSUME Counting, AInv, NEW c \in Chunk, RunAddBulk(c) PROVE AInv'
<1> DEFINE s == add_bulk[c]
           new == {<<s[p], vals_buf[c][p]>> : p \in DOMAIN s}
           g == [j \in Block |-> group_agg_res[c][j] + Cardinality({p \in DOMAIN s : s[p] = j})]
<1>0. TypeOK /\ Query /\ Copies /\ \A d \in Chunk : Handing(d) /\ Filled(d) /\ InFlight(d)
  BY Zenon DEF AInv, Local
<1>1. /\ s # <<>> /\ group_agg_res' = [group_agg_res EXCEPT ![c] = g]
      /\ values_read' = (IF is_vals_needed THEN [values_read EXCEPT ![c] = values_read[c] \union new] ELSE values_read)
      /\ add_bulk' = [add_bulk EXCEPT ![c] = <<>>]
      /\ input' = input /\ next' = next /\ main' = main /\ todo' = todo /\ i' = i /\ alive' = alive
      /\ curr_filling_chunk' = curr_filling_chunk /\ is_vals_needed' = is_vals_needed /\ started' = started
      /\ cuda_processing_state' = cuda_processing_state /\ owner' = owner /\ worker' = worker
      /\ keys_blocks' = keys_blocks /\ vals_blocks' = vals_blocks
      /\ keys_buf' = keys_buf /\ vals_buf' = vals_buf /\ copy_stream' = copy_stream
      /\ group_nums' = group_nums /\ table_keys' = table_keys /\ offsets_known' = offsets_known
  BY Zenon DEF RunAddBulk, query, buffers, device
<1>2. /\ worker[c] \notin {"none", "erase", "add_bulk", "exited"} /\ ~Early /\ Injective(s)
      /\ \A p \in DOMAIN s : s[p] \in Block /\ (isDataNeeded => vals_buf[c][p] \in Block /\ s[p] <= vals_buf[c][p])
  BY Zenon, <1>0, <1>1 DEF InFlight
<1>3. /\ is_vals_needed = isDataNeeded /\ (Early' <=> Early) /\ Active = Chunk /\ Active' = Chunk
      /\ Target' = Target
  BY Zenon, <1>0, <1>1, <1>2 DEF Query, Early, Active, Target
<1>4. \A j \in Block : group_agg_res[c][j] \in Nat
  BY Zenon, <1>0 DEF TypeOK
<1>5. \A j \in Block : g[j] = group_agg_res[c][j] + (IF j \in Numbers(s) THEN 1 ELSE 0)
  BY Zenon, <1>2, BatchFacts
<1> HIDE DEF s
<1>6. \A j \in Block : g[j] = group_agg_res[c][j] + (IF j \in Numbers(s) THEN 1 ELSE 0)
                       => /\ g[j] \in Nat /\ (j \notin Numbers(s) => g[j] = group_agg_res[c][j])
                          /\ j \in Numbers(s) => g[j] # 0 /\ (group_agg_res[c][j] = 0 => g[j] <= 1)
  <2> HIDE DEF g
  <2> QED
    BY <1>4
<1>7. g \in [Block -> Nat]
  BY Zenon, <1>5, <1>6
<1> HIDE DEF g
<1>8. /\ group_agg_res' \in [Chunk -> [Block -> Nat]] /\ group_agg_res'[c] = g
      /\ add_bulk'[c] = <<>> /\ add_bulk' \in [Chunk -> Seq(Block \union {Unset})]
      /\ \A d \in Chunk \ {c} : group_agg_res'[d] = group_agg_res[d] /\ add_bulk'[d] = add_bulk[d]
  <2>1. <<>> \in Seq(Block \union {Unset})
    OBVIOUS
  <2> QED
    BY Zenon, <1>0, <1>1, <1>7, <2>1 DEF TypeOK
<1>9. Block \subseteq Nat /\ Unset \notin Block
  BY Zenon, <1>0, BlockFacts
<1>10. /\ values_read' \in [Chunk -> SUBSET ((Block \union {Unset}) \X (Block \union {Unset}))]
       /\ \A d \in Chunk : \A r \in values_read'[d] : r[1] # Unset /\ r[2] # Unset /\ r[1] <= r[2]
  <2>0. /\ values_read \in [Chunk -> SUBSET ((Block \union {Unset}) \X (Block \union {Unset}))]
        /\ \A d \in Chunk : \A r \in values_read[d] : r[1] # Unset /\ r[2] # Unset /\ r[1] <= r[2]
    BY Zenon, <1>0 DEF AInv, TypeOK, ValuesAreNeverStale
  <2>1. CASE isDataNeeded
    <3>1. ASSUME NEW r \in new
          PROVE  /\ r \in (Block \union {Unset}) \X (Block \union {Unset})
                 /\ r[1] # Unset /\ r[2] # Unset /\ r[1] <= r[2]
      <4>1. PICK p \in DOMAIN s : r = <<s[p], vals_buf[c][p]>>
        BY Zenon, <3>1
      <4>2. s[p] \in Block /\ vals_buf[c][p] \in Block /\ s[p] <= vals_buf[c][p]
        BY Zenon, <1>2, <2>1
      <4>3. r[1] = s[p] /\ r[2] = vals_buf[c][p]
        BY Zenon, <4>1
      <4> QED
        BY Zenon, <1>9, <4>1, <4>2, <4>3
    <3> HIDE DEF new
    <3>2. values_read' = [values_read EXCEPT ![c] = values_read[c] \union new]
      BY Zenon, <1>1, <1>3, <2>1
    <3>3. values_read[c] \union new \in SUBSET ((Block \union {Unset}) \X (Block \union {Unset}))
      BY Zenon, <2>0, <3>1
    <3>4. /\ values_read' \in [Chunk -> SUBSET ((Block \union {Unset}) \X (Block \union {Unset}))]
          /\ values_read'[c] = values_read[c] \union new
          /\ \A d \in Chunk \ {c} : values_read'[d] = values_read[d]
      BY Zenon, <2>0, <3>2, <3>3
    <3>5. ASSUME NEW d \in Chunk, NEW r \in values_read'[d]
          PROVE  r[1] # Unset /\ r[2] # Unset /\ r[1] <= r[2]
      <4>1. r \in values_read[d] \/ r \in new
        BY Zenon, <3>4
      <4> QED
        BY Zenon, <2>0, <3>1, <4>1
    <3> QED
      BY Zenon, <3>4, <3>5
  <2>2. CASE ~isDataNeeded
    BY Zenon, <1>1, <1>3, <2>0, <2>2
  <2> QED
    BY Zenon, <2>1, <2>2
<1>11. TypeOK'
  BY Zenon, <1>0, <1>1, <1>8, <1>10 DEF TypeOK
<1>12. Query'
  BY Zenon, <1>0, <1>1, <1>3 DEF Query
<1>13. Copies'
  BY Zenon, <1>1, CopiesKeep
<1>14. ASSUME NEW d \in Chunk
       PROVE  Local(d)'
  <2>0. /\ Handing(d) /\ Filled(d) /\ InFlight(d) /\ (Rowless(d)' <=> Rowless(d))
        /\ \A b, p : Pending(b, d, p)' <=> Pending(b, d, p)
    BY Zenon, <1>0, <1>1 DEF Rowless, Pending
  <2>1. Handing(d)'
    BY Zenon, <1>1, <1>3, <2>0 DEF Handing
  <2>2. Filled(d)'
    BY Zenon, <1>1, <1>3, <2>0 DEF Filled
  <2>3. CASE d # c
    <3>1. group_agg_res'[d] = group_agg_res[d] /\ add_bulk'[d] = add_bulk[d]
      BY Zenon, <1>8, <2>3
    <3>2. InFlight(d)'
      BY Zenon, <1>1, <1>3, <2>0, <3>1 DEF InFlight
    <3> QED
      BY Zenon, <2>1, <2>2, <3>2 DEF Local
  <2>4. CASE d = c
    <3>1. 0 <= MaxBlocks
      BY AggregatorConstants
    <3>2. InFlight(c)'
      BY Zenon, <1>1, <1>2, <1>3, <1>8, <3>1, NoneFacts DEF InFlight
    <3> QED
      BY Zenon, <2>1, <2>2, <2>4, <3>2 DEF Local
  <2> QED
    BY Zenon, <2>3, <2>4
<1>15. ASSUME main' # "threw"
       PROVE  Placed' /\ \A d \in Chunk : Accounted(d)' /\ Keyed(d)'
  <2>1. Placed /\ \A d \in Chunk : Accounted(d) /\ Keyed(d)
    BY Zenon, <1>1, <1>3, <1>15 DEF AInv
  <2>a. \A j \in Block : j \notin Numbers(s) => g[j] = group_agg_res[c][j]
    BY Zenon, <1>5, <1>6
  <2>b. \A j \in Block : j \in Numbers(s) => g[j] # 0 /\ g[j] <= 1
    BY Zenon, <1>5, <1>6, <2>1 DEF Accounted, s
  <2>2. \A d \in Chunk, j \in Block : With(d, j)' <=> With(d, j)
    <3>1. \A d \in Chunk \ {c}, j \in Block : With(d, j)' <=> With(d, j)
      BY Zenon, <1>1, <1>8 DEF With
    <3>2. \A j \in Block : With(c, j)' <=> With(c, j)
      BY Zenon, <1>1, <1>8, <2>a, <2>b, NoneFacts DEF With, s
    <3> QED
      BY Zenon, <3>1, <3>2
  <2>3. Placed'
    <3>2. input' = input /\ next' = next
      BY Zenon, <1>1
    <3>3. \A d, e \in Chunk : \A j \in Block : With(d, j)' /\ With(e, j)' => d = e
      BY Zenon, <1>3, <2>1, <2>2 DEF Placed
    <3>4. \A j \in Block : j < next /\ input[j].rows > 0 => \E d \in Chunk : With(d, j)'
      BY Zenon, <1>3, <2>1, <2>2 DEF Placed
    <3> QED
      BY Zenon, <1>3, <3>2, <3>3, <3>4 DEF Placed
  <2>4. ASSUME NEW d \in Chunk
        PROVE  Accounted(d)' /\ Keyed(d)'
    <3>1. CASE d # c
      <4>1. group_agg_res'[d] = group_agg_res[d] /\ add_bulk'[d] = add_bulk[d]
        BY Zenon, <1>8, <3>1
      <4> QED
        BY Zenon, <1>1, <2>1, <2>2, <4>1 DEF Accounted, Keyed
    <3>2. CASE d = c
      <4>1. Accounted(c)'
        BY Zenon, <1>1, <1>8, <2>1, <2>2, <2>a, <2>b, NoneFacts DEF Accounted, s
      <4>2. Keyed(c)'
        BY Zenon, <1>1, <1>8, <2>1, <2>a, NoneFacts DEF Keyed, s
      <4> QED
        BY Zenon, <3>2, <4>1, <4>2
    <3> QED
      BY Zenon, <3>1, <3>2
  <2> QED
    BY Zenon, <2>3, <2>4
<1>16. DiesOnlyIfExceeded' /\ ValuesAreNeverStale' /\ \A d \in Chunk : table_keys'[d] \subseteq AllKeys'
  BY Zenon, <1>1, <1>10, StaysAlive DEF AInv, ValuesAreNeverStale, AllKeys
<1> QED
  BY Zenon, <1>3, <1>11, <1>12, <1>13, <1>14, <1>15, <1>16 DEF AInv
-----------------------------------------------------------------------------
\* The whole

LEMMA InitAInv == ASSUME Init PROVE AInv
<1>1. /\ input \in Inputs /\ next = 1 /\ main = "read" /\ todo = "queue" /\ i = 0 /\ curr_filling_chunk = 0
      /\ is_vals_needed = Unset /\ started = FALSE /\ alive = TRUE /\ copy_stream = <<>>
      /\ cuda_processing_state = [c \in Chunk |-> FALSE] /\ owner = [c \in Chunk |-> "free"]
      /\ worker = [c \in Chunk |-> "none"]
  BY Zenon DEF Init
<1>2. /\ keys_blocks = [c \in Chunk |-> <<>>] /\ vals_blocks = [c \in Chunk |-> <<>>]
      /\ keys_buf = [c \in Chunk |-> [p \in Pos |-> Unset]] /\ vals_buf = [c \in Chunk |-> [p \in Pos |-> Unset]]
      /\ group_nums = [c \in Chunk |-> <<>>] /\ add_bulk = [c \in Chunk |-> <<>>]
      /\ table_keys = [c \in Chunk |-> {}] /\ offsets_known = [c \in Chunk |-> {}]
      /\ group_agg_res = [c \in Chunk |-> [j \in Block |-> 0]] /\ values_read = [c \in Chunk |-> {}]
  BY Zenon DEF Init
<1>3. /\ <<>> \in Seq(Block) /\ <<>> \in Seq(CopyType) /\ <<>> \in Seq(Block \union {Unset})
      /\ 0 \in Nat /\ 0 \in 0..chunks_num /\ 0 \in Chunk /\ 0 < 1 /\ 0 <= 1 /\ 0 <= MaxBlocks
      /\ \A j \in Block : ~(j < 1)
  BY AggregatorConstants DEF Chunk, Block
<1>4. 1 \in 1..(Len(input) + 1)
  <2>1. input \in Seq(BlockType)
    BY Zenon, <1>1, AggregatorConstants
  <2> QED
    BY <2>1
<1>5. TypeOK
  <2>1. /\ input \in Inputs /\ next \in 1..(Len(input) + 1) /\ main \in MainLabel
        /\ todo \in {"queue", "hand_over", "end_marker"} /\ i \in 0..chunks_num /\ curr_filling_chunk \in Chunk
        /\ is_vals_needed \in BOOLEAN \union {Unset} /\ started \in BOOLEAN /\ alive \in BOOLEAN
        /\ cuda_processing_state \in [Chunk -> BOOLEAN] /\ owner \in [Chunk -> {"free", "main", "worker"}]
        /\ worker \in [Chunk -> WorkerLabel] /\ copy_stream \in Seq(CopyType)
    BY Zenon, <1>1, <1>3, <1>4 DEF MainLabel, WorkerLabel
  <2>2. /\ keys_blocks \in [Chunk -> Seq(Block)] /\ vals_blocks \in [Chunk -> Seq(Block)]
        /\ keys_buf \in [Chunk -> [Pos -> Block \union {Unset}]] /\ vals_buf \in [Chunk -> [Pos -> Block \union {Unset}]]
    BY Zenon, <1>2, <1>3
  <2>3. /\ group_nums \in [Chunk -> Seq(Block \union {Unset})] /\ add_bulk \in [Chunk -> Seq(Block \union {Unset})]
        /\ table_keys \in [Chunk -> SUBSET Key] /\ offsets_known \in [Chunk -> SUBSET Key]
        /\ group_agg_res \in [Chunk -> [Block -> Nat]]
        /\ values_read \in [Chunk -> SUBSET ((Block \union {Unset}) \X (Block \union {Unset}))]
    BY Zenon, <1>2, <1>3
  <2> QED
    BY Zenon, <2>1, <2>2, <2>3 DEF TypeOK
<1>6. Query /\ Copies
  BY Zenon, <1>1, NoneFacts DEF Query, Copies, Early
<1>7. ASSUME NEW c \in Chunk
      PROVE  Local(c) /\ Accounted(c) /\ Keyed(c)
  <2>1. /\ ~cuda_processing_state[c] /\ owner[c] = "free" /\ worker[c] = "none" /\ keys_blocks[c] = <<>>
        /\ vals_blocks[c] = <<>> /\ add_bulk[c] = <<>> /\ table_keys[c] = {}
        /\ \A j \in Block : group_agg_res[c][j] = 0
    BY Zenon, <1>1, <1>2
  <2>2. Handing(c) /\ Filled(c) /\ InFlight(c)
    BY Zenon, <1>1, <1>3, <2>1, NoneFacts DEF Handing, Filled, InFlight
  <2>3. Accounted(c) /\ Keyed(c)
    BY Zenon, <1>3, <2>1, NoneFacts DEF Accounted, Keyed, With
  <2> QED
    BY Zenon, <2>2, <2>3 DEF Local
<1>8. Active = Chunk
  BY Zenon, <1>1 DEF Active
<1>9. Placed
  <2>1. \A c \in Chunk, j \in Block : ~With(c, j)
    BY Zenon, <1>2, NoneFacts DEF With
  <2> QED
    BY Zenon, <1>1, <1>3, <1>8, <2>1 DEF Placed
<1>10. /\ DiesOnlyIfExceeded /\ ValuesAreNeverStale /\ \A c \in Chunk : table_keys[c] \subseteq AllKeys
  BY Zenon, <1>1, <1>2 DEF DiesOnlyIfExceeded, ValuesAreNeverStale
<1> QED
  BY Zenon, <1>5, <1>6, <1>7, <1>8, <1>9, <1>10 DEF AInv

LEMMA Stutter == ASSUME AInv, UNCHANGED vars PROVE AInv'
<1>0. TypeOK /\ Query /\ Copies /\ \A c \in Chunk : Handing(c)
  BY Zenon DEF AInv, Local
<1>1. /\ UNCHANGED data /\ input' = input /\ next' = next /\ main' = main /\ todo' = todo /\ i' = i
      /\ curr_filling_chunk' = curr_filling_chunk /\ is_vals_needed' = is_vals_needed /\ started' = started
      /\ cuda_processing_state' = cuda_processing_state /\ worker' = worker /\ alive' = alive /\ owner' = owner
      /\ offsets_known' = offsets_known /\ keys_blocks' = keys_blocks /\ copy_stream' = copy_stream
  BY Zenon DEF vars, query, data, aggr, buffers, device
<1>2. TypeOK'
  BY Zenon, <1>0, <1>1, ControlTypes DEF TypeOK
<1>3. (Early' <=> Early) /\ Active' = Active /\ Target' = Target
  BY Zenon, <1>1 DEF Early, Active, Target
<1>4. Query' /\ Copies'
  BY Zenon, <1>0, <1>1, <1>3, CopiesKeep DEF Query
<1>5. ASSUME NEW c \in Chunk
      PROVE  Handing(c)'
  <2>1. Handing(c) /\ (Rowless(c)' <=> Rowless(c))
    BY Zenon, <1>0, <1>1 DEF Rowless
  <2> QED
    BY Zenon, <1>1, <1>3, <2>1 DEF Handing
<1>6. DiesOnlyIfExceeded'
  BY Zenon, <1>1, StaysAlive
<1> QED
  BY Zenon, <1>1, <1>2, <1>3, <1>4, <1>5, <1>6, ControlStep DEF Moves

LEMMA NextAInv == ASSUME Least, Counting, AInv, [Next]_vars PROVE AInv'
<1>1. CASE Main
  BY Zenon, <1>1, ReadBlockStep, ReadEndStep, startProcessingStep, LockStep, WaitStep, tryQueueDataStep,
     FlushChunkStep, waitQueueDataStep, HandOverLastStep, SendEndMarkerStep, JoinThreadStep, MergeChunkStep,
     BuildResultStep DEF Main
<1>2. CASE Gpu
  BY Zenon, <1>2, RunCopyStep, RunAddBulkStep DEF Gpu
<1>3. CASE \E c \in Chunk : Worker(c)
  BY Zenon, <1>3, WorkerEraseStep, WorkerLockStep, WorkerWaitStep, WorkerAddDataStep, WorkerGiveBackStep,
     WorkerExitStep DEF Worker
<1> QED
  BY Zenon, <1>1, <1>2, <1>3, SpuriousWakeupStep, Stutter DEF Next

FST == INSTANCE FiniteSetTheorems
WF  == INSTANCE WellFoundedInduction

LEMMA LeastNumber == Least
<1> DEFINE R == {p \in Nat \X Nat : p[1] < p[2]}
<1>1. WF!IsWellFoundedOn(R, Nat)
  BY Zenon, WF!NatLessThanWellFounded DEF WF!OpToRel
<1>2. ASSUME NEW S \in SUBSET Nat, S # {}
      PROVE  \E m \in S : \A k \in S : m <= k
  <2>1. PICK m \in S : \A k \in S : ~(<<k, m>> \in R)
    BY Zenon, <1>1, <1>2, WF!WFMin
  <2>2. ASSUME NEW k \in S
        PROVE  m <= k
    <3>1. k \in Nat /\ m \in Nat /\ <<k, m>> \in Nat \X Nat
      OBVIOUS
    <3>2. ~(<<k, m>>[1] < <<k, m>>[2])
      BY Zenon, <2>1, <3>1
    <3>3. ~(k < m)
      BY Zenon, <3>2
    <3> QED
      BY <3>1, <3>3
  <2> QED
    BY Zenon, <2>2
<1> QED
  BY Zenon, <1>2 DEF Least

\* Finite sets and cardinalities are those of the model
LEMMA SameCounting == ASSUME NEW S
                      PROVE  FST!Cardinality(S) = Cardinality(S) /\ (FST!IsFiniteSet(S) <=> IsFiniteSet(S))
BY Zenon DEF FST!Cardinality, Cardinality, FST!IsFiniteSet, IsFiniteSet

LEMMA CountingFacts == Counting
<1>1. ASSUME NEW S, NEW T, IsFiniteSet(T), S \subseteq T
      PROVE  IsFiniteSet(S) /\ Cardinality(S) <= Cardinality(T)
  <2>1. FST!IsFiniteSet(T) /\ S \in SUBSET T
    BY Zenon, <1>1, SameCounting
  <2>2. FST!IsFiniteSet(S) /\ FST!Cardinality(S) <= FST!Cardinality(T)
    BY Zenon, <2>1, FST!FS_Subset
  <2>3. FST!Cardinality(S) = Cardinality(S) /\ FST!Cardinality(T) = Cardinality(T) /\ (FST!IsFiniteSet(S) <=> IsFiniteSet(S))
    BY Zenon, SameCounting
  <2> QED
    BY Zenon, <2>2, <2>3
<1>2. ASSUME NEW S, IsFiniteSet(S)
      PROVE  Cardinality(S) \in Nat
  <2>1. FST!IsFiniteSet(S)
    BY Zenon, <1>2, SameCounting
  <2>2. FST!Cardinality(S) \in Nat
    BY Zenon, <2>1, FST!FS_CardinalityType
  <2> QED
    BY Zenon, <2>2, SameCounting
<1>3. Cardinality({}) = 0 /\ \A x : Cardinality({x}) = 1
  BY Zenon, FST!FS_EmptySet, FST!FS_Singleton, SameCounting
<1> QED
  BY Zenon, <1>1, <1>2, <1>3 DEF Counting
-----------------------------------------------------------------------------
\* The two threads, the copies and the kernels never get in each other's way: who works on a
\* chunk, what lies in its buffers and where every block of the query is fit together in every
\* state, whatever the number of chunks, the sizes of the blocks and the order of the steps
THEOREM PipelineInvariant == Spec => []AInv
<1>1. AInv /\ [Next]_vars => AInv'
  BY Zenon, LeastNumber, CountingFacts, NextAInv
<1> QED
  BY <1>1, InitAInv, PTL DEF Spec

\* A worker that calls addData reads exactly the blocks that were queued in its chunk: the
\* query thread hands a chunk over only after its copies
THEOREM WorkersReadTheQueue == Spec => []KeysReadAreQueued
<1>1. AInv => KeysReadAreQueued
  BY Zenon, KeysReadFacts DEF KeysReadAreQueued
<1> QED
  BY <1>1, PipelineInvariant, PTL

\* The server dies only of a block or of keys that exceed a limit, never of "host buffer is not
\* empty after transfer", and waitProcessed's assertion fails only for a source without blocks
THEOREM DeathIsForLimits == Spec => []DiesOnlyIfExceeded
<1>1. AInv => DiesOnlyIfExceeded
  BY Zenon DEF AInv
<1> QED
  BY <1>1, PipelineInvariant, PTL

\* The addBulk kernel, which still runs when its chunk is filled again, reads values that a copy
\* has written: those of the row, or those of a later block, never those of an earlier one
THEOREM NoStaleValues == Spec => []ValuesAreNeverStale
<1>1. AInv => ValuesAreNeverStale
  BY Zenon DEF AInv
<1> QED
  BY <1>1, PipelineInvariant, PTL

\* After the merge of the chunks the rows of every block were aggregated exactly once, and the
\* table of chunk 0 has the keys of the blocks, all of them and no others
THEOREM BlocksCountOnce == Spec => []EveryBlockOnce
<1>1. AInv => EveryBlockOnce
  <2> SUFFICES ASSUME AInv, main \in {"merge", "done"}, i >= chunks_num
               PROVE  /\ \A j \in DOMAIN input : input[j].rows > 0 => group_agg_res[0][j] = 1
                      /\ table_keys[0] = AllKeys
    BY Zenon DEF EveryBlockOnce, AInv
  <2>0. TypeOK /\ Query /\ 0 \in Chunk
    BY Zenon, ChunkFacts DEF AInv
  <2>1. /\ next = Len(input) + 1 /\ worker[0] = "exited" /\ Placed /\ i \in 0..chunks_num
        /\ Active = {0} \union {c \in Chunk : c >= i}
    BY Zenon, <2>0 DEF Query, AInv, Active, TypeOK
  <2>2. Active = {0}
    <3>1. \A c \in Chunk : ~(c >= i)
      BY <2>1, ChunkFacts
    <3> QED
      BY Zenon, <2>1, <3>1
  <2>3. Rowless(0) /\ add_bulk[0] = <<>> /\ Accounted(0) /\ Keyed(0)
    <3>1. Local(0) /\ Accounted(0) /\ Keyed(0)
      BY Zenon, <2>0, <2>2 DEF AInv
    <3> QED
      BY Zenon, <2>1, <3>1 DEF Local, Handing, InFlight
  <2>4. ASSUME NEW j \in DOMAIN input, input[j].rows > 0
        PROVE  group_agg_res[0][j] = 1 /\ input[j].keys \subseteq table_keys[0]
    <3>1. j \in Block /\ Len(input) \in Nat /\ DOMAIN input = 1..Len(input)
      BY Zenon, <2>0, BlockFacts, InputFacts
    <3>2. j < next
      BY <2>1, <3>1
    <3>3. With(0, j)
      <4>1. Placed
        BY Zenon, <2>1
      <4>2. \E c \in Active : With(c, j)
        BY Zenon, <2>4, <3>1, <3>2, <4>1 DEF Placed
      <4> QED
        BY Zenon, <2>2, <4>2
    <3>4. ~(0 > 0)
      OBVIOUS
    <3>5. group_agg_res[0][j] # 0
      BY Zenon, <2>3, <2>4, <3>3, <3>4, NothingIn DEF With, Rowless
    <3>6. group_agg_res[0][j] \in Nat /\ group_agg_res[0][j] <= 1
      <4>1. group_agg_res \in [Chunk -> [Block -> Nat]]
        BY Zenon, <2>0 DEF TypeOK
      <4> QED
        BY Zenon, <2>0, <2>3, <3>1, <4>1 DEF Accounted
    <3>7. group_agg_res[0][j] = 1
      BY <3>5, <3>6
    <3> QED
      BY Zenon, <2>3, <3>1, <3>5, <3>7 DEF Keyed
  <2>5. \A j \in DOMAIN input : input[j].keys \subseteq table_keys[0]
    <3>1. \A j \in DOMAIN input : input[j].rows \in Nat /\ (input[j].rows = 0 => input[j].keys = {})
      BY Zenon, <2>0, InputFacts
    <3>2. \A n \in Nat : n = 0 \/ n > 0
      OBVIOUS
    <3> QED
      BY Zenon, <2>4, <3>1, <3>2
  <2>6. AllKeys \subseteq table_keys[0] /\ table_keys[0] \subseteq AllKeys
    BY Zenon, <2>0, <2>5 DEF AInv, AllKeys
  <2> QED
    BY Zenon, <2>4, <2>6
<1> QED
  BY <1>1, PipelineInvariant, PTL
=============================================================================
