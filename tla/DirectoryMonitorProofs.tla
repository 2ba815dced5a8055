----------------------- MODULE DirectoryMonitorProofs -----------------------
(***************************************************************************)
(* Proofs about DirectoryMonitor, for any number of blocks, any files that *)
(* do not read back, any size of batches and any number of faults.         *)
(***************************************************************************)
EXTENDS DirectoryMonitor, TLAPS

Increasing(q) == \A i, j \in DOMAIN q : i < j => q[i] < q[j]
Linking(n)    == n \in DOMAIN writing /\ writing[n] = "link"
Numbers       == DOMAIN tmp \cup DOMAIN disk \cup DOMAIN broken
CleaningUp    == pc \in {"remove", "mark"}

\* Numbers of the batch that were not removed or marked yet
Current == IF CleaningUp THEN Range(left) ELSE Range(batch)

\* A file has a number, which is not larger than its block's
Files(f) == \A n \in DOMAIN f : n \in Nat /\ n > 0 /\ f[n] \in Nat /\ n <= f[n] /\ f[n] <= inserted

Types ==
    /\ Files(tmp) /\ Files(disk) /\ Files(broken) /\ Files(files)
    /\ batch_file \subseteq Seq(Nat) /\ \A a, b \in batch_file : a = b
    /\ inserted \in Nat /\ inserted <= MaxInserts /\ linked \subseteq 1..inserted
    /\ file_names_increment \in Nat \cup {-1} /\ file_names_increment <= inserted
    /\ should_batch_inserts \in BOOLEAN /\ absent \in BOOLEAN /\ faults \in Nat /\ faults <= MaxFaults
    /\ pc \in {"idle", "collect", "save", "write", "send", "remove", "mark", "down"}
    /\ batch \in Seq(Nat) /\ left \in Seq(Nat)
    /\ applied \in Seq(Nat) /\ seen \subseteq Seq(Nat)

\* Numbers and blocks are given out in one order, and a block is linked once
Numbering ==
    /\ \A m, n \in DOMAIN disk : m < n => disk[m] < disk[n]
    /\ \A m, n \in DOMAIN tmp : m < n => tmp[m] < tmp[n]
    /\ \A m \in DOMAIN tmp, n \in DOMAIN disk : (m < n => tmp[m] < disk[n]) /\ (n < m => disk[n] < tmp[m])
    /\ DOMAIN disk \cap DOMAIN broken = {}
    /\ file_names_increment >= 0 => \A n \in Numbers : n <= file_names_increment
    /\ DOMAIN writing \subseteq DOMAIN tmp
    /\ \A n \in DOMAIN tmp : Linking(n) => n \notin DOMAIN disk /\ n \notin DOMAIN broken /\ tmp[n] \notin linked

\* Where blocks that were linked are
Blocks ==
    /\ Range(disk) \subseteq linked /\ Range(files) \subseteq linked /\ Range(applied) \subseteq linked
    /\ \A s \in seen : Range(s) \subseteq Range(applied)
    /\ NothingLost

\* What the monitor has listed and not dealt with is still there
Listing ==
    /\ todo \subseteq DOMAIN files /\ todo \cap Range(batch) = {}
    /\ \A n \in DOMAIN files : n \in todo \cup Current => n \in DOMAIN disk /\ disk[n] = files[n]
    /\ Increasing(batch) /\ Increasing(left) /\ Range(left) \subseteq Range(batch)
    /\ \A q \in batch_file : Increasing(q)
    /\ pc \in {"idle", "down"} => todo = {} /\ batch = <<>>
    /\ ~CleaningUp => left = <<>>
    /\ pc \in {"collect", "save", "write"} => Range(batch) \subseteq DOMAIN files
    /\ pc = "collect" => \A m \in Range(batch), n \in todo : m < n
    /\ pc = "remove" => \A n \in Range(left) : n \in DOMAIN files /\ files[n] \in Range(applied)

\* A batch is on disk as long as it may be sent again, and without batching a file is a batch
Saved ==
    /\ pc \in {"save", "write", "send", "remove", "mark"} => batch # <<>>
    /\ pc \in {"send", "remove", "mark"} => absent \/ Range(batch) \subseteq DOMAIN files
    /\ should_batch_inserts /\ pc \in {"send", "remove", "mark"} => batch \in batch_file
    /\ ~should_batch_inserts =>
          /\ pc \notin {"save", "write"} /\ (pc = "collect" => batch = <<>>)
          /\ pc \in {"send", "remove", "mark"} => Len(batch) = 1

\* A file whose block is in the remote table already
Again(n) == n \in DOMAIN disk /\ disk[n] \in Range(applied)

\* Its batch q is whole and the remote server knows it, or the first file of q is gone, and its
\* number is not given out again as long as this file is there
Whole(q)    == Range(q) \subseteq DOMAIN disk /\ [i \in DOMAIN q |-> disk[q[i]]] \in seen
Gone(q)     == q[1] \notin DOMAIN disk /\ ~Linking(q[1])
Lacks(q, n) == Gone(q) /\ q[1] < n

Once ==
    /\ IsInjective(applied)
    /\ should_batch_inserts =>
          /\ \A n \in DOMAIN disk : Again(n) => \E q \in batch_file : n \in Range(q) /\ (Whole(q) \/ Lacks(q, n))
          /\ pc \in {"collect", "save", "write"} => \A n \in DOMAIN disk : ~Again(n)
          /\ CleaningUp => \A n \in DOMAIN disk : Again(n) => n \in Range(left)
          /\ CleaningUp /\ left # <<>> /\ left # batch => Gone(batch) /\ \A n \in Range(left) : batch[1] < n
    /\ ~should_batch_inserts => \A n \in DOMAIN disk : Again(n) => <<disk[n]>> \in seen

DInv == Types /\ Numbering /\ Blocks /\ Listing /\ Saved /\ (absent \/ Once)

-----------------------------------------------------------------------------
\* Directories and sequences

LEMMA PutFacts ==
    ASSUME NEW f, NEW n, NEW b
    PROVE  /\ DOMAIN Put(f, n, b) = DOMAIN f \cup {n} /\ Put(f, n, b)[n] = b
           /\ \A k \in DOMAIN f : k # n => Put(f, n, b)[k] = f[k]
           /\ Range(Put(f, n, b)) \subseteq Range(f) \cup {b}
           /\ n \notin DOMAIN f => Range(Put(f, n, b)) = Range(f) \cup {b}
BY Zenon DEF Put, Range

LEMMA DropFacts ==
    ASSUME NEW f, NEW n
    PROVE  /\ DOMAIN Drop(f, n) = DOMAIN f \ {n} /\ \A k \in DOMAIN f : k # n => Drop(f, n)[k] = f[k]
           /\ Range(Drop(f, n)) \subseteq Range(f)
           /\ n \in DOMAIN f => Range(f) \subseteq Range(Drop(f, n)) \cup {f[n]}
BY Zenon DEF Drop, Range

LEMMA AppendFacts ==
    ASSUME NEW q \in Seq(Nat), NEW x \in Nat
    PROVE  /\ Append(q, x) \in Seq(Nat) /\ Append(q, x) # <<>> /\ Len(Append(q, x)) = Len(q) + 1
           /\ Range(Append(q, x)) = Range(q) \cup {x}
           /\ Increasing(q) /\ (\A m \in Range(q) : m < x) => Increasing(Append(q, x))
<1> DEFINE n == Append(q, x)
<1>1. /\ n \in Seq(Nat) /\ Len(n) = Len(q) + 1 /\ DOMAIN n = 1..(Len(q) + 1) /\ DOMAIN q = 1..Len(q) /\ Len(q) \in Nat
      /\ n[Len(q) + 1] = x /\ \A k \in 1..Len(q) : n[k] = q[k]
  OBVIOUS
<1>2. n # <<>>
  BY <1>1
<1> HIDE DEF n
<1>3. \A k \in DOMAIN n : k = Len(q) + 1 \/ k \in DOMAIN q
  BY <1>1
<1>4. Range(n) = Range(q) \cup {x}
  <2>1. Len(q) + 1 \in DOMAIN n /\ \A k \in DOMAIN q : k \in DOMAIN n /\ n[k] = q[k]
    BY <1>1
  <2> QED
    BY Zenon, <1>1, <1>3, <2>1 DEF Range
<1>5. ASSUME Increasing(q), \A m \in Range(q) : m < x, NEW i \in DOMAIN n, NEW j \in DOMAIN n, i < j
      PROVE  n[i] < n[j]
  <2>1. i \in DOMAIN q /\ n[i] = q[i] /\ q[i] \in Range(q)
    <3>1. i \in DOMAIN q
      BY <1>1, <1>5
    <3> QED
      BY Zenon, <1>1, <3>1 DEF Range
  <2>2. CASE j = Len(q) + 1
    BY Zenon, <1>1, <1>5, <2>1, <2>2
  <2>3. CASE j \in DOMAIN q
    BY Zenon, <1>1, <1>5, <2>1, <2>3 DEF Increasing
  <2> QED
    BY Zenon, <1>3, <2>2, <2>3
<1> QED
  BY Zenon, <1>1, <1>2, <1>4, <1>5 DEF n, Increasing

LEMMA TailFacts ==
    ASSUME NEW q \in Seq(Nat), q # <<>>
    PROVE  /\ Tail(q) \in Seq(Nat) /\ Head(q) = q[1] /\ Head(q) \in Nat
           /\ Head(q) \in Range(q) /\ Range(q) = Range(Tail(q)) \cup {Head(q)}
           /\ Increasing(q) => /\ Increasing(Tail(q)) /\ Head(q) \notin Range(Tail(q))
                               /\ \A x \in Range(q) : x # q[1] => q[1] < x
<1> DEFINE n == Tail(q)
<1>0. Len(q) > 0 /\ Len(q) \in Nat
  OBVIOUS
<1>1. n \in Seq(Nat) /\ Len(n) = Len(q) - 1 /\ DOMAIN n = 1..(Len(q) - 1) /\ DOMAIN q = 1..Len(q)
      /\ Head(q) = q[1] /\ (\A k \in 1..(Len(q) - 1) : n[k] = q[k + 1]) /\ \A k \in DOMAIN q : q[k] \in Nat
  BY <1>0
<1>2. 1 \in DOMAIN q /\ q[1] \in Range(q) /\ q[1] \in Nat
  BY <1>0, <1>1 DEF Range
<1> HIDE DEF n
<1>a. \A N \in Nat : \A k \in 1..(N - 1) : k + 1 \in 1..N /\ 1 < k + 1
  OBVIOUS
<1>b. \A N \in Nat : \A k \in 1..N : k = 1 \/ (k - 1 \in 1..(N - 1) /\ (k - 1) + 1 = k /\ 1 < k)
  OBVIOUS
<1>3. \A k \in DOMAIN n : k + 1 \in DOMAIN q /\ n[k] = q[k + 1] /\ 1 < k + 1
  BY Zenon, <1>0, <1>1, <1>a
<1>4. \A k \in DOMAIN q : k = 1 \/ (k - 1 \in DOMAIN n /\ n[k - 1] = q[k] /\ 1 < k)
  BY Zenon, <1>0, <1>1, <1>b
<1>5. Range(q) = Range(n) \cup {q[1]}
  BY <1>2, <1>3, <1>4 DEF Range
<1>6. ASSUME Increasing(q)
      PROVE  Increasing(n) /\ q[1] \notin Range(n) /\ \A x \in Range(q) : x # q[1] => q[1] < x
  <2>1. ASSUME NEW i \in DOMAIN n, NEW j \in DOMAIN n, i < j
        PROVE  n[i] < n[j]
    <3>1. i + 1 < j + 1
      BY <1>1, <2>1
    <3> QED
      BY Zenon, <1>3, <1>6, <3>1 DEF Increasing
  <2>2. ASSUME NEW i \in DOMAIN n
        PROVE  q[1] < n[i]
    BY Zenon, <1>2, <1>3, <1>6 DEF Increasing
  <2>3. \A i \in DOMAIN n : q[1] # n[i]
    BY <1>1, <1>2, <2>2
  <2>4. \A x \in Range(q) : x # q[1] => q[1] < x
    BY Zenon, <1>5, <2>2 DEF Range
  <2> QED
    BY Zenon, <2>1, <2>3, <2>4 DEF Increasing, Range
<1> QED
  BY Zenon, <1>1, <1>2, <1>5, <1>6 DEF n

\* An increasing sequence lists no number twice
LEMMA IncreasingOnce ==
    ASSUME NEW q \in Seq(Nat), Increasing(q), NEW i \in DOMAIN q, NEW j \in DOMAIN q, q[i] = q[j]
    PROVE  i = j
<1>1. i \in Nat /\ j \in Nat /\ q[i] \in Nat /\ q[j] \in Nat
  OBVIOUS
<1>2. ~(i < j) /\ ~(j < i)
  BY <1>1 DEF Increasing
<1> QED
  BY <1>1, <1>2

LEMMA ConcatFacts ==
    ASSUME NEW s \in Seq(Nat), NEW t \in Seq(Nat)
    PROVE  /\ s \o t \in Seq(Nat) /\ Range(s \o t) = Range(s) \cup Range(t)
           /\ IsInjective(s) /\ IsInjective(t) /\ Range(s) \cap Range(t) = {} => IsInjective(s \o t)
<1> DEFINE c == s \o t
<1>1. /\ c \in Seq(Nat) /\ DOMAIN c = 1..(Len(s) + Len(t)) /\ DOMAIN s = 1..Len(s) /\ DOMAIN t = 1..Len(t)
      /\ Len(s) \in Nat /\ Len(t) \in Nat
      /\ (\A i \in 1..Len(s) : c[i] = s[i]) /\ (\A i \in 1..Len(t) : c[Len(s) + i] = t[i])
  OBVIOUS
<1> HIDE DEF c
<1>2. ASSUME NEW i \in DOMAIN c
      PROVE  (i \in DOMAIN s /\ c[i] = s[i]) \/ (i - Len(s) \in DOMAIN t /\ c[i] = t[i - Len(s)] /\ i > Len(s))
  <2>1. CASE i <= Len(s)
    BY <1>1, <2>1
  <2>2. CASE i > Len(s)
    <3>1. i - Len(s) \in 1..Len(t) /\ Len(s) + (i - Len(s)) = i
      BY <1>1, <2>2
    <3> QED
      BY Zenon, <1>1, <2>2, <3>1
  <2>3. i <= Len(s) \/ i > Len(s)
    <3>1. i \in 1..(Len(s) + Len(t)) /\ Len(s) \in Nat /\ Len(t) \in Nat
      BY <1>1
    <3> QED
      BY <3>1
  <2> QED
    BY Zenon, <2>1, <2>2, <2>3
<1>3. Range(c) = Range(s) \cup Range(t)
  <2>1. \A i \in DOMAIN s : i \in DOMAIN c /\ c[i] = s[i]
    BY <1>1
  <2>2. \A i \in DOMAIN t : Len(s) + i \in DOMAIN c /\ c[Len(s) + i] = t[i]
    BY <1>1
  <2>3. Range(s) \subseteq Range(c) /\ Range(t) \subseteq Range(c)
    BY Zenon, <2>1, <2>2 DEF Range
  <2>4. Range(c) \subseteq Range(s) \cup Range(t)
    BY Zenon, <1>2 DEF Range
  <2> QED
    BY Zenon, <2>3, <2>4
<1>4. ASSUME IsInjective(s), IsInjective(t), Range(s) \cap Range(t) = {},
             NEW i \in DOMAIN c, NEW j \in DOMAIN c, c[i] = c[j]
      PROVE  i = j
  <2>1. \A k \in DOMAIN s, l \in DOMAIN t : s[k] # t[l]
    BY Zenon, <1>4 DEF Range
  <2>2. CASE i \in DOMAIN s /\ c[i] = s[i] /\ j \in DOMAIN s /\ c[j] = s[j]
    BY Zenon, <1>4, <2>2 DEF IsInjective
  <2>3. CASE i - Len(s) \in DOMAIN t /\ c[i] = t[i - Len(s)] /\ j - Len(s) \in DOMAIN t /\ c[j] = t[j - Len(s)]
    <3>1. i - Len(s) = j - Len(s)
      BY Zenon, <1>4, <2>3 DEF IsInjective
    <3> QED
      BY <1>1, <3>1
  <2> QED
    BY Zenon, <1>2, <1>4, <2>1, <2>2, <2>3
<1> QED
  BY Zenon, <1>1, <1>3, <1>4 DEF c, IsInjective

\* What is sent, when every nonempty set of numbers has a least one
Least == \A S \in SUBSET Nat : S # {} => \E m \in S : \A k \in S : m <= k

LEMMA SentFacts ==
    ASSUME Least, DInv
    PROVE  /\ Present \in 0..Len(batch) /\ Sent \in Seq(Nat) /\ Range(Sent) \subseteq linked
           /\ Present = Len(batch) <=> Range(batch) \subseteq DOMAIN files
           /\ Range(batch) \subseteq DOMAIN files => Sent = [i \in DOMAIN batch |-> files[batch[i]]]
<1>0. batch \in Seq(Nat) /\ Files(files) /\ Range(files) \subseteq linked /\ Len(batch) \in Nat /\ DOMAIN batch = 1..Len(batch)
  BY DEF DInv, Types, Blocks
<1> DEFINE P(k) == /\ \A i \in 1..k : batch[i] \in DOMAIN files
                   /\ k < Len(batch) => batch[k + 1] \notin DOMAIN files
           Missing == {i \in 1..Len(batch) : batch[i] \notin DOMAIN files}
<1>1. \E k \in 0..Len(batch) : P(k)
  <2>1. CASE Missing = {}
    <3>1. P(Len(batch)) /\ Len(batch) \in 0..Len(batch)
      BY <1>0, <2>1
    <3> QED
      BY Zenon, <3>1
  <2>2. CASE Missing # {}
    <3>1. Missing \in SUBSET Nat
      OBVIOUS
    <3>2. PICK m \in Missing : \A k \in Missing : m <= k
      BY Zenon, <2>2, <3>1 DEF Least
    <3>3. m - 1 \in 0..Len(batch) /\ batch[(m - 1) + 1] \notin DOMAIN files
      BY <1>0, <3>2
    <3>4. ASSUME NEW i \in 1..(m - 1)
          PROVE  batch[i] \in DOMAIN files
      <4>1. i \in 1..Len(batch) /\ ~(m <= i)
        BY <1>0, <3>2
      <4> QED
        BY Zenon, <3>2, <4>1
    <3> QED
      BY Zenon, <3>3, <3>4
  <2> QED
    BY Zenon, <2>1, <2>2
<1>2. Present \in 0..Len(batch) /\ P(Present)
  <2>1. Present = CHOOSE k \in 0..Len(batch) : P(k)
    BY Zenon DEF Present
  <2> HIDE DEF P
  <2> QED
    BY Zenon, <1>1, <2>1
<1> HIDE DEF P, Missing
<1>3. Present \in Nat /\ Present <= Len(batch) /\ \A i \in 1..Present : batch[i] \in DOMAIN files /\ i \in DOMAIN batch
  BY <1>0, <1>2 DEF P
<1>4. Sent = [i \in 1..Present |-> files[batch[i]]]
  BY Zenon DEF Sent
<1>5. \A i \in 1..Present : files[batch[i]] \in Nat /\ files[batch[i]] \in Range(files)
  BY Zenon, <1>0, <1>3 DEF Files, Range
<1>6. Sent \in Seq(Nat)
  BY <1>3, <1>4, <1>5
<1>7. Range(Sent) \subseteq linked
  BY Zenon, <1>0, <1>4, <1>5 DEF Range
<1>8. ASSUME Present = Len(batch)
      PROVE  Range(batch) \subseteq DOMAIN files
  BY Zenon, <1>0, <1>3, <1>8 DEF Range
<1>9. ASSUME Range(batch) \subseteq DOMAIN files
      PROVE  Present = Len(batch)
  <2>1. ASSUME Present < Len(batch)
        PROVE  FALSE
    <3>1. Present + 1 \in DOMAIN batch /\ batch[Present + 1] \notin DOMAIN files
      BY <1>0, <1>2, <1>3, <2>1 DEF P
    <3> QED
      BY Zenon, <1>9, <3>1 DEF Range
  <2>2. ~(Present < Len(batch))
    BY Zenon, <2>1
  <2>3. Present \in Nat /\ Len(batch) \in Nat /\ Present <= Len(batch)
    BY Zenon, <1>0, <1>3
  <2> QED
    BY <2>2, <2>3
<1> QED
  BY Zenon, <1>0, <1>2, <1>4, <1>6, <1>7, <1>8, <1>9

-----------------------------------------------------------------------------
\* Steps of INSERTs

LEMMA WriteTmpKeeps ==
    ASSUME DInv, WriteTmp
    PROVE  DInv'
<1> DEFINE n == file_names_increment + 1
           b == inserted + 1
<1>0. Types /\ Numbering /\ Blocks /\ Listing /\ Saved /\ (absent \/ Once)
  BY Zenon DEF DInv
<1>1. /\ file_names_increment >= 0 /\ inserted < MaxInserts
      /\ file_names_increment' = n /\ inserted' = b /\ tmp' = Put(tmp, n, b) /\ writing' = Put(writing, n, "link")
      /\ UNCHANGED <<disk, broken, batch_file, linked, should_batch_inserts, pc, files, todo, batch, left,
                     applied, seen, faults, absent, null_remote>>
  BY Zenon DEF WriteTmp, dirs, monitor, memory, remote
<1>2. inserted \in Nat /\ file_names_increment \in Nat /\ file_names_increment <= inserted /\ MaxInserts \in Nat
  BY <1>0, <1>1, MonitorConstants DEF Types
<1>3. n \in Nat /\ n > 0 /\ n <= b /\ b \in Nat /\ b <= MaxInserts /\ n > file_names_increment /\ b > inserted
  BY <1>1, <1>2
<1>4. (\A k \in Numbers : k <= file_names_increment) /\ Numbers \subseteq Nat
  BY Zenon, <1>0, <1>1 DEF Numbering, Numbers, Types, Files
<1>5. \A k \in Numbers : k < n /\ k # n
  BY <1>2, <1>4
<1>s. tmp' = Put(tmp, n, b) /\ writing' = Put(writing, n, "link")
  BY Zenon, <1>1
<1> HIDE DEF n, b
<1>6. /\ DOMAIN tmp' = DOMAIN tmp \cup {n} /\ tmp'[n] = b /\ (\A k \in DOMAIN tmp : k # n => tmp'[k] = tmp[k])
      /\ DOMAIN writing' = DOMAIN writing \cup {n} /\ writing'[n] = "link"
      /\ \A k \in DOMAIN writing : k # n => writing'[k] = writing[k]
  <2>1. /\ DOMAIN tmp' = DOMAIN tmp \cup {n} /\ tmp'[n] = b /\ \A k \in DOMAIN tmp : k # n => tmp'[k] = tmp[k]
    BY Zenon, <1>s DEF Put
  <2>2. /\ DOMAIN writing' = DOMAIN writing \cup {n} /\ writing'[n] = "link"
        /\ \A k \in DOMAIN writing : k # n => writing'[k] = writing[k]
    BY Zenon, <1>s DEF Put
  <2> QED
    BY Zenon, <2>1, <2>2
<1>7. \A k \in DOMAIN tmp : tmp'[k] = tmp[k]
  BY Zenon, <1>5, <1>6 DEF Numbers
<1>8. \A k : k # n => (Linking(k)' <=> Linking(k))
  BY Zenon, <1>6 DEF Linking
<1>9. Types'
  <2>1. \A f \in {tmp, disk, broken, files} : \A k \in DOMAIN f : f[k] \in Nat /\ f[k] <= b
    BY <1>0, <1>2, <1>3 DEF Types, Files, b
  <2>2. Files(disk)' /\ Files(broken)' /\ Files(files)'
    BY Zenon, <1>0, <1>1, <2>1 DEF Types, Files
  <2>3. Files(tmp)'
    BY <1>0, <1>1, <1>3, <1>6, <1>7, <2>1 DEF Types, Files
  <2>4. linked \subseteq 1..b
    BY <1>0, <1>2 DEF Types, b
  <2> QED
    BY Zenon, <1>0, <1>1, <1>3, <2>2, <2>3, <2>4 DEF Types
<1>10. Numbering'
  <2>1. \A k \in DOMAIN tmp : k < n /\ tmp[k] < b
    BY <1>0, <1>2, <1>5 DEF Types, Files, Numbers, b
  <2>2. \A k \in DOMAIN disk : k < n /\ disk[k] < b
    BY <1>0, <1>2, <1>5 DEF Types, Files, Numbers, b
  <2>3. \A k \in DOMAIN tmp \cup DOMAIN disk : ~(n < k) /\ k \in Nat
    BY <1>3, <1>4, <2>1, <2>2 DEF Numbers
  <2>4. \A m, k \in DOMAIN tmp' : m < k => tmp'[m] < tmp'[k]
    BY <1>0, <1>3, <1>6, <1>7, <2>1, <2>3 DEF Numbering
  <2>5. \A m \in DOMAIN tmp', k \in DOMAIN disk : (m < k => tmp'[m] < disk[k]) /\ (k < m => disk[k] < tmp'[m])
    BY Zenon, <1>0, <1>6, <1>7, <2>2, <2>3 DEF Numbering
  <2>6. \A k \in Numbers' : k <= n
    BY <1>1, <1>3, <1>4, <1>5, <1>6 DEF Numbers
  <2>7. ASSUME NEW k \in DOMAIN tmp', Linking(k)'
        PROVE  k \notin DOMAIN disk /\ k \notin DOMAIN broken /\ tmp'[k] \notin linked
    <3>1. CASE k = n
      <4>1. b \notin linked
        BY <1>0, <1>2 DEF Types, b
      <4> QED
        BY Zenon, <1>5, <1>6, <3>1, <4>1 DEF Numbers
    <3>2. CASE k # n
      BY Zenon, <1>0, <1>6, <1>7, <1>8, <2>7, <3>2 DEF Numbering
    <3> QED
      BY Zenon, <3>1, <3>2
  <2>8. DOMAIN writing' \subseteq DOMAIN tmp'
    BY Zenon, <1>0, <1>6 DEF Numbering
  <2> QED
    BY Zenon, <1>0, <1>1, <2>4, <2>5, <2>6, <2>7, <2>8 DEF Numbering
<1>11. Blocks'
  BY Zenon, <1>0, <1>1 DEF Blocks, NothingLost
<1>12. Listing' /\ Saved'
  BY Zenon, <1>0, <1>1 DEF Listing, Saved, Current, CleaningUp
<1>13. ASSUME ~absent
       PROVE  Once'
  <2>0. Once
    BY Zenon, <1>0, <1>13
  <2>1. ASSUME NEW q, NEW k \in DOMAIN disk, Lacks(q, k), q[1] \in Nat
        PROVE  Lacks(q, k)'
    <3>1. q[1] < k /\ k < n /\ k \in Nat
      BY Zenon, <1>4, <1>5, <2>1 DEF Lacks, Numbers
    <3>2. q[1] # n
      BY <1>3, <2>1, <3>1
    <3> QED
      BY Zenon, <1>1, <1>8, <2>1, <3>2 DEF Lacks, Gone
  <2>2. \A q : Whole(q) => Whole(q)'
    BY Zenon, <1>1 DEF Whole
  <2>3. \A k : Again(k)' <=> Again(k)
    BY Zenon, <1>1 DEF Again
  <2>4. \A q \in batch_file : \A k \in Range(q) : q[1] \in Nat
    <3>1. ASSUME NEW q \in batch_file, NEW k \in Range(q)
          PROVE  q[1] \in Nat
      <4>1. q \in Seq(Nat) /\ q # <<>>
        BY <1>0 DEF Types, Range
      <4> QED
        BY <4>1, TailFacts
    <3> QED
      BY Zenon, <3>1
  <2>5. should_batch_inserts =>
          \A k \in DOMAIN disk : Again(k) => \E q \in batch_file : k \in Range(q) /\ (Whole(q)' \/ Lacks(q, k)')
    BY Zenon, <2>0, <2>1, <2>2, <2>4 DEF Once
  <2>6. ASSUME should_batch_inserts, CleaningUp, left # <<>>, left # batch
        PROVE  Gone(batch)' /\ \A k \in Range(left) : batch[1] < k
    <3>1. Gone(batch) /\ \A k \in Range(left) : batch[1] < k
      BY Zenon, <2>0, <2>6 DEF Once
    <3>2. left \in Seq(Nat) /\ batch \in Seq(Nat) /\ Head(left) \in Range(left)
      BY Zenon, <1>0, <2>6, TailFacts DEF Types
    <3>3. Head(left) \in DOMAIN disk
      <4>1. Head(left) \in DOMAIN files /\ Head(left) \in Current
        BY Zenon, <1>0, <1>13, <2>6, <3>2 DEF Saved, Listing, CleaningUp, Current
      <4> QED
        BY Zenon, <1>0, <4>1 DEF Listing
    <3>4. batch[1] < Head(left) /\ Head(left) < n /\ Head(left) \in Nat /\ batch[1] \in Nat
      <4>1. batch # <<>>
        BY Zenon, <1>0, <2>6 DEF Saved, CleaningUp
      <4> QED
        BY <1>4, <1>5, <3>1, <3>2, <3>3, <4>1, TailFacts DEF Numbers
    <3>5. batch[1] # n
      BY <1>3, <3>4
    <3> QED
      BY Zenon, <1>1, <1>8, <3>1, <3>5 DEF Gone
  <2> QED
    BY Zenon, <1>1, <2>0, <2>3, <2>5, <2>6 DEF Once, CleaningUp
<1> QED
  BY Zenon, <1>1, <1>9, <1>10, <1>11, <1>12, <1>13 DEF DInv

\* Blocks, files and batches stay as they are, and no number is added to those being linked
LEMMA QuietKeeps ==
    ASSUME DInv, \A k : Linking(k)' => Linking(k),
           UNCHANGED <<disk, broken, batch_file, linked, should_batch_inserts, pc, files, todo, batch, left,
                       applied, seen, absent>>
    PROVE  Blocks' /\ Listing' /\ Saved' /\ (absent' \/ Once')
<1>0. Blocks /\ Listing /\ Saved /\ (absent \/ Once)
  BY Zenon DEF DInv
<1>1. Blocks'
  BY Zenon, <1>0 DEF Blocks, NothingLost
<1>2. Listing' /\ Saved'
  BY Zenon, <1>0 DEF Listing, Saved, Current, CleaningUp
<1>3. \A q : (Whole(q) => Whole(q)') /\ (Gone(q) => Gone(q)') /\ \A n : Lacks(q, n) => Lacks(q, n)'
  BY Zenon DEF Whole, Gone, Lacks
<1>4. \A n : Again(n)' <=> Again(n)
  BY Zenon DEF Again
<1>5. ASSUME Once
      PROVE  Once'
  <2>1. should_batch_inserts =>
          \A k \in DOMAIN disk : Again(k) => \E q \in batch_file : k \in Range(q) /\ (Whole(q)' \/ Lacks(q, k)')
    BY Zenon, <1>3, <1>5 DEF Once
  <2> QED
    BY Zenon, <1>3, <1>4, <1>5, <2>1 DEF Once, CleaningUp
<1> QED
  BY Zenon, <1>0, <1>1, <1>2, <1>5

LEMMA LinkKeeps ==
    ASSUME DInv, NEW n \in DOMAIN writing, Link(n)
    PROVE  DInv'
<1>0. Types /\ Numbering /\ Blocks /\ Listing /\ Saved /\ (absent \/ Once)
  BY Zenon DEF DInv
<1>1. Linking(n) /\ n \in DOMAIN tmp /\ n \notin DOMAIN disk /\ n \notin DOMAIN broken /\ tmp[n] \notin linked
  BY Zenon, <1>0 DEF Link, Linking, Numbering
<1>2. /\ disk' = Put(disk, n, tmp[n]) /\ linked' = linked \cup {tmp[n]} /\ writing' = [writing EXCEPT ![n] = "remove"]
      /\ UNCHANGED <<broken, batch_file, tmp, inserted, file_names_increment, should_batch_inserts, pc, files, todo,
                     batch, left, applied, seen, faults, absent, null_remote>>
  BY Zenon, <1>1 DEF Link, monitor, memory, remote
<1>3. /\ DOMAIN disk' = DOMAIN disk \cup {n} /\ disk'[n] = tmp[n] /\ \A k \in DOMAIN disk : disk'[k] = disk[k]
  BY Zenon, <1>1, <1>2 DEF Put
<1>4. Range(disk') = Range(disk) \cup {tmp[n]}
  BY Zenon, <1>3 DEF Range
<1>5. DOMAIN writing' = DOMAIN writing /\ \A k : Linking(k)' <=> Linking(k) /\ k # n
  BY Zenon, <1>2 DEF Linking
<1>6. n \in Nat /\ n > 0 /\ tmp[n] \in Nat /\ n <= tmp[n] /\ tmp[n] <= inserted /\ inserted \in Nat
  BY Zenon, <1>0, <1>1 DEF Types, Files
<1>7. Types'
  <2>1. Files(disk)'
    BY Zenon, <1>0, <1>2, <1>3, <1>6 DEF Types, Files
  <2>2. linked' \subseteq 1..inserted
    BY <1>0, <1>2, <1>6 DEF Types
  <2> QED
    BY Zenon, <1>0, <1>2, <2>1, <2>2 DEF Types, Files
<1>8. Numbering'
  <2>1. \A k, m \in DOMAIN disk' : k < m => disk'[k] < disk'[m]
    BY Zenon, <1>0, <1>1, <1>3, <1>6 DEF Numbering
  <2>2. \A k \in DOMAIN tmp, m \in DOMAIN disk' : (k < m => tmp[k] < disk'[m]) /\ (m < k => disk'[m] < tmp[k])
    BY Zenon, <1>0, <1>1, <1>3 DEF Numbering
  <2>3. Numbers' = Numbers
    BY Zenon, <1>1, <1>2, <1>3 DEF Numbers
  <2>4. ASSUME NEW k \in DOMAIN tmp, Linking(k)'
        PROVE  k \notin DOMAIN disk' /\ k \notin DOMAIN broken /\ tmp[k] \notin linked'
    <3>1. Linking(k) /\ k # n
      BY Zenon, <1>5, <2>4
    <3>2. k \in Nat /\ tmp[k] \in Nat
      BY Zenon, <1>0 DEF Types, Files
    <3>3. tmp[k] # tmp[n]
      <4>1. k < n \/ n < k
        BY <1>6, <3>1, <3>2
      <4>2. tmp[k] < tmp[n] \/ tmp[n] < tmp[k]
        BY Zenon, <1>0, <1>1, <4>1 DEF Numbering
      <4> QED
        BY <1>6, <3>2, <4>2
    <3> QED
      BY Zenon, <1>0, <1>2, <1>3, <3>1, <3>3 DEF Numbering
  <2> QED
    BY Zenon, <1>0, <1>1, <1>2, <1>3, <1>5, <2>1, <2>2, <2>3, <2>4 DEF Numbering
<1>9. Blocks'
  <2>1. linked \subseteq Range(disk) \cup Range(broken) \cup Range(applied)
    BY Zenon, <1>0 DEF Blocks, NothingLost
  <2> QED
    BY Zenon, <1>0, <1>2, <1>4, <2>1 DEF Blocks, NothingLost
<1>10. Listing' /\ Saved'
  <2>1. \A k \in DOMAIN files : k \in todo \cup Current => k \in DOMAIN disk' /\ disk'[k] = files[k]
    BY Zenon, <1>0, <1>3 DEF Listing
  <2>2. Current' = Current
    BY Zenon, <1>2 DEF Current, CleaningUp
  <2> QED
    BY Zenon, <1>0, <1>2, <2>1, <2>2 DEF Listing, Saved, CleaningUp
<1>11. ASSUME Once
       PROVE  Once'
  <2>1. ~Again(n)' /\ \A k \in DOMAIN disk : Again(k)' <=> Again(k)
    BY Zenon, <1>0, <1>1, <1>2, <1>3 DEF Again, Blocks
  <2>2. ASSUME NEW q, Whole(q)
        PROVE  Whole(q)'
    <3>1. \A i \in DOMAIN q : q[i] \in DOMAIN disk
      BY Zenon, <2>2 DEF Whole, Range
    <3>2. [i \in DOMAIN q |-> disk'[q[i]]] = [i \in DOMAIN q |-> disk[q[i]]]
      BY Zenon, <1>3, <3>1
    <3> QED
      BY Zenon, <1>2, <1>3, <2>2, <3>2 DEF Whole
  <2>3. \A q : Gone(q) => Gone(q)'
    BY Zenon, <1>1, <1>3, <1>5 DEF Gone
  <2>4. \A q, k : Lacks(q, k) => Lacks(q, k)'
    BY Zenon, <2>3 DEF Lacks
  <2>5. should_batch_inserts =>
          \A k \in DOMAIN disk' : Again(k)' => \E q \in batch_file : k \in Range(q) /\ (Whole(q)' \/ Lacks(q, k)')
    BY Zenon, <1>3, <1>11, <2>1, <2>2, <2>4 DEF Once
  <2>6. should_batch_inserts =>
          /\ pc \in {"collect", "save", "write"} => \A k \in DOMAIN disk' : ~Again(k)'
          /\ CleaningUp => \A k \in DOMAIN disk' : Again(k)' => k \in Range(left)
    BY Zenon, <1>3, <1>11, <2>1 DEF Once
  <2>7. ~should_batch_inserts => \A k \in DOMAIN disk' : Again(k)' => <<disk'[k]>> \in seen
    BY Zenon, <1>3, <1>11, <2>1 DEF Once
  <2>8. should_batch_inserts /\ CleaningUp /\ left # <<>> /\ left # batch =>
          Gone(batch)' /\ \A k \in Range(left) : batch[1] < k
    BY Zenon, <1>2, <1>11, <2>3 DEF Once
  <2> QED
    BY Zenon, <1>2, <1>11, <2>5, <2>6, <2>7, <2>8 DEF Once, CleaningUp
<1> QED
  BY Zenon, <1>0, <1>2, <1>7, <1>8, <1>9, <1>10, <1>11 DEF DInv

LEMMA RemoveTmpKeeps ==
    ASSUME DInv, NEW n \in DOMAIN writing, RemoveTmp(n)
    PROVE  DInv'
<1>0. Types /\ Numbering
  BY Zenon DEF DInv
<1>1. /\ writing[n] = "remove" /\ tmp' = Drop(tmp, n) /\ writing' = Drop(writing, n)
      /\ UNCHANGED <<disk, broken, batch_file, inserted, linked, file_names_increment, should_batch_inserts, pc, files,
                     todo, batch, left, applied, seen, faults, absent, null_remote>>
  BY Zenon DEF RemoveTmp, monitor, memory, remote, dirs
<1>2. /\ DOMAIN tmp' = DOMAIN tmp \ {n} /\ (\A k \in DOMAIN tmp' : tmp'[k] = tmp[k])
      /\ DOMAIN writing' = DOMAIN writing \ {n} /\ (\A k \in DOMAIN writing' : writing'[k] = writing[k])
  BY Zenon, <1>1 DEF Drop
<1>3. \A k : Linking(k)' => Linking(k)
  BY Zenon, <1>2 DEF Linking
<1>4. Types'
  <2>1. Files(tmp)' /\ Files(disk)' /\ Files(broken)' /\ Files(files)'
    BY Zenon, <1>0, <1>1, <1>2 DEF Types, Files
  <2> QED
    BY Zenon, <1>0, <1>1, <2>1 DEF Types
<1>5. Numbering'
  <2>1. Numbers' \subseteq Numbers
    BY Zenon, <1>1, <1>2 DEF Numbers
  <2> QED
    BY SMTT(30), <1>0, <1>1, <1>2, <1>3, <2>1 DEF Numbering
<1> QED
  BY Zenon, <1>1, <1>3, <1>4, <1>5, QuietKeeps DEF DInv

LEMMA InitializeKeeps ==
    ASSUME DInv, initializeFileNamesIncrement
    PROVE  DInv'
<1>0. Types /\ Numbering
  BY Zenon DEF DInv
<1>1. /\ file_names_increment' \in {0} \cup Numbers /\ \A k \in Numbers : k <= file_names_increment'
      /\ UNCHANGED <<disk, broken, batch_file, tmp, writing, inserted, linked, should_batch_inserts, pc, files,
                     todo, batch, left, applied, seen, faults, absent, null_remote>>
  BY Zenon DEF initializeFileNamesIncrement, monitor, memory, remote, dirs, Numbers
<1>2. \A k : Linking(k)' <=> Linking(k)
  BY Zenon, <1>1 DEF Linking
<1>3. file_names_increment' \in Nat /\ file_names_increment' <= inserted
  <2>1. \A k \in Numbers : k \in Nat /\ k <= inserted
    BY <1>0 DEF Types, Files, Numbers
  <2> QED
    BY <1>0, <1>1, <2>1 DEF Types
<1>4. Types'
  BY Zenon, <1>0, <1>1, <1>3 DEF Types, Files
<1>5. Numbering'
  <2>1. Numbers' = Numbers
    BY Zenon, <1>1 DEF Numbers
  <2> QED
    BY Zenon, <1>0, <1>1, <1>2, <2>1 DEF Numbering
<1> QED
  BY Zenon, <1>1, <1>2, <1>4, <1>5, QuietKeeps DEF DInv

-----------------------------------------------------------------------------
\* Steps that change no file of a block

Directories == <<tmp, disk, broken, inserted, linked, should_batch_inserts>>

LEMMA NumberingKeeps ==
    ASSUME DInv, UNCHANGED Directories, DOMAIN writing' \subseteq DOMAIN writing, \A k : Linking(k)' => Linking(k),
           file_names_increment' \in {file_names_increment, -1}
    PROVE  Numbering'
<1>1. Numbering /\ Numbers' = Numbers
  BY Zenon DEF DInv, Numbers, Directories
<1> QED
  BY <1>1 DEF Numbering, Directories

\* The pass ends
LEMMA EndOfPassKeeps ==
    ASSUME DInv, UNCHANGED <<Directories, batch_file, applied, seen, absent>>, \A k : Linking(k)' => Linking(k),
           pc' \in {"idle", "down"}, todo' = {}, batch' = <<>>, left' = <<>>, Range(files') \subseteq linked
    PROVE  Blocks' /\ Listing' /\ Saved' /\ (absent' \/ Once')
<1>0. Blocks /\ Listing /\ Saved /\ (absent \/ Once) /\ ~CleaningUp'
  BY Zenon DEF DInv, CleaningUp
<1>1. Blocks'
  BY Zenon, <1>0 DEF Blocks, NothingLost, Directories
<1>2. Range(batch') = {} /\ Range(left') = {} /\ Current' = {} /\ Increasing(batch') /\ Increasing(left')
  BY DEF Range, Increasing, Current
<1>3. Listing'
  BY Zenon, <1>0, <1>2 DEF Listing
<1>4. Saved'
  BY Zenon, <1>0 DEF Saved
<1>5. \A q : (Whole(q) => Whole(q)') /\ (Gone(q) => Gone(q)') /\ \A n : Lacks(q, n) => Lacks(q, n)'
  BY Zenon DEF Whole, Gone, Lacks, Directories
<1>6. \A n : Again(n)' <=> Again(n)
  BY Zenon DEF Again, Directories
<1>7. ASSUME Once
      PROVE  Once'
  <2>1. should_batch_inserts =>
          \A k \in DOMAIN disk : Again(k) => \E q \in batch_file : k \in Range(q) /\ (Whole(q)' \/ Lacks(q, k)')
    BY Zenon, <1>5, <1>7 DEF Once
  <2> QED
    BY Zenon, <1>0, <1>6, <1>7, <2>1 DEF Once, Directories
<1> QED
  BY Zenon, <1>0, <1>1, <1>3, <1>4, <1>7

LEMMA EmptyFacts == DOMAIN Empty = {} /\ Range(Empty) = {}
BY Zenon DEF Empty, Range

LEMMA DownKeeps ==
    ASSUME DInv, Crash \/ SendNothing
    PROVE  DInv'
<1>0. Types /\ MaxFaults \in Nat
  BY Zenon, MonitorConstants DEF DInv
<1>1. /\ UNCHANGED <<Directories, batch_file, file_names_increment, applied, seen, absent>>
      /\ pc' = "down" /\ files' = Empty /\ todo' = {} /\ batch' = <<>> /\ left' = <<>> /\ writing' = Empty
  BY Zenon DEF Crash, SendNothing, Directories, dirs, remote, ForgetPass
<1>2. faults' \in Nat /\ faults' <= MaxFaults
  BY <1>0 DEF Crash, SendNothing, Types
<1>3. DOMAIN writing' = {} /\ \A k : ~Linking(k)'
  BY Zenon, <1>1, EmptyFacts DEF Linking
<1>4. Types'
  <2>1. Files(tmp)' /\ Files(disk)' /\ Files(broken)' /\ Files(files)'
    BY Zenon, <1>0, <1>1, EmptyFacts DEF Types, Files, Directories
  <2> QED
    BY <1>0, <1>1, <1>2, <2>1 DEF Types, Directories
<1>5. Numbering'
  BY Zenon, <1>1, <1>3, NumberingKeeps
<1> QED
  BY Zenon, <1>1, <1>3, <1>4, <1>5, EndOfPassKeeps, EmptyFacts DEF DInv

LEMMA StartupKeeps ==
    ASSUME DInv, startup
    PROVE  DInv'
<1>0. Types /\ Listing /\ Range(files) \subseteq linked
  BY Zenon DEF DInv, Blocks
<1>1. /\ UNCHANGED <<Directories, batch_file, writing, applied, seen, absent, files, todo, batch, left, faults>>
      /\ pc = "down" /\ pc' = "idle" /\ file_names_increment' = -1
  BY Zenon DEF startup, Directories, dirs, remote, memory
<1>2. todo = {} /\ batch = <<>> /\ left = <<>>
  BY Zenon, <1>0, <1>1 DEF Listing, CleaningUp
<1>3. \A k : Linking(k)' <=> Linking(k)
  BY Zenon, <1>1 DEF Linking
<1>4. Types'
  <2>1. Files(tmp)' /\ Files(disk)' /\ Files(broken)' /\ Files(files)' /\ -1 <= inserted
    BY <1>0, <1>1 DEF Types, Files, Directories
  <2> QED
    BY Zenon, <1>0, <1>1, <2>1 DEF Types, Directories
<1>5. Numbering'
  BY Zenon, <1>1, <1>3, NumberingKeeps
<1> QED
  BY Zenon, <1>0, <1>1, <1>2, <1>3, <1>4, <1>5, EndOfPassKeeps DEF DInv

LEMMA findFilesKeeps ==
    ASSUME DInv, findFiles
    PROVE  DInv'
<1> DEFINE recovered == IF should_batch_inserts THEN Recovered ELSE <<>>
<1>0. Types /\ Numbering /\ Blocks /\ Listing /\ Saved /\ (absent \/ Once)
  BY Zenon DEF DInv
<1>1. /\ UNCHANGED <<Directories, batch_file, writing, file_names_increment, applied, seen, left, faults>>
      /\ pc = "idle" /\ files' = disk /\ batch' = recovered /\ todo' = DOMAIN disk \ Range(recovered)
      /\ pc' = (IF recovered = <<>> THEN "collect" ELSE "send")
      /\ absent' = (absent \/ ~(Range(recovered) \subseteq DOMAIN disk))
  BY Zenon DEF findFiles, Directories, dirs, remote, inserts
<1>2. recovered = <<>> \/ (should_batch_inserts /\ recovered \in batch_file)
  BY Zenon DEF Recovered
<1>3. recovered \in Seq(Nat) /\ Increasing(recovered)
  <2> HIDE DEF recovered
  <2>1. <<>> \in Seq(Nat) /\ Increasing(<<>>)
    BY DEF Increasing
  <2> QED
    BY Zenon, <1>0, <1>2, <2>1 DEF Types, Listing
<1>4. should_batch_inserts => \A q \in batch_file : q = recovered
  <2>1. should_batch_inserts /\ batch_file # {} => recovered \in batch_file
    BY Zenon DEF Recovered
  <2> QED
    BY Zenon, <1>0, <2>1 DEF Types
<1> HIDE DEF recovered
<1>5. left = <<>> /\ left' = <<>> /\ ~CleaningUp' /\ pc' \in {"collect", "send"} /\ Range(left') = {} /\ Increasing(left')
  BY <1>0, <1>1 DEF Listing, CleaningUp, Range, Increasing
<1>6. \A k : Linking(k)' <=> Linking(k)
  BY Zenon, <1>1 DEF Linking
<1>7. Types'
  <2>1. Files(tmp)' /\ Files(disk)' /\ Files(broken)' /\ Files(files)'
    BY Zenon, <1>0, <1>1 DEF Types, Files, Directories
  <2> QED
    BY Zenon, <1>0, <1>1, <1>3, <1>5, <2>1 DEF Types, Directories
<1>8. Numbering'
  BY Zenon, <1>1, <1>6, NumberingKeeps
<1>9. Blocks'
  BY Zenon, <1>0, <1>1 DEF Blocks, NothingLost, Directories
<1>10. Listing'
  <2>1. Current' = Range(recovered)
    BY Zenon, <1>1, <1>5 DEF Current
  <2>2. recovered = <<>> => Range(recovered) = {}
    BY DEF Range
  <2> QED
    BY Zenon, <1>0, <1>1, <1>3, <1>5, <2>1, <2>2 DEF Listing, Directories
<1>11. Saved'
  BY Zenon, <1>0, <1>1, <1>2 DEF Saved, Directories
<1>12. ASSUME Once
       PROVE  Once'
  <2>1. \A q : (Whole(q) => Whole(q)') /\ (Gone(q) => Gone(q)') /\ \A n : Lacks(q, n) => Lacks(q, n)'
    BY Zenon, <1>1, <1>6 DEF Whole, Gone, Lacks, Directories
  <2>2. \A n : Again(n)' <=> Again(n)
    BY Zenon, <1>1 DEF Again, Directories
  <2>3. should_batch_inserts =>
          \A k \in DOMAIN disk : Again(k) => \E q \in batch_file : k \in Range(q) /\ (Whole(q)' \/ Lacks(q, k)')
    BY Zenon, <1>12, <2>1 DEF Once
  <2>4. should_batch_inserts /\ recovered = <<>> => \A k \in DOMAIN disk : ~Again(k)
    BY <1>4, <1>12 DEF Once, Range
  <2> QED
    BY Zenon, <1>1, <1>5, <1>12, <2>2, <2>3, <2>4 DEF Once, Directories
<1> QED
  BY Zenon, <1>0, <1>1, <1>7, <1>8, <1>9, <1>10, <1>11, <1>12 DEF DInv

-----------------------------------------------------------------------------
\* Steps of a pass

LEMMA CollectEndKeeps ==
    ASSUME DInv, CollectEnd
    PROVE  DInv'
<1>0. Types /\ Numbering /\ Blocks /\ Listing /\ Saved /\ (absent \/ Once)
  BY Zenon DEF DInv
<1>1. /\ UNCHANGED <<Directories, writing, file_names_increment, applied, seen, todo, batch, left, faults, absent>>
      /\ pc = "collect" /\ todo = {}
      /\ \/ batch # <<>> /\ pc' = "save" /\ batch_file' = batch_file /\ files' = files
         \/ /\ batch = <<>> /\ pc' = "idle" /\ files' = Empty
            /\ batch_file' = (IF should_batch_inserts THEN {} ELSE batch_file)
  BY Zenon DEF CollectEnd, Directories, remote, inserts
<1>2. \A k : Linking(k)' <=> Linking(k)
  BY Zenon, <1>1 DEF Linking
<1>3. Numbering'
  BY Zenon, <1>1, <1>2, NumberingKeeps
<1>4. \A n : Again(n)' <=> Again(n)
  BY Zenon, <1>1 DEF Again, Directories
<1>5. Once => Once'
  <2>1. Once => IsInjective(applied) /\ (should_batch_inserts => \A k \in DOMAIN disk : ~Again(k))
    BY Zenon, <1>1 DEF Once
  <2> QED
    BY Zenon, <1>1, <1>4, <2>1 DEF Once, CleaningUp, Directories
<1>6. Types' /\ Blocks'
  <2>1. Files(tmp)' /\ Files(disk)' /\ Files(broken)' /\ Files(files)'
    BY Zenon, <1>0, <1>1, EmptyFacts DEF Types, Files, Directories
  <2>2. batch_file' \subseteq batch_file
    BY Zenon, <1>1
  <2>3. Types'
    BY Zenon, <1>0, <1>1, <2>1, <2>2 DEF Types, Directories
  <2>4. Range(files') \subseteq Range(files)
    BY Zenon, <1>1, EmptyFacts
  <2> QED
    BY Zenon, <1>0, <1>1, <2>3, <2>4 DEF Blocks, NothingLost, Directories
<1>7. CASE batch # <<>> /\ pc' = "save" /\ batch_file' = batch_file /\ files' = files
  <2>1. Current' = Current
    BY Zenon, <1>1, <1>7 DEF Current, CleaningUp
  <2>2. Listing'
    BY Zenon, <1>0, <1>1, <1>7, <2>1 DEF Listing, CleaningUp, Directories
  <2>3. Saved'
    BY Zenon, <1>0, <1>1, <1>7 DEF Saved, Directories
  <2> QED
    BY Zenon, <1>0, <1>1, <1>3, <1>5, <1>6, <2>2, <2>3 DEF DInv
<1>8. CASE batch = <<>> /\ pc' = "idle" /\ files' = Empty /\ batch_file' \subseteq batch_file
  <2>1. Range(batch') = {} /\ Current' = {}
    BY <1>1, <1>8 DEF Current, CleaningUp, Range
  <2>2. Listing'
    BY Zenon, <1>0, <1>1, <1>8, <2>1, EmptyFacts DEF Listing, CleaningUp, Directories
  <2>3. Saved'
    BY Zenon, <1>0, <1>1, <1>8 DEF Saved, Directories
  <2> QED
    BY Zenon, <1>0, <1>1, <1>3, <1>5, <1>6, <2>2, <2>3 DEF DInv
<1> QED
  BY Zenon, <1>1, <1>7, <1>8

LEMMA SaveBatchKeeps ==
    ASSUME DInv, SaveBatch
    PROVE  DInv'
<1>0. Types /\ Numbering /\ Blocks /\ Listing /\ Saved /\ (absent \/ Once)
  BY Zenon DEF DInv
<1>1. /\ UNCHANGED <<Directories, writing, file_names_increment, applied, seen, files, todo, batch, left, faults, absent>>
      /\ \/ pc = "save" /\ batch_file' = {<<>>} /\ pc' = "write"
         \/ pc = "write" /\ batch_file' = {batch} /\ pc' = "send"
  BY Zenon DEF SaveBatch, Directories, remote, inserts, memory
<1>2. \A k : Linking(k)' <=> Linking(k)
  BY Zenon, <1>1 DEF Linking
<1>3. Numbering'
  BY Zenon, <1>1, <1>2, NumberingKeeps
<1>4. \A n : Again(n)' <=> Again(n)
  BY Zenon, <1>1 DEF Again, Directories
<1>5. Once => Once'
  <2>1. Once => IsInjective(applied) /\ (should_batch_inserts => \A k \in DOMAIN disk : ~Again(k))
    BY Zenon, <1>1 DEF Once
  <2> QED
    BY Zenon, <1>1, <1>4, <2>1 DEF Once, CleaningUp, Directories
<1>6. <<>> \in Seq(Nat) /\ Increasing(<<>>) /\ Increasing(batch)
  BY <1>0 DEF Increasing, Listing
<1>7. Types'
  <2>1. Files(tmp)' /\ Files(disk)' /\ Files(broken)' /\ Files(files)'
    BY Zenon, <1>0, <1>1 DEF Types, Files, Directories
  <2> QED
    BY Zenon, <1>0, <1>1, <1>6, <2>1 DEF Types, Directories
<1>8. Blocks'
  BY Zenon, <1>0, <1>1 DEF Blocks, NothingLost, Directories
<1>9. Listing'
  <2>1. Current' = Current
    BY Zenon, <1>1 DEF Current, CleaningUp
  <2>2. \A q \in batch_file' : Increasing(q)
    BY Zenon, <1>1, <1>6
  <2> QED
    BY Zenon, <1>0, <1>1, <2>1, <2>2 DEF Listing, CleaningUp, Directories
<1>10. Saved'
  BY Zenon, <1>0, <1>1 DEF Saved, Listing, Directories
<1> QED
  BY Zenon, <1>0, <1>1, <1>3, <1>5, <1>7, <1>8, <1>9, <1>10 DEF DInv

\* A file is removed whose block the remote table has, or moved to broken/
LEMMA FileGone ==
    ASSUME DInv, NEW n \in DOMAIN disk, disk' = Drop(disk, n),
           \/ broken' = Put(broken, n, disk[n])
           \/ broken' = broken /\ disk[n] \in Range(applied),
           UNCHANGED <<tmp, inserted, linked, writing, file_names_increment, files, applied, seen>>
    PROVE  /\ Numbering' /\ Blocks' /\ Files(tmp)' /\ Files(disk)' /\ Files(broken)' /\ Files(files)'
           /\ DOMAIN disk' = DOMAIN disk \ {n} /\ (\A k \in DOMAIN disk' : disk'[k] = disk[k])
           /\ \A k : Again(k)' <=> Again(k) /\ k # n
<1>0. Types /\ Numbering /\ Blocks
  BY Zenon DEF DInv
<1>1. DOMAIN disk' = DOMAIN disk \ {n} /\ \A k \in DOMAIN disk' : disk'[k] = disk[k]
  BY Zenon DEF Drop
<1>2. n \notin DOMAIN broken
  BY Zenon, <1>0 DEF Numbering
<1>3. DOMAIN broken' \subseteq DOMAIN broken \cup {n} /\ Range(broken) \subseteq Range(broken')
      /\ (\A k \in DOMAIN broken' : (k = n /\ broken'[k] = disk[k]) \/ (k \in DOMAIN broken /\ broken'[k] = broken[k]))
      /\ (disk[n] \in Range(broken') \/ disk[n] \in Range(applied))
  <2>1. CASE broken' = Put(broken, n, disk[n])
    <3>1. /\ DOMAIN broken' = DOMAIN broken \cup {n} /\ broken'[n] = disk[n]
          /\ \A k \in DOMAIN broken : k # n => broken'[k] = broken[k]
      BY <2>1 DEF Put
    <3>2. \A k \in DOMAIN broken : k # n
      BY Zenon, <1>2
    <3> QED
      BY Zenon, <3>1, <3>2 DEF Range
  <2>2. CASE broken' = broken /\ disk[n] \in Range(applied)
    BY Zenon, <2>2
  <2> QED
    BY Zenon, <2>1, <2>2
<1>4. Files(tmp)' /\ Files(disk)' /\ Files(broken)' /\ Files(files)'
  <2>1. Files(tmp)' /\ Files(files)'
    BY Zenon, <1>0 DEF Types, Files
  <2>2. Files(disk)'
    BY Zenon, <1>0, <1>1 DEF Types, Files
  <2>3. Files(broken)'
    BY Zenon, <1>0, <1>3 DEF Types, Files
  <2> QED
    BY Zenon, <2>1, <2>2, <2>3
<1>5. Numbering'
  <2>1. Numbers' \subseteq Numbers
    BY Zenon, <1>1, <1>3 DEF Numbers
  <2>2. \A k : Linking(k)' <=> Linking(k)
    BY Zenon DEF Linking
  <2>3. DOMAIN disk' \cap DOMAIN broken' = {}
    BY Zenon, <1>0, <1>1, <1>3 DEF Numbering
  <2>4. \A k \in DOMAIN tmp : Linking(k) => k \notin DOMAIN disk' /\ k \notin DOMAIN broken' /\ tmp[k] \notin linked
    BY Zenon, <1>0, <1>1, <1>3 DEF Numbering
  <2> QED
    BY Zenon, <1>0, <1>1, <2>1, <2>2, <2>3, <2>4 DEF Numbering
<1>6. Blocks'
  <2>1. Range(disk') \subseteq Range(disk) /\ Range(disk) \subseteq Range(disk') \cup {disk[n]}
    BY Zenon, <1>1 DEF Range
  <2> QED
    BY Zenon, <1>0, <1>3, <2>1 DEF Blocks, NothingLost
<1> QED
  BY Zenon, <1>1, <1>4, <1>5, <1>6 DEF Again

LEMMA CollectKeeps ==
    ASSUME DInv, Collect
    PROVE  DInv'
<1>0. Types /\ Numbering /\ Blocks /\ Listing /\ Saved /\ (absent \/ Once)
  BY Zenon DEF DInv
<1>1. PICK n \in todo :
         /\ \A m \in todo : n <= m
         /\ todo' = todo \ {n}
         /\ IF should_batch_inserts /\ files[n] \in Damaged
            THEN markAsBroken(n) /\ batch' = batch /\ pc' = pc
            ELSE /\ batch' = Append(batch, n)
                 /\ pc' = IF ~should_batch_inserts THEN "send"
                          ELSE IF Len(batch') >= min_batched THEN "save" ELSE "collect"
                 /\ disk' = disk /\ broken' = broken
  BY Zenon DEF Collect
<1>2. /\ UNCHANGED <<tmp, inserted, linked, writing, file_names_increment, should_batch_inserts, batch_file,
                     files, left, applied, seen, faults, absent>>
      /\ pc = "collect"
  BY Zenon DEF Collect, inserts, remote
<1>3. n \in DOMAIN files /\ n \in DOMAIN disk /\ disk[n] = files[n] /\ n \notin Range(batch) /\ n \in Nat /\ ~CleaningUp
  BY Zenon, <1>0, <1>2 DEF Listing, Types, Files, CleaningUp
<1>4. \A k : Linking(k)' <=> Linking(k)
  BY Zenon, <1>2 DEF Linking
<1>5. CASE should_batch_inserts /\ files[n] \in Damaged
  <2>1. disk' = Drop(disk, n) /\ broken' = Put(broken, n, disk[n]) /\ batch' = batch /\ pc' = pc
    BY Zenon, <1>1, <1>5 DEF markAsBroken
  <2>2. /\ Numbering' /\ Blocks' /\ Files(tmp)' /\ Files(disk)' /\ Files(broken)' /\ Files(files)'
        /\ DOMAIN disk' = DOMAIN disk \ {n} /\ (\A k \in DOMAIN disk' : disk'[k] = disk[k])
        /\ \A k : Again(k)' <=> Again(k) /\ k # n
    BY Zenon, <1>2, <1>3, <2>1, FileGone
  <2>3. Types'
    BY Zenon, <1>0, <1>2, <2>1, <2>2 DEF Types
  <2>4. Listing'
    <3>1. Current = Range(batch) /\ Current' = Range(batch)
      BY Zenon, <1>2, <1>3, <2>1 DEF Current, CleaningUp
    <3>2. \A k \in DOMAIN files : k \in todo' \cup Range(batch) => k \in DOMAIN disk' /\ disk'[k] = files[k]
      BY Zenon, <1>0, <1>1, <1>3, <2>2, <3>1 DEF Listing
    <3> QED
      BY Zenon, <1>0, <1>1, <1>2, <2>1, <3>1, <3>2 DEF Listing, CleaningUp
  <2>5. Saved'
    BY Zenon, <1>0, <1>2, <2>1 DEF Saved
  <2>6. Once => Once'
    <3>1. Once => IsInjective(applied) /\ \A k \in DOMAIN disk' : ~Again(k)'
      BY Zenon, <1>2, <1>5, <2>2 DEF Once
    <3> QED
      BY Zenon, <1>2, <1>5, <2>1, <3>1 DEF Once, CleaningUp
  <2> QED
    BY Zenon, <1>0, <1>2, <2>2, <2>3, <2>4, <2>5, <2>6 DEF DInv
<1>6. CASE ~(should_batch_inserts /\ files[n] \in Damaged)
  <2>1. /\ batch' = Append(batch, n) /\ disk' = disk /\ broken' = broken
        /\ (should_batch_inserts /\ pc' \in {"save", "collect"}) \/ (~should_batch_inserts /\ pc' = "send")
    BY Zenon, <1>1, <1>6
  <2>2. batch \in Seq(Nat) /\ Increasing(batch) /\ \A m \in Range(batch) : m < n /\ m \in Nat
    <3>1. batch \in Seq(Nat)
      BY Zenon, <1>0 DEF Types
    <3>2. Increasing(batch) /\ \A m \in Range(batch) : m < n
      BY Zenon, <1>0, <1>2 DEF Listing
    <3>3. \A m \in Range(batch) : m \in Nat
      BY <3>1 DEF Range
    <3> QED
      BY Zenon, <3>1, <3>2, <3>3
  <2>3. /\ batch' \in Seq(Nat) /\ batch' # <<>> /\ Len(batch') = Len(batch) + 1 /\ Range(batch') = Range(batch) \cup {n}
        /\ Increasing(batch')
    BY Zenon, <1>3, <2>1, <2>2, AppendFacts
  <2>4. Types'
    <3>1. Files(tmp)' /\ Files(disk)' /\ Files(broken)' /\ Files(files)'
      BY Zenon, <1>0, <1>2, <2>1 DEF Types, Files
    <3> QED
      BY Zenon, <1>0, <1>2, <2>1, <2>3, <3>1 DEF Types
  <2>5. Numbering'
    BY Zenon, <1>2, <1>4, <2>1, NumberingKeeps DEF Directories
  <2>6. Blocks'
    BY Zenon, <1>0, <1>2, <2>1 DEF Blocks, NothingLost
  <2>7. Listing'
    <3>1. Current = Range(batch) /\ Current' = Range(batch') /\ ~CleaningUp'
      BY Zenon, <1>2, <1>3, <2>1 DEF Current, CleaningUp
    <3>2. \A k \in DOMAIN files : k \in todo' \cup Range(batch') => k \in DOMAIN disk /\ disk[k] = files[k]
      BY Zenon, <1>0, <1>1, <1>3, <2>3, <3>1 DEF Listing
    <3>3. \A k \in todo' : n < k
      <4>1. \A k \in todo : k \in Nat
        BY Zenon, <1>0 DEF Listing, Types, Files
      <4> QED
        BY SMTT(30), <1>1, <1>3, <4>1
    <3>4. \A m \in Range(batch'), k \in todo' : m < k
      <4>1. \A m \in Range(batch), k \in todo : m < k
        BY Zenon, <1>0, <1>2 DEF Listing
      <4> QED
        BY Zenon, <1>1, <2>3, <3>3, <4>1
    <3>5. todo' \subseteq DOMAIN files /\ todo' \cap Range(batch') = {} /\ Range(batch') \subseteq DOMAIN files
      <4>1. todo \subseteq DOMAIN files /\ todo \cap Range(batch) = {} /\ Range(batch) \subseteq DOMAIN files
        BY Zenon, <1>0, <1>2 DEF Listing
      <4> QED
        BY Zenon, <1>1, <1>3, <2>3, <4>1
    <3>6. left' = <<>> /\ Range(left') = {} /\ Increasing(left')
      BY <1>0, <1>2, <1>3 DEF Listing, Range, Increasing
    <3>7. \A q \in batch_file : Increasing(q)
      BY Zenon, <1>0 DEF Listing
    <3> QED
      BY Zenon, <1>2, <2>1, <2>3, <3>1, <3>2, <3>4, <3>5, <3>6, <3>7 DEF Listing, CleaningUp
  <2>8. Saved'
    <3>1. Range(batch') \subseteq DOMAIN files
      BY Zenon, <1>0, <1>2, <1>3, <2>3 DEF Listing
    <3>2. ~should_batch_inserts => Len(batch') = 1
      BY <1>0, <1>2, <2>3 DEF Saved
    <3> QED
      BY Zenon, <1>2, <2>1, <2>3, <3>1, <3>2 DEF Saved
  <2>9. Once => Once'
    <3>1. \A k : Again(k)' <=> Again(k)
      BY Zenon, <1>2, <2>1 DEF Again
    <3>2. Once => IsInjective(applied) /\ (should_batch_inserts => \A k \in DOMAIN disk : ~Again(k))
      BY Zenon, <1>2 DEF Once
    <3> QED
      BY Zenon, <1>2, <2>1, <3>1, <3>2 DEF Once, CleaningUp
  <2> QED
    BY Zenon, <1>0, <1>2, <2>4, <2>5, <2>6, <2>7, <2>8, <2>9 DEF DInv
<1> QED
  BY Zenon, <1>5, <1>6

LEMMA BatchDoneKeeps ==
    ASSUME DInv, BatchDone
    PROVE  DInv'
<1>0. Types /\ Numbering /\ Blocks /\ Listing /\ Saved /\ (absent \/ Once)
  BY Zenon DEF DInv
<1>1. /\ UNCHANGED <<Directories, writing, file_names_increment, applied, seen, left, faults, absent>>
      /\ pc \in {"remove", "mark"} /\ left = <<>> /\ batch' = <<>>
      /\ \/ should_batch_inserts /\ batch_file' = {<<>>} /\ pc' = "collect" /\ UNCHANGED <<files, todo>>
         \/ ~should_batch_inserts /\ pc' = "collect" /\ UNCHANGED <<batch_file, files, todo>>
         \/ ~should_batch_inserts /\ pc' = "idle" /\ files' = Empty /\ todo' = {} /\ UNCHANGED batch_file
  BY Zenon DEF BatchDone, Directories, remote, inserts
<1>2. \A k : Linking(k)' <=> Linking(k)
  BY Zenon, <1>1 DEF Linking
<1>3. Numbering'
  BY Zenon, <1>1, <1>2, NumberingKeeps
<1>4. \A n : Again(n)' <=> Again(n)
  BY Zenon, <1>1 DEF Again, Directories
<1>5. <<>> \in Seq(Nat) /\ Increasing(<<>>) /\ Range(<<>>) = {}
  BY SMTT(30) DEF Increasing, Range
<1>6. Once => Once'
  <2>1. Once => IsInjective(applied) /\ (should_batch_inserts => \A k \in DOMAIN disk : ~Again(k))
    BY Zenon, <1>1, <1>5 DEF Once, CleaningUp
  <2> QED
    BY Zenon, <1>1, <1>4, <2>1 DEF Once, CleaningUp, Directories
<1>7. Types'
  <2>1. Files(tmp)' /\ Files(disk)' /\ Files(broken)' /\ Files(files)'
    BY Zenon, <1>0, <1>1, EmptyFacts DEF Types, Files, Directories
  <2>2. batch_file' \subseteq Seq(Nat) /\ \A a, b \in batch_file' : a = b
    BY Zenon, <1>0, <1>1, <1>5 DEF Types
  <2> QED
    BY Zenon, <1>0, <1>1, <1>5, <2>1, <2>2 DEF Types, Directories
<1>8. Blocks'
  BY Zenon, <1>0, <1>1, EmptyFacts DEF Blocks, NothingLost, Directories
<1>9. Listing'
  <2>1. Current' = {} /\ Range(batch') = {} /\ ~CleaningUp'
    BY Zenon, <1>1, <1>5 DEF Current, CleaningUp
  <2>2. \A q \in batch_file' : Increasing(q)
    BY <1>0, <1>1, <1>5 DEF Listing
  <2>3. todo' \subseteq todo /\ todo' \subseteq DOMAIN files' /\ (todo' # {} => files' = files)
    BY Zenon, <1>0, <1>1, EmptyFacts DEF Listing
  <2> QED
    BY Zenon, <1>0, <1>1, <1>5, <2>1, <2>2, <2>3 DEF Listing, Directories
<1>10. Saved'
  BY Zenon, <1>1 DEF Saved, Directories
<1> QED
  BY Zenon, <1>0, <1>1, <1>3, <1>6, <1>7, <1>8, <1>9, <1>10 DEF DInv

-----------------------------------------------------------------------------
\* Steps of a send

\* A batch none of whose files was gone is sent as its files were written
LEMMA SentWhole ==
    ASSUME Least, DInv, pc = "send", ~absent
    PROVE  /\ Range(batch) \subseteq DOMAIN disk
           /\ Sent = [i \in DOMAIN batch |-> disk[batch[i]]] /\ Range(Sent) = {disk[n] : n \in Range(batch)}
           /\ IsInjective(Sent)
           /\ \A k \in DOMAIN disk : disk[k] \in Range(Sent) => k \in Range(batch)
<1>0. Types /\ Numbering /\ Listing /\ Saved /\ Current = Range(batch)
  BY Zenon DEF DInv, Current, CleaningUp
<1>1. batch \in Seq(Nat) /\ Increasing(batch) /\ Range(batch) \subseteq DOMAIN files
  BY Zenon, <1>0 DEF Types, Listing, Saved
<1>2. \A n \in Range(batch) : n \in DOMAIN disk /\ disk[n] = files[n]
  BY Zenon, <1>0, <1>1 DEF Listing
<1>3. \A i \in DOMAIN batch : batch[i] \in Range(batch)
  BY Zenon DEF Range
<1>4. Sent = [i \in DOMAIN batch |-> disk[batch[i]]]
  <2>1. Sent = [i \in DOMAIN batch |-> files[batch[i]]]
    BY Zenon, <1>1, SentFacts
  <2>2. \A i \in DOMAIN batch : files[batch[i]] = disk[batch[i]]
    BY Zenon, <1>2, <1>3
  <2> QED
    BY Zenon, <2>1, <2>2
<1>5. \A m, n \in DOMAIN disk : disk[m] = disk[n] => m = n
  <2>1. \A m \in DOMAIN disk : m \in Nat /\ disk[m] \in Nat
    BY Zenon, <1>0 DEF Types, Files
  <2>2. \A m, n \in DOMAIN disk : m < n => disk[m] < disk[n]
    BY Zenon, <1>0 DEF Numbering
  <2>3. ASSUME NEW m \in DOMAIN disk, NEW n \in DOMAIN disk, disk[m] = disk[n]
        PROVE  ~(m < n) /\ ~(n < m)
    BY <2>1, <2>2, <2>3
  <2> QED
    BY <2>1, <2>3
<1>6. Range(Sent) = {disk[n] : n \in Range(batch)}
  BY Zenon, <1>4 DEF Range
<1>7. IsInjective(Sent)
  <2>1. ASSUME NEW i \in DOMAIN batch, NEW j \in DOMAIN batch, disk[batch[i]] = disk[batch[j]]
        PROVE  i = j
    <3>1. batch[i] = batch[j]
      BY Zenon, <1>2, <1>3, <1>5, <2>1
    <3> QED
      BY Zenon, <1>1, <3>1, IncreasingOnce
  <2>2. DOMAIN Sent = DOMAIN batch /\ \A i \in DOMAIN batch : Sent[i] = disk[batch[i]]
    BY Zenon, <1>4
  <2> QED
    BY Zenon, <2>1, <2>2 DEF IsInjective
<1>8. \A k \in DOMAIN disk : disk[k] \in Range(Sent) => k \in Range(batch)
  BY Zenon, <1>2, <1>5, <1>6
<1> QED
  BY Zenon, <1>2, <1>4, <1>6, <1>7, <1>8

\* What the remote table has after a send, of which the answer may have been lost
LEMMA InsertBlocks ==
    ASSUME Least, DInv, Insert \/ UNCHANGED remote
    PROVE  /\ applied' \in Seq(Nat) /\ seen' \subseteq Seq(Nat) /\ Range(applied') \subseteq linked
           /\ Range(applied) \subseteq Range(applied') /\ \A s \in seen' : Range(s) \subseteq Range(applied')
           /\ Insert => Range(applied') = Range(applied) \cup Range(Sent)
<1>0. /\ applied \in Seq(Nat) /\ seen \subseteq Seq(Nat) /\ Range(applied) \subseteq linked
      /\ \A s \in seen : Range(s) \subseteq Range(applied)
  BY Zenon DEF DInv, Types, Blocks
<1>1. CASE Insert
  <2>1. Sent \in Seq(Nat) /\ Range(Sent) \subseteq linked
    BY Zenon, SentFacts
  <2>2. seen' = seen \cup {Sent} /\ applied' = (IF Sent \in seen THEN applied ELSE applied \o Sent)
    BY Zenon, <1>1 DEF Insert
  <2>3. applied' \in Seq(Nat) /\ Range(applied') = Range(applied) \cup Range(Sent)
    <3>1. CASE Sent \in seen
      BY Zenon, <1>0, <2>2, <3>1
    <3>2. CASE Sent \notin seen
      BY Zenon, <1>0, <2>1, <2>2, <3>2, ConcatFacts
    <3> QED
      BY Zenon, <3>1, <3>2
  <2> QED
    BY Zenon, <1>0, <2>1, <2>2, <2>3
<1>2. CASE UNCHANGED remote /\ ~Insert
  BY Zenon, <1>0, <1>2 DEF remote
<1> QED
  BY Zenon, <1>1, <1>2

\* Deduplication: what was sent before is sent again as the same insert, so that no block
\* comes in twice, and what may be sent again is what the remote server knows
LEMMA InsertOnce ==
    ASSUME Least, DInv, pc = "send", ~absent, Insert \/ UNCHANGED remote, UNCHANGED disk, NEW q, q = batch
    PROVE  /\ IsInjective(applied')
           /\ should_batch_inserts =>
                \A k \in DOMAIN disk : Again(k)' => k \in Range(q) /\ Whole(q)'
           /\ ~should_batch_inserts => \A k \in DOMAIN disk : Again(k)' => <<disk[k]>> \in seen'
<1>0. Once /\ Types /\ Saved
  BY Zenon DEF DInv
<1>1. /\ Range(batch) \subseteq DOMAIN disk
      /\ Sent = [i \in DOMAIN batch |-> disk[batch[i]]] /\ IsInjective(Sent)
      /\ \A k \in DOMAIN disk : disk[k] \in Range(Sent) => k \in Range(batch)
  BY Zenon, SentWhole
<1>2. Sent \in Seq(Nat) /\ applied \in Seq(Nat) /\ IsInjective(applied)
  BY Zenon, <1>0, SentFacts DEF Once, Types
<1>3. batch \in Seq(Nat) /\ batch # <<>> /\ batch[1] \in Range(batch)
  BY <1>0, TailFacts DEF Types, Saved
<1>4. ASSUME should_batch_inserts, NEW k \in DOMAIN disk, Again(k)
      PROVE  k \in Range(batch) /\ Whole(batch)
  <2>1. \A r \in batch_file : r = batch
    BY Zenon, <1>0, <1>4 DEF Types, Saved
  <2>2. k \in Range(batch) /\ (Whole(batch) \/ Lacks(batch, k))
    BY Zenon, <1>0, <1>4, <2>1 DEF Once
  <2> QED
    BY Zenon, <1>1, <1>3, <2>2 DEF Lacks, Gone
<1>5. ASSUME ~should_batch_inserts
      PROVE  /\ Range(batch) = {batch[1]} /\ Sent = <<disk[batch[1]]>>
             /\ \A k \in DOMAIN disk : Again(k) => <<disk[k]>> \in seen
  <2>1. Len(batch) = 1
    BY Zenon, <1>0, <1>5 DEF Saved
  <2>2. DOMAIN batch = {1}
    BY <1>3, <2>1
  <2>3. Range(batch) = {batch[1]}
    BY Zenon, <2>2 DEF Range
  <2>4. Len(Sent) = 1 /\ Sent[1] = disk[batch[1]]
    BY <1>1, <1>2, <2>2
  <2>5. Sent = <<disk[batch[1]]>>
    BY <1>2, <2>4
  <2> QED
    BY Zenon, <1>0, <1>5, <2>3, <2>5 DEF Once
<1>6. CASE Insert
  <2>1. seen' = seen \cup {Sent} /\ applied' = (IF Sent \in seen THEN applied ELSE applied \o Sent)
    BY Zenon, <1>6 DEF Insert
  <2>2. Range(applied') = Range(applied) \cup Range(Sent)
    BY Zenon, <1>6, InsertBlocks
  <2>3. Sent \notin seen => Range(applied) \cap Range(Sent) = {}
    <3>1. ASSUME NEW b \in Range(Sent), b \in Range(applied)
          PROVE  Sent \in seen
      <4>1. PICK k \in Range(batch) : b = disk[k] /\ k \in DOMAIN disk
        BY Zenon, <1>1, SentWhole
      <4>2. Again(k)
        BY Zenon, <3>1, <4>1 DEF Again
      <4>3. CASE should_batch_inserts
        BY Zenon, <1>1, <1>4, <4>1, <4>2, <4>3 DEF Whole
      <4>4. CASE ~should_batch_inserts
        BY Zenon, <1>5, <4>1, <4>2, <4>4
      <4> QED
        BY Zenon, <4>3, <4>4
    <3> QED
      BY Zenon, <3>1
  <2>4. IsInjective(applied')
    <3>1. CASE Sent \in seen
      BY Zenon, <1>2, <2>1, <3>1
    <3>2. CASE Sent \notin seen
      BY Zenon, <1>1, <1>2, <2>1, <2>3, <3>2, ConcatFacts
    <3> QED
      BY Zenon, <3>1, <3>2
  <2>5. Whole(q)'
    BY Zenon, <1>1, <2>1 DEF Whole
  <2>6. \A k \in DOMAIN disk : Again(k)' => k \in Range(batch) \/ Again(k)
    BY Zenon, <1>1, <2>2 DEF Again
  <2>7. should_batch_inserts => \A k \in DOMAIN disk : Again(k)' => k \in Range(batch)
    BY Zenon, <1>4, <2>6
  <2>8. ~should_batch_inserts => \A k \in DOMAIN disk : Again(k)' => <<disk[k]>> \in seen'
    BY Zenon, <1>5, <2>1, <2>6
  <2> QED
    BY Zenon, <2>4, <2>5, <2>7, <2>8
<1>7. CASE UNCHANGED remote
  <2>1. UNCHANGED <<applied, seen>>
    BY Zenon, <1>7 DEF remote
  <2>2. Whole(q) => Whole(q)'
    BY Zenon, <2>1 DEF Whole
  <2>3. \A k : Again(k)' <=> Again(k)
    BY Zenon, <2>1 DEF Again
  <2> QED
    BY Zenon, <1>2, <1>4, <1>5, <2>1, <2>2, <2>3
<1> QED
  BY Zenon, <1>6, <1>7

\* The send is over, and the files of its batch are about to be removed or marked
LEMMA SendEndsKeeps ==
    ASSUME Least, DInv, pc = "send", Insert \/ UNCHANGED remote,
           pc' = "mark" \/ (pc' = "remove" /\ Insert /\ Present = Len(batch)), left' = batch,
           UNCHANGED <<Directories, batch_file, writing, file_names_increment, files, todo, batch, absent>>,
           faults' \in Nat, faults' <= MaxFaults
    PROVE  DInv'
<1>0. Types /\ Numbering /\ Blocks /\ Listing /\ Saved /\ (absent \/ Once)
  BY Zenon DEF DInv
<1>1. /\ applied' \in Seq(Nat) /\ seen' \subseteq Seq(Nat) /\ Range(applied') \subseteq linked
      /\ Range(applied) \subseteq Range(applied') /\ \A s \in seen' : Range(s) \subseteq Range(applied')
  BY Zenon, InsertBlocks
<1>2. \A k : Linking(k)' <=> Linking(k)
  BY Zenon DEF Linking
<1>3. Numbering'
  BY Zenon, <1>2, NumberingKeeps
<1>4. Types'
  <2>1. Files(tmp)' /\ Files(disk)' /\ Files(broken)' /\ Files(files)'
    BY Zenon, <1>0 DEF Types, Files, Directories
  <2> QED
    BY Zenon, <1>0, <1>1, <2>1 DEF Types, Directories
<1>5. Blocks'
  BY Zenon, <1>0, <1>1 DEF Blocks, NothingLost, Directories
<1>6. Listing'
  <2>1. Current = Range(batch) /\ Current' = Range(batch) /\ CleaningUp' /\ Increasing(batch)
    BY Zenon, <1>0 DEF Current, CleaningUp, Listing
  <2>2. ASSUME pc' = "remove", NEW n \in Range(batch)
        PROVE  n \in DOMAIN files /\ files[n] \in Range(applied')
    <3>1. Range(batch) \subseteq DOMAIN files /\ Sent = [i \in DOMAIN batch |-> files[batch[i]]]
      BY Zenon, <2>2, SentFacts
    <3>2. files[n] \in Range(Sent)
      BY Zenon, <3>1 DEF Range
    <3> QED
      BY Zenon, <2>2, <3>1, <3>2, InsertBlocks
  <2> QED
    BY Zenon, <1>0, <2>1, <2>2 DEF Listing, Directories
<1>7. Saved'
  BY Zenon, <1>0 DEF Saved, Directories
<1>8. ASSUME ~absent
      PROVE  Once'
  <2>1. ASSUME NEW q, q = batch
        PROVE  /\ IsInjective(applied')
               /\ should_batch_inserts => \A k \in DOMAIN disk : Again(k)' => k \in Range(q) /\ Whole(q)'
               /\ ~should_batch_inserts => \A k \in DOMAIN disk : Again(k)' => <<disk[k]>> \in seen'
    BY Zenon, <1>8, <2>1, InsertOnce DEF Directories
  <2>2. should_batch_inserts => batch \in batch_file
    BY Zenon, <1>0 DEF Saved
  <2>3. should_batch_inserts =>
          \A k \in DOMAIN disk : Again(k)' => \E q \in batch_file : k \in Range(q) /\ (Whole(q)' \/ Lacks(q, k)')
    BY Zenon, <2>1, <2>2
  <2>4. should_batch_inserts => \A k \in DOMAIN disk : Again(k)' => k \in Range(left')
    BY Zenon, <2>1
  <2> QED
    BY Zenon, <2>1, <2>3, <2>4 DEF Once, Directories, CleaningUp
<1> QED
  BY Zenon, <1>0, <1>3, <1>4, <1>5, <1>6, <1>7, <1>8 DEF DInv

LEMMA SendBatchKeeps ==
    ASSUME Least, DInv, SendBatch
    PROVE  DInv'
<1>1. faults \in Nat /\ faults <= MaxFaults /\ batch \in Seq(Nat)
  BY Zenon DEF DInv, Types
<1>2. Present \in 0..Len(batch)
  BY Zenon, SentFacts
<1>3. ~(Present < Len(batch)) => Present = Len(batch)
  BY <1>1, <1>2
<1>4. /\ pc = "send" /\ Insert /\ pc' = (IF Present < Len(batch) THEN "mark" ELSE "remove") /\ left' = batch
      /\ UNCHANGED <<Directories, batch_file, writing, file_names_increment, files, todo, batch, absent, faults>>
  BY Zenon DEF SendBatch, Directories, dirs, inserts
<1> QED
  BY Zenon, <1>1, <1>3, <1>4, SendEndsKeeps

LEMMA SendDamagedKeeps ==
    ASSUME Least, DInv, SendDamaged
    PROVE  DInv'
<1>1. faults \in Nat /\ faults <= MaxFaults
  BY Zenon DEF DInv, Types
<1>2. /\ pc = "send" /\ UNCHANGED remote /\ pc' = "mark" /\ left' = batch
      /\ UNCHANGED <<Directories, batch_file, writing, file_names_increment, files, todo, batch, absent, faults>>
  BY Zenon DEF SendDamaged, Directories, dirs, inserts
<1> QED
  BY Zenon, <1>1, <1>2, SendEndsKeeps

LEMMA SendFailsKeeps ==
    ASSUME Least, DInv, SendFails
    PROVE  DInv'
<1>0. Types /\ Numbering /\ Blocks /\ Listing /\ Saved /\ (absent \/ Once) /\ MaxFaults \in Nat
  BY Zenon, MonitorConstants DEF DInv
<1>1. /\ pc = "send" /\ (Insert \/ UNCHANGED remote)
      /\ UNCHANGED <<Directories, batch_file, writing, file_names_increment, absent>>
      /\ \/ pc' = "idle" /\ files' = Empty /\ todo' = {} /\ batch' = <<>> /\ left' = <<>>
         \/ pc' = "mark" /\ left' = batch /\ UNCHANGED <<files, todo, batch>>
  BY Zenon DEF SendFails, Directories, dirs, inserts, ForgetPass
<1>2. faults' \in Nat /\ faults' <= MaxFaults
  BY <1>0 DEF SendFails, Types
<1>3. CASE pc' = "mark" /\ left' = batch /\ UNCHANGED <<files, todo, batch>>
  BY Zenon, <1>1, <1>2, <1>3, SendEndsKeeps
<1>4. CASE pc' = "idle" /\ files' = Empty /\ todo' = {} /\ batch' = <<>> /\ left' = <<>>
  <2>1. /\ applied' \in Seq(Nat) /\ seen' \subseteq Seq(Nat) /\ Range(applied') \subseteq linked
        /\ Range(applied) \subseteq Range(applied') /\ \A s \in seen' : Range(s) \subseteq Range(applied')
    BY Zenon, <1>1, InsertBlocks
  <2>2. \A k : Linking(k)' <=> Linking(k)
    BY Zenon, <1>1 DEF Linking
  <2>3. Numbering'
    BY Zenon, <1>1, <2>2, NumberingKeeps
  <2>4. Types'
    <3>1. Files(tmp)' /\ Files(disk)' /\ Files(broken)' /\ Files(files)'
      BY Zenon, <1>0, <1>1, <1>4, EmptyFacts DEF Types, Files, Directories
    <3> QED
      BY SMTT(30), <1>0, <1>1, <1>2, <1>4, <2>1, <3>1 DEF Types, Directories
  <2>5. Blocks'
    BY Zenon, <1>0, <1>1, <1>4, <2>1, EmptyFacts DEF Blocks, NothingLost, Directories
  <2>6. Listing'
    <3>1. Range(batch') = {} /\ Range(left') = {} /\ Current' = {} /\ Increasing(batch') /\ Increasing(left') /\ ~CleaningUp'
      BY <1>4 DEF Range, Increasing, Current, CleaningUp
    <3>2. \A q \in batch_file' : Increasing(q)
      BY Zenon, <1>0, <1>1 DEF Listing
    <3> QED
      BY Zenon, <1>4, <3>1, <3>2 DEF Listing
  <2>7. Saved'
    BY Zenon, <1>4 DEF Saved
  <2>8. ASSUME ~absent
        PROVE  Once'
    <3>1. ASSUME NEW q, q = batch
          PROVE  /\ IsInjective(applied')
                 /\ should_batch_inserts => \A k \in DOMAIN disk : Again(k)' => k \in Range(q) /\ Whole(q)'
                 /\ ~should_batch_inserts => \A k \in DOMAIN disk : Again(k)' => <<disk[k]>> \in seen'
      BY Zenon, <1>1, <2>8, <3>1, InsertOnce DEF Directories
    <3>2. should_batch_inserts => batch \in batch_file
      BY Zenon, <1>0, <1>1 DEF Saved
    <3>3. should_batch_inserts =>
            \A k \in DOMAIN disk : Again(k)' => \E q \in batch_file : k \in Range(q) /\ (Whole(q)' \/ Lacks(q, k)')
      BY Zenon, <3>1, <3>2
    <3> QED
      BY Zenon, <1>1, <1>4, <3>1, <3>3 DEF Once, Directories, CleaningUp
  <2> QED
    BY Zenon, <1>0, <1>1, <2>3, <2>4, <2>5, <2>6, <2>7, <2>8 DEF DInv
<1> QED
  BY Zenon, <1>1, <1>3, <1>4

LEMMA CleanUpKeeps ==
    ASSUME DInv, CleanUp
    PROVE  DInv'
<1> DEFINE x == Head(left)
<1>0. Types /\ Numbering /\ Blocks /\ Listing /\ Saved /\ (absent \/ Once)
  BY Zenon DEF DInv
<1>1. /\ pc \in {"remove", "mark"} /\ left # <<>> /\ left' = Tail(left)
      /\ IF x \notin DOMAIN files THEN UNCHANGED <<disk, broken>>
         ELSE disk' = Drop(disk, x) /\ (broken' = Put(broken, x, disk[x]) \/ (pc = "remove" /\ broken' = broken))
      /\ UNCHANGED <<tmp, inserted, linked, writing, file_names_increment, should_batch_inserts, batch_file, pc,
                     files, todo, batch, applied, seen, faults, absent>>
  BY Zenon DEF CleanUp, markAsBroken, inserts, remote
<1>2. left \in Seq(Nat) /\ Increasing(left) /\ Range(left) \subseteq Range(batch) /\ CleaningUp /\ batch \in Seq(Nat)
      /\ Increasing(batch) /\ batch # <<>>
  BY Zenon, <1>0, <1>1 DEF Types, Listing, CleaningUp, Saved
<1>3. /\ Tail(left) \in Seq(Nat) /\ x = left[1] /\ x \in Nat /\ x \in Range(left) /\ Range(left) = Range(Tail(left)) \cup {x}
      /\ Increasing(Tail(left)) /\ x \notin Range(Tail(left)) /\ \A n \in Range(left) : n # left[1] => left[1] < n
  BY Zenon, <1>1, <1>2, TailFacts
<1> HIDE DEF x
<1>4. Current = Range(left) /\ Current' = Range(Tail(left)) /\ CleaningUp'
  BY Zenon, <1>1, <1>2 DEF Current, CleaningUp
<1>5. Saved'
  BY Zenon, <1>0, <1>1 DEF Saved
<1>6. CASE x \notin DOMAIN files
  <2>1. UNCHANGED <<disk, broken>> /\ absent
    BY Zenon, <1>0, <1>1, <1>2, <1>3, <1>6 DEF Saved
  <2>2. \A k : Linking(k)' <=> Linking(k)
    BY Zenon, <1>1 DEF Linking
  <2>3. Numbering'
    BY Zenon, <1>1, <2>1, <2>2, NumberingKeeps DEF Directories
  <2>4. Types'
    <3>1. Files(tmp)' /\ Files(disk)' /\ Files(broken)' /\ Files(files)'
      BY Zenon, <1>0, <1>1, <2>1 DEF Types, Files
    <3> QED
      BY Zenon, <1>0, <1>1, <1>3, <3>1 DEF Types
  <2>5. Blocks'
    BY Zenon, <1>0, <1>1, <2>1 DEF Blocks, NothingLost
  <2>6. Listing'
    BY Zenon, <1>0, <1>1, <1>2, <1>3, <1>4, <2>1 DEF Listing
  <2> QED
    BY Zenon, <1>1, <1>5, <2>1, <2>3, <2>4, <2>5, <2>6 DEF DInv
<1>7. CASE x \in DOMAIN files
  <2>1. x \in DOMAIN disk /\ disk[x] = files[x] /\ (pc = "remove" => disk[x] \in Range(applied))
    BY Zenon, <1>0, <1>1, <1>3, <1>4, <1>7 DEF Listing
  <2>2. disk' = Drop(disk, x) /\ (broken' = Put(broken, x, disk[x]) \/ (broken' = broken /\ disk[x] \in Range(applied)))
    BY Zenon, <1>1, <1>7, <2>1
  <2>3. /\ Numbering' /\ Blocks' /\ Files(tmp)' /\ Files(disk)' /\ Files(broken)' /\ Files(files)'
        /\ DOMAIN disk' = DOMAIN disk \ {x} /\ (\A k \in DOMAIN disk' : disk'[k] = disk[k])
        /\ \A k : Again(k)' <=> Again(k) /\ k # x
    BY Zenon, <1>1, <2>1, <2>2, FileGone
  <2>4. Types'
    BY Zenon, <1>0, <1>1, <1>3, <2>3 DEF Types
  <2>5. Listing'
    <3>1. \A k \in DOMAIN files : k \in todo \cup Range(Tail(left)) => k \in DOMAIN disk' /\ disk'[k] = files[k]
      BY Zenon, <1>0, <1>2, <1>3, <1>4, <2>3 DEF Listing
    <3> QED
      BY Zenon, <1>0, <1>1, <1>2, <1>3, <1>4, <3>1 DEF Listing
  <2>6. ASSUME Once
        PROVE  Once'
    <3>1. ASSUME should_batch_inserts
          PROVE  Gone(batch)' /\ \A n \in Range(Tail(left)) : batch[1] < n
      <4>1. ~Linking(x) /\ \A k : Linking(k)' <=> Linking(k)
        BY Zenon, <1>0, <1>1, <2>1 DEF Linking, Numbering
      <4>2. CASE left = batch
        BY Zenon, <1>1, <1>3, <2>3, <4>1, <4>2 DEF Gone
      <4>3. CASE left # batch
        <5>1. Gone(batch) /\ \A n \in Range(left) : batch[1] < n
          BY Zenon, <1>1, <1>2, <2>6, <3>1, <4>3 DEF Once
        <5> QED
          BY Zenon, <1>1, <1>3, <2>3, <4>1, <5>1 DEF Gone
      <4> QED
        BY Zenon, <4>2, <4>3
    <3>2. should_batch_inserts => \A k \in DOMAIN disk' : Again(k)' => k \in Range(Tail(left))
      BY Zenon, <1>2, <1>3, <2>3, <2>6 DEF Once
    <3>3. should_batch_inserts => batch \in batch_file
      BY Zenon, <1>0, <1>1 DEF Saved
    <3>4. should_batch_inserts =>
            \A k \in DOMAIN disk' : Again(k)' => \E q \in batch_file : k \in Range(q) /\ (Whole(q)' \/ Lacks(q, k)')
      <4>1. ASSUME NEW q, q = batch, NEW k \in Range(Tail(left)), should_batch_inserts
            PROVE  Lacks(q, k)'
        BY Zenon, <1>1, <3>1, <4>1 DEF Lacks, Gone
      <4> QED
        BY Zenon, <1>2, <1>3, <3>2, <3>3, <4>1
    <3>5. ~should_batch_inserts => \A k \in DOMAIN disk' : Again(k)' => <<disk'[k]>> \in seen
      BY Zenon, <2>3, <2>6 DEF Once
    <3> QED
      BY Zenon, <1>1, <1>4, <2>6, <3>1, <3>2, <3>4, <3>5 DEF Once, CleaningUp
  <2> QED
    BY Zenon, <1>0, <1>1, <1>5, <2>3, <2>4, <2>5, <2>6 DEF DInv
<1> QED
  BY Zenon, <1>6, <1>7

-----------------------------------------------------------------------------
\* The invariant is inductive

LEMMA InitDInv == Init => DInv
<1> SUFFICES ASSUME Init PROVE DInv
  OBVIOUS
<1>0. <<>> \in Seq(Nat) /\ Range(<<>>) = {} /\ Increasing(<<>>) /\ IsInjective(<<>>) /\ ~CleaningUp
  BY DEF Range, Increasing, IsInjective, CleaningUp, Init
<1>1. /\ DOMAIN disk = {} /\ DOMAIN tmp = {} /\ DOMAIN broken = {} /\ DOMAIN files = {} /\ DOMAIN writing = {}
      /\ Range(disk) = {} /\ Range(broken) = {} /\ Range(files) = {}
  BY Zenon, EmptyFacts DEF Init
<1>2. Types
  <2>1. Files(disk) /\ Files(tmp) /\ Files(broken) /\ Files(files)
    BY Zenon, <1>1 DEF Files
  <2>2. should_batch_inserts \in BOOLEAN /\ absent \in BOOLEAN
    BY Zenon DEF Init
  <2>3. /\ inserted = 0 /\ linked = {} /\ file_names_increment = 0 /\ faults = 0 /\ pc = "idle"
        /\ batch = <<>> /\ left = <<>> /\ applied = <<>> /\ seen = {} /\ batch_file = {}
    BY Zenon DEF Init
  <2> QED
    BY <1>0, <2>1, <2>2, <2>3, MonitorConstants DEF Types
<1>3. Numbering
  BY Zenon, <1>1 DEF Init, Numbering, Numbers
<1>4. Blocks
  BY Zenon, <1>0, <1>1 DEF Init, Blocks, NothingLost
<1>5. Listing
  BY Zenon, <1>0, <1>1 DEF Init, Listing
<1>6. Saved
  BY Zenon DEF Init, Saved
<1>7. Once
  BY Zenon, <1>0, <1>1 DEF Init, Once
<1> QED
  BY Zenon, <1>2, <1>3, <1>4, <1>5, <1>6, <1>7 DEF DInv

LEMMA NextDInv == ASSUME Least, DInv, [Next]_vars PROVE DInv'
<1>1. CASE WriteTmp
  BY Zenon, <1>1, WriteTmpKeeps
<1>2. CASE \E n \in DOMAIN writing : Link(n) \/ RemoveTmp(n)
  BY Zenon, <1>2, LinkKeeps, RemoveTmpKeeps
<1>3. CASE Monitor
  BY Zenon, <1>3, findFilesKeeps, CollectKeeps, CollectEndKeeps, SaveBatchKeeps, SendBatchKeeps, DownKeeps,
     SendDamagedKeeps, CleanUpKeeps, BatchDoneKeeps DEF Monitor
<1>4. CASE SendFails
  BY Zenon, <1>4, SendFailsKeeps
<1>5. CASE Crash
  BY Zenon, <1>5, DownKeeps
<1>6. CASE startup
  BY Zenon, <1>6, StartupKeeps
<1>7. CASE initializeFileNamesIncrement
  BY Zenon, <1>7, InitializeKeeps
<1>8. CASE UNCHANGED vars
  <2>1. UNCHANGED <<disk, broken, batch_file, tmp, inserted, linked, writing, file_names_increment,
                    should_batch_inserts, pc, files, todo, batch, left, applied, seen, faults, absent>>
    BY Zenon, <1>8 DEF vars, dirs, inserts, monitor, memory, remote
  <2>2. \A k : Linking(k)' <=> Linking(k)
    BY Zenon, <2>1 DEF Linking
  <2>3. Types'
    BY Zenon, <2>1 DEF DInv, Types, Files
  <2>4. Numbering'
    BY Zenon, <2>1, <2>2, NumberingKeeps DEF Directories
  <2> QED
    BY Zenon, <2>1, <2>2, <2>3, <2>4, QuietKeeps DEF DInv
<1> QED
  BY Zenon, <1>1, <1>2, <1>3, <1>4, <1>5, <1>6, <1>7, <1>8 DEF Next

WF == INSTANCE WellFoundedInduction

LEMMA LeastNumber == Least
<1> DEFINE R == {p \in Nat \X Nat : p[1] < p[2]}
<1>1. WF!IsWellFoundedOn(R, Nat)
  BY Zenon, WF!NatLessThanWellFounded DEF WF!OpToRel
<1>2. ASSUME NEW S \in SUBSET Nat, S # {}
      PROVE  \E m \in S : \A k \in S : m <= k
  <2>1. PICK m \in S : \A k \in S : ~(<<k, m>> \in R)
    BY Zenon, <1>1, <1>2, WF!WFMin
  <2>2. ASSUME NEW k \in S
        PROVE  m <= k
    <3>1. k \in Nat /\ m \in Nat /\ <<k, m>> \in Nat \X Nat
      OBVIOUS
    <3>2. ~(<<k, m>>[1] < <<k, m>>[2])
      BY Zenon, <2>1, <3>1
    <3>3. ~(k < m)
      BY Zenon, <3>2
    <3> QED
      BY <3>1, <3>3
  <2> QED
    BY Zenon, <2>2
<1> QED
  BY Zenon, <1>2 DEF Least

-----------------------------------------------------------------------------
\* What holds of every execution

\* The files, the batch in memory, current_batch.txt and the remote table fit together in every
\* state, whenever the server crashes and whatever sends fail
THEOREM MonitorInvariant == Spec => []DInv
<1>1. DInv /\ [Next]_vars => DInv'
  BY Zenon, LeastNumber, NextDInv
<1> QED
  BY <1>1, InitDInv, PTL DEF Spec

\* A block that an INSERT has linked into the directory is there, in broken/ or in the remote
\* table, between any two of the steps of writing, collecting, sending, removing and marking
THEOREM NoBlockIsLost == Spec => []NothingLost
<1>1. DInv => NothingLost
  BY Zenon DEF DInv, Blocks
<1> QED
  BY <1>1, MonitorInvariant, PTL

\* A resent batch is the insert that the remote server has had, so no block comes in twice,
\* unless current_batch.txt lists a file that is gone
THEOREM NoBlockTwice == Spec => []AppliedOnce
<1>1. DInv => AppliedOnce
  BY Zenon DEF DInv, Once, AppliedOnce
<1> QED
  BY <1>1, MonitorInvariant, PTL

\* Numbers follow the order of the INSERTs over restarts: a number is given out again only when
\* no file has it or a larger one
THEOREM FilesInOrder == Spec => []NumbersInOrder
<1>1. ASSUME DInv
      PROVE  NumbersInOrder
  <2>0. Types /\ Numbering /\ Listing /\ MaxInserts \in Nat /\ MaxFaults \in Nat
    BY Zenon, <1>1, MonitorConstants DEF DInv
  <2>1. \A f \in {tmp, disk, broken, files} :
           DOMAIN f \subseteq 1..MaxInserts /\ \A n \in DOMAIN f : f[n] \in 1..inserted
    <3>1. \A f \in {tmp, disk, broken, files} : Files(f)
      BY Zenon, <2>0 DEF Types
    <3>2. inserted \in Nat /\ inserted <= MaxInserts
      BY Zenon, <2>0 DEF Types
    <3>3. ASSUME NEW f \in {tmp, disk, broken, files}, NEW n \in DOMAIN f
          PROVE  n \in 1..MaxInserts /\ f[n] \in 1..inserted
      BY <2>0, <3>1, <3>2 DEF Files
    <3> QED
      BY Zenon, <3>3
  <2>2. inserted \in 0..MaxInserts /\ file_names_increment \in -1..MaxInserts /\ faults \in 0..MaxFaults
    BY SMTT(30), <2>0 DEF Types
  <2>3. TypeOK
    BY Zenon, <2>0, <2>1, <2>2 DEF TypeOK, Types, Numbering, Listing
  <2> QED
    BY Zenon, <2>0, <2>3 DEF NumbersInOrder, Numbering
<1> QED
  BY <1>1, MonitorInvariant, PTL
=============================================================================
