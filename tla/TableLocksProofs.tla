-------------------------- MODULE TableLocksProofs --------------------------
(***************************************************************************)
(* The locks of tables, for any number of threads, statements and tables.  *)
(*                                                                         *)
(* First RWLockFIFO alone.  Its inductive invariant IInv says, for the     *)
(* queue of each lock, that no group is empty, a group of a writer has one *)
(* client, no thread is in two groups, and the threads that wait are the   *)
(* clients of all groups but the first.                                    *)
(*                                                                         *)
(* Next the statements.  TInv adds that the queues hold exactly what the   *)
(* calls of the statements asked for, so that every step of a statement is *)
(* a step of LockSpec and what a DROP has locked nobody else has.          *)
(***************************************************************************)
EXTENDS TableLocks, TLAPS

QueueOK(q) ==
    /\ \A i \in DOMAIN q : q[i].clients # {}
    /\ \A i \in DOMAIN q : q[i].type = "Write" => \A t, u \in q[i].clients : t = u
    /\ \A i, j \in DOMAIN q : \A t \in Thread : t \in q[i].clients /\ t \in q[j].clients => i = j

WaitOK(q, w) ==
    \A t \in Thread : t \in w <=> \E i \in DOMAIN q : i > 1 /\ t \in q[i].clients

IInv ==
    /\ LocksTypeOK
    /\ \A l \in Lock : QueueOK(queue[l]) /\ WaitOK(queue[l], waiting[l])

\* GroupOf names the one group of a thread that has a handler
LEMMA GroupOfThread ==
    ASSUME IInv, NEW l \in Lock, NEW t \in Thread, HasHandler(l, t)
    PROVE  /\ GroupOf(l, t) \in DOMAIN queue[l]
           /\ t \in queue[l][GroupOf(l, t)].clients
           /\ \A i \in DOMAIN queue[l] : t \in queue[l][i].clients => i = GroupOf(l, t)
BY Zenon DEF IInv, QueueOK, HasHandler, GroupOf

\* A thread that is not asleep has its handler in the first group
LEMMA GrantedFirst ==
    ASSUME IInv, NEW l \in Lock, NEW t \in Thread, Granted(l, t)
    PROVE  GroupOf(l, t) = 1 /\ 1 \in DOMAIN queue[l] /\ t \in queue[l][1].clients
<1>1. PICK i \in DOMAIN queue[l] : t \in queue[l][i].clients
  BY Zenon DEF Granted, HasHandler
<1>2. queue[l] \in Seq(Group)
  BY Zenon DEF IInv, LocksTypeOK
<1>3. ~(i > 1)
  BY Zenon, <1>1 DEF IInv, WaitOK, Granted
<1>4. i = 1
  BY <1>2, <1>3
<1>5. HasHandler(l, t)
  BY Zenon DEF Granted
<1> QED
  BY Zenon, <1>1, <1>4, <1>5, GroupOfThread

\* Joining the queue, in a group of its own or in the last group of readers
LEMMA EnqueueKeeps ==
    ASSUME IInv, NEW l \in Lock, NEW t \in Thread, NEW type \in {"Read", "Write"},
           ~HasHandler(l, t)
    PROVE  LET q == Enqueued(l, t, type)
               w == IF t \in q[1].clients THEN waiting[l] ELSE waiting[l] \cup {t}
           IN q \in Seq(Group) /\ QueueOK(q) /\ WaitOK(q, w)
<1> DEFINE q == queue[l]
           n == Enqueued(l, t, type)
           w == IF t \in n[1].clients THEN waiting[l] ELSE waiting[l] \cup {t}
           g == [type |-> type, clients |-> {t}]
<1>1. q \in Seq(Group) /\ QueueOK(q) /\ WaitOK(q, waiting[l]) /\ waiting[l] \subseteq Thread
  BY Zenon DEF IInv, LocksTypeOK
<1>2. \A i \in DOMAIN q : t \notin q[i].clients
  BY Zenon DEF HasHandler
<1>3. t \notin waiting[l]
  BY Zenon, <1>1, <1>2 DEF WaitOK
<1>4. g \in Group
  BY Zenon DEF Group
<1>5. CASE type = "Write" \/ q = <<>> \/ q[Len(q)].type = "Write"
  <2>1. n = Append(q, g)
    BY Zenon, <1>5 DEF Enqueued
  <2>2. /\ n \in Seq(Group) /\ Len(n) = Len(q) + 1 /\ DOMAIN n = 1..(Len(q) + 1)
        /\ \A i \in DOMAIN q : n[i] = q[i]
        /\ n[Len(q) + 1].type = type /\ n[Len(q) + 1].clients = {t}
    BY <1>1, <1>4, <2>1
  <2>3. DOMAIN q = 1..Len(q) /\ Len(q) \in Nat
    BY <1>1
  <2>4. \A i \in DOMAIN n : i \in DOMAIN q \/ i = Len(q) + 1
    BY <2>2, <2>3
  <2> HIDE DEF q, n, g
  <2>5. QueueOK(n)
    <3>1. \A i \in DOMAIN n : n[i].clients # {}
      BY Zenon, <1>1, <2>2, <2>4 DEF QueueOK
    <3>2. \A i \in DOMAIN n : n[i].type = "Write" => \A u, v \in n[i].clients : u = v
      BY <1>1, <2>2, <2>4 DEF QueueOK
    <3>3. ASSUME NEW i \in DOMAIN n, NEW j \in DOMAIN n, NEW u \in Thread, u \in n[i].clients, u \in n[j].clients
          PROVE  i = j
      <4>1. CASE i \in DOMAIN q /\ j \in DOMAIN q
        BY Zenon, <1>1, <2>2, <3>3, <4>1 DEF QueueOK
      <4>2. CASE i = Len(q) + 1 /\ j \in DOMAIN q
        BY Zenon, <1>2, <2>2, <3>3, <4>2
      <4>3. CASE i \in DOMAIN q /\ j = Len(q) + 1
        BY Zenon, <1>2, <2>2, <3>3, <4>3
      <4> QED
        BY Zenon, <2>4, <4>1, <4>2, <4>3
    <3> QED
      BY Zenon, <3>1, <3>2, <3>3 DEF QueueOK
  <2>6. t \in n[1].clients <=> Len(q) = 0
    BY <1>2, <2>2, <2>3
  <2>7. WaitOK(n, w)
    BY <1>1, <1>2, <2>2, <2>3, <2>4, <2>6 DEF WaitOK
  <2> QED
    BY Zenon, <2>2, <2>5, <2>7 DEF n
<1>6. CASE ~(type = "Write" \/ q = <<>> \/ q[Len(q)].type = "Write")
  <2> DEFINE e == Len(q)
  <2>1. n = [q EXCEPT ![e].clients = @ \cup {t}]
    BY Zenon, <1>6 DEF Enqueued
  <2>2. e \in Nat /\ DOMAIN q = 1..e /\ e >= 1
    BY <1>1, <1>6
  <2>3. q[e] \in Group /\ q[e].type = "Read"
    <3> HIDE DEF q
    <3>1. q[e] \in Group
      BY <1>1, <2>2
    <3> QED
      BY Zenon, <1>6, <3>1 DEF Group
  <2>4. /\ DOMAIN n = DOMAIN q
        /\ \A i \in DOMAIN q : i # e => n[i] = q[i]
        /\ n[e].type = "Read" /\ n[e].clients = q[e].clients \cup {t}
    BY <1>1, <2>1, <2>2, <2>3 DEF Group
  <2>5. n \in Seq(Group)
    <3>1. [q[e] EXCEPT !.clients = @ \cup {t}] \in Group
      BY Zenon, <2>3 DEF Group
    <3>2. n = [q EXCEPT ![e] = [q[e] EXCEPT !.clients = @ \cup {t}]]
      BY Zenon, <2>1
    <3> HIDE DEF n
    <3> QED
      BY <1>1, <2>2, <3>1, <3>2
  <2> HIDE DEF q, n, g, e
  <2>6. QueueOK(n)
    BY <1>1, <1>2, <2>2, <2>4 DEF QueueOK
  <2>7. t \in n[1].clients <=> e = 1
    BY <1>2, <2>2, <2>4
  <2>8. WaitOK(n, w)
    BY <1>1, <1>2, <2>2, <2>4, <2>7 DEF WaitOK
  <2> QED
    BY Zenon, <2>5, <2>6, <2>8 DEF n
<1> QED
  BY Zenon, <1>5, <1>6

\* Leaving the first group, and the queue without it
LEMMA ReleaseKeeps ==
    ASSUME IInv, NEW l \in Lock, NEW t \in Thread, Granted(l, t), Release(l, t)
    PROVE  queue'[l] \in Seq(Group) /\ QueueOK(queue'[l]) /\ WaitOK(queue'[l], waiting'[l])
<1> DEFINE q == queue[l]
           w == waiting[l]
<1>1. q \in Seq(Group) /\ QueueOK(q) /\ WaitOK(q, w) /\ w \subseteq Thread
  BY Zenon DEF IInv, LocksTypeOK
<1>2. GroupOf(l, t) = 1 /\ 1 \in DOMAIN q /\ t \in q[1].clients
  BY Zenon, GrantedFirst
<1>3. Len(q) \in Nat /\ DOMAIN q = 1..Len(q) /\ Len(q) >= 1
  BY <1>1, <1>2
<1>4. CASE q[1].clients = {t}
  <2> DEFINE n == Without(q, 1)
             v == w \ Notified(l, n)
  <2>1. queue'[l] = n /\ waiting'[l] = v
    BY Zenon, <1>2, <1>4 DEF Release, IInv, LocksTypeOK
  <2>2. DOMAIN n = 1..(Len(q) - 1) /\ \A k \in 1..(Len(q) - 1) : n[k] = q[k + 1]
    BY <1>3 DEF Without
  <2>3. n \in Seq(Group) /\ Len(n) = Len(q) - 1
    <3>1. \A k \in 1..(Len(q) - 1) : q[k + 1] \in Group
      BY <1>1, <1>3
    <3>2. n \in [1..(Len(q) - 1) -> Group]
      BY <1>3, <3>1 DEF Without
    <3> HIDE DEF n
    <3> QED
      BY <1>3, <3>2
  <2> HIDE DEF n, q, w
  <2>4. QueueOK(n)
    <3>1. ASSUME NEW i \in DOMAIN n, NEW j \in DOMAIN n, NEW u \in Thread, u \in n[i].clients, u \in n[j].clients
          PROVE  i = j
      <4>1. i + 1 \in DOMAIN q /\ j + 1 \in DOMAIN q /\ u \in q[i + 1].clients /\ u \in q[j + 1].clients
        BY <1>3, <2>2, <3>1
      <4>2. i + 1 = j + 1
        BY Zenon, <1>1, <4>1 DEF QueueOK
      <4> QED
        BY <1>3, <2>2, <4>2
    <3>2. \A k \in DOMAIN n : k + 1 \in DOMAIN q /\ n[k] = q[k + 1]
      BY <1>3, <2>2
    <3>3. \A k \in DOMAIN n : n[k].clients # {} /\ (n[k].type = "Write" => \A x, y \in n[k].clients : x = y)
      BY <1>1, <3>2 DEF QueueOK
    <3> QED
      BY Zenon, <3>1, <3>3 DEF QueueOK
  <2>5. ASSUME NEW u \in Thread
        PROVE  u \in v <=> \E i \in DOMAIN n : i > 1 /\ u \in n[i].clients
    <3>1. u \in w <=> \E i \in DOMAIN q : i > 1 /\ u \in q[i].clients
      BY Zenon, <1>1 DEF WaitOK
    <3>2. u \in w <=> \E k \in DOMAIN n : u \in n[k].clients
      <4>1. ASSUME NEW i \in DOMAIN q, i > 1, u \in q[i].clients
            PROVE  \E k \in DOMAIN n : u \in n[k].clients
        <5>1. i - 1 \in DOMAIN n /\ n[i - 1] = q[i]
          BY <1>3, <2>2, <4>1
        <5> QED
          BY Zenon, <4>1, <5>1
      <4>2. ASSUME NEW k \in DOMAIN n, u \in n[k].clients
            PROVE  \E i \in DOMAIN q : i > 1 /\ u \in q[i].clients
        <5>1. k + 1 \in DOMAIN q /\ k + 1 > 1 /\ n[k] = q[k + 1]
          BY <1>3, <2>2
        <5> QED
          BY Zenon, <4>2, <5>1
      <4> QED
        BY Zenon, <3>1, <4>1, <4>2
    <3>3. CASE n = <<>>
      BY <2>3, <3>2, <3>3 DEF Notified
    <3>4. CASE n # <<>>
      <4>1. Notified(l, n) = n[1].clients /\ 1 \in DOMAIN n
        BY <2>3, <3>4 DEF Notified
      <4>2. \A k \in DOMAIN n : u \in n[k].clients /\ u \in n[1].clients => k = 1
        BY Zenon, <2>4, <4>1 DEF QueueOK
      <4>3. \A k \in DOMAIN n : k = 1 \/ k > 1
        BY <1>3, <2>2
      <4> QED
        BY <3>2, <4>1, <4>2, <4>3
    <3> QED
      BY Zenon, <3>3, <3>4
  <2> QED
    BY Zenon, <2>1, <2>3, <2>4, <2>5 DEF WaitOK
<1>5. CASE q[1].clients # {t}
  <2> DEFINE n == [q EXCEPT ![1].clients = @ \ {t}]
  <2>1. queue'[l] = n /\ waiting'[l] = w
    BY Zenon, <1>2, <1>5 DEF Release, IInv, LocksTypeOK
  <2>2. q[1] \in Group
    BY <1>1, <1>2
  <2>3. /\ DOMAIN n = DOMAIN q
        /\ \A i \in DOMAIN q : i # 1 => n[i] = q[i]
        /\ n[1].type = q[1].type /\ n[1].clients = q[1].clients \ {t}
    BY Zenon, <1>1, <1>2, <2>2 DEF Group
  <2>4. n \in Seq(Group)
    <3>1. [q[1] EXCEPT !.clients = @ \ {t}] \in Group
      BY Zenon, <2>2 DEF Group
    <3>2. n = [q EXCEPT ![1] = [q[1] EXCEPT !.clients = @ \ {t}]]
      OBVIOUS
    <3> HIDE DEF n, q
    <3> QED
      BY <1>1, <1>2, <3>1, <3>2
  <2> HIDE DEF n, q, w
  <2>5. QueueOK(n)
    <3>1. \A i \in DOMAIN n : n[i].clients \subseteq q[i].clients /\ n[i].type = q[i].type
      BY Zenon, <2>3
    <3>2. \A i \in DOMAIN n : n[i].clients # {}
      BY <1>1, <1>2, <1>5, <2>3 DEF QueueOK
    <3>3. \A i \in DOMAIN n : n[i].type = "Write" => \A u, v \in n[i].clients : u = v
      BY <1>1, <2>3, <3>1 DEF QueueOK
    <3>4. \A i, j \in DOMAIN n : \A u \in Thread : u \in n[i].clients /\ u \in n[j].clients => i = j
      BY Zenon, <1>1, <2>3, <3>1 DEF QueueOK
    <3> QED
      BY Zenon, <3>2, <3>3, <3>4 DEF QueueOK
  <2>6. WaitOK(n, w)
    BY <1>1, <1>3, <2>3 DEF WaitOK
  <2> QED
    BY Zenon, <2>1, <2>4, <2>5, <2>6
<1> QED
  BY Zenon, <1>4, <1>5

\* Every step of a thread keeps the invariant
LEMMA StepKeepsIInv ==
    IInv /\ [LockNext]_lock_vars => IInv'
<1> SUFFICES ASSUME IInv, [LockNext]_lock_vars
             PROVE  IInv'
  OBVIOUS
<1>1. CASE UNCHANGED lock_vars
  BY <1>1 DEF IInv, LocksTypeOK, QueueOK, WaitOK, lock_vars
<1>2. ASSUME NEW l \in Lock,
             \A k \in Lock \ {l} : queue'[k] = queue[k] /\ waiting'[k] = waiting[k],
             DOMAIN queue' = Lock, DOMAIN waiting' = Lock,
             queue' = [k \in Lock |-> queue'[k]], waiting' = [k \in Lock |-> waiting'[k]],
             queue'[l] \in Seq(Group), waiting'[l] \subseteq Thread,
             QueueOK(queue'[l]), WaitOK(queue'[l], waiting'[l])
      PROVE  IInv'
  <2>1. \A k \in Lock : queue'[k] \in Seq(Group) /\ waiting'[k] \in SUBSET Thread
    BY Zenon, <1>2 DEF IInv, LocksTypeOK
  <2>2. LocksTypeOK'
    BY Zenon, <1>2, <2>1 DEF LocksTypeOK, Group
  <2>3. \A k \in Lock : QueueOK(queue'[k]) /\ WaitOK(queue'[k], waiting'[k])
    BY Zenon, <1>2 DEF IInv
  <2> QED
    BY Zenon, <2>2, <2>3 DEF IInv, QueueOK, WaitOK
<1>3. ASSUME NEW l \in Lock, NEW t \in Thread, NEW type \in {"Read", "Write"}, getLock(l, t, type)
      PROVE  IInv'
  <2>1. CASE Recursive(l, t)
    BY <1>3, <2>1 DEF getLock, IInv, LocksTypeOK, QueueOK, WaitOK
  <2>2. CASE ~Recursive(l, t)
    <3> DEFINE n == Enqueued(l, t, type)
               w == IF t \in n[1].clients THEN waiting[l] ELSE waiting[l] \cup {t}
    <3>1. n \in Seq(Group) /\ QueueOK(n) /\ WaitOK(n, w)
      BY Zenon, <2>2, EnqueueKeeps DEF Recursive
    <3>2. queue' = [queue EXCEPT ![l] = n]
      BY Zenon, <1>3, <2>2 DEF getLock
    <3>3. queue'[l] = n
      BY Zenon, <3>2 DEF IInv, LocksTypeOK
    <3>4. waiting' = IF t \in n[1].clients THEN waiting ELSE [waiting EXCEPT ![l] = @ \cup {t}]
      BY Zenon, <1>3, <2>2, <3>3 DEF getLock
    <3> HIDE DEF n
    <3>5. waiting'[l] = w /\ w \subseteq Thread
      BY Zenon, <3>4 DEF IInv, LocksTypeOK
    <3> QED
      BY Zenon, <1>2, <3>1, <3>2, <3>3, <3>4, <3>5 DEF IInv, LocksTypeOK
  <2> QED
    BY Zenon, <2>1, <2>2
<1>4. ASSUME NEW l \in Lock, NEW t \in Thread, Granted(l, t), Release(l, t)
      PROVE  IInv'
  <2>1. queue'[l] \in Seq(Group) /\ QueueOK(queue'[l]) /\ WaitOK(queue'[l], waiting'[l])
    BY Zenon, <1>4, ReleaseKeeps
  <2>2. /\ \E q : queue' = [queue EXCEPT ![l] = q]
        /\ \E w : w \subseteq waiting[l] /\ waiting' = [waiting EXCEPT ![l] = w]
    BY <1>4 DEF Release, IInv, LocksTypeOK
  <2> QED
    BY Zenon, <1>2, <2>1, <2>2 DEF IInv, LocksTypeOK
<1> QED
  BY Zenon, <1>1, <1>3, <1>4 DEF LockNext

\* The inductive invariant holds whenever threads only ask for locks, wake up and release them
\* (getLock, the wait in it, and ~LockHandlerImpl).
THEOREM Invariant == LockSpec => []IInv
<1>1. LocksInit => IInv
  BY DEF LocksInit, IInv, LocksTypeOK, QueueOK, WaitOK
<1> QED
  BY <1>1, StepKeepsIInv, PTL DEF LockSpec

\* Exclusion: what getLock lets through is the first group, and a writer is alone in it
THEOREM LocksExclude == LockSpec => []Exclusion
<1>1. ASSUME IInv, NEW l \in Lock, NEW t \in Thread, Granted(l, t)
      PROVE  /\ t \in queue[l][1].clients
             /\ queue[l][1].type = "Write" => \A u \in Thread \ {t} : ~Granted(l, u)
  <2>1. t \in queue[l][1].clients /\ 1 \in DOMAIN queue[l]
    BY Zenon, <1>1, GrantedFirst
  <2>2. \A u \in Thread : Granted(l, u) => u \in queue[l][1].clients
    BY Zenon, <1>1, GrantedFirst
  <2> QED
    BY <1>1, <2>1, <2>2 DEF IInv, QueueOK
<1>2. IInv => Exclusion
  BY Zenon, <1>1 DEF Exclusion
<1> QED
  BY <1>2, Invariant, PTL

\* No notification is lost: nobody in the first group sleeps
THEOREM NoLostWakeup == LockSpec => []FirstGroupAwake
<1>1. ASSUME IInv, NEW l \in Lock, queue[l] # <<>>
      PROVE  queue[l][1].clients \cap waiting[l] = {}
  <2>1. queue[l] \in Seq(Group) /\ waiting[l] \subseteq Thread /\ QueueOK(queue[l]) /\ WaitOK(queue[l], waiting[l])
    BY Zenon, <1>1 DEF IInv, LocksTypeOK
  <2>2. 1 \in DOMAIN queue[l]
    BY <1>1, <2>1
  <2>3. ASSUME NEW t \in Thread, t \in queue[l][1].clients, t \in waiting[l]
        PROVE  FALSE
    <3>1. PICK i \in DOMAIN queue[l] : i > 1 /\ t \in queue[l][i].clients
      BY Zenon, <2>1, <2>3 DEF WaitOK
    <3>2. i = 1
      BY Zenon, <2>1, <2>2, <2>3, <3>1 DEF QueueOK
    <3> QED
      BY <3>1, <3>2
  <2> QED
    BY Zenon, <2>1, <2>3
<1>2. IInv => FirstGroupAwake
  BY Zenon, <1>1 DEF FirstGroupAwake
<1> QED
  BY <1>2, Invariant, PTL

\* The queue of a lock when a thread has joined it: groups stay where they are, and
\* only the last one may grow
LEMMA EnqueuedGroups ==
    ASSUME IInv, NEW l \in Lock, NEW u \in Thread, NEW type \in {"Read", "Write"}
    PROVE  /\ DOMAIN queue[l] \subseteq DOMAIN Enqueued(l, u, type)
           /\ \A i \in DOMAIN queue[l] :
                 /\ queue[l][i].clients \subseteq Enqueued(l, u, type)[i].clients
                 /\ i < Len(queue[l]) => Enqueued(l, u, type)[i].clients = queue[l][i].clients
<1> DEFINE q == queue[l]
           n == Enqueued(l, u, type)
<1>1. q \in Seq(Group)
  BY Zenon DEF IInv, LocksTypeOK
<1>2. CASE type = "Write" \/ q = <<>> \/ q[Len(q)].type = "Write"
  <2>1. n = Append(q, [type |-> type, clients |-> {u}])
    BY Zenon, <1>2 DEF Enqueued
  <2> HIDE DEF n, q
  <2>2. DOMAIN q \subseteq DOMAIN n /\ \A i \in DOMAIN q : n[i] = q[i]
    BY <1>1, <2>1
  <2> QED
    BY Zenon, <2>2 DEF n, q
<1>3. CASE ~(type = "Write" \/ q = <<>> \/ q[Len(q)].type = "Write")
  <2>1. n = [q EXCEPT ![Len(q)].clients = @ \cup {u}]
    BY Zenon, <1>3 DEF Enqueued
  <2>2. Len(q) \in DOMAIN q /\ q[Len(q)] \in Group
    BY <1>1, <1>3
  <2>3. DOMAIN n = DOMAIN q /\ (\A i \in DOMAIN q : i # Len(q) => n[i] = q[i])
        /\ n[Len(q)].clients = q[Len(q)].clients \cup {u}
    BY Zenon, <1>1, <2>1, <2>2 DEF Group
  <2>4. \A i \in DOMAIN q : i < Len(q) => i # Len(q)
    BY <1>1
  <2> HIDE DEF n, q
  <2>5. \A i \in DOMAIN q : q[i].clients \subseteq n[i].clients /\ (i < Len(q) => n[i].clients = q[i].clients)
    BY Zenon, <2>3, <2>4
  <2> QED
    BY Zenon, <2>3, <2>5 DEF n, q
<1> QED
  BY Zenon, <1>2, <1>3

\* FIFO service: in a step nobody gets in front of a thread that goes on waiting
THEOREM FifoService == LockSpec => NoOvertaking
<1>1. ASSUME IInv, IInv', LockNext, NEW l \in Lock, NEW t \in waiting[l] \cap waiting'[l]
      PROVE  Ahead(l, t)' \subseteq Ahead(l, t)
  <2> DEFINE q == queue[l]
             n == queue'[l]
             i == GroupOf(l, t)
             j == GroupOf(l, t)'
  <2>1. t \in Thread /\ q \in Seq(Group) /\ n \in Seq(Group) /\ QueueOK(q) /\ QueueOK(n)
        /\ WaitOK(q, waiting[l]) /\ WaitOK(n, waiting'[l])
    BY Zenon, <1>1 DEF IInv, LocksTypeOK, QueueOK, WaitOK
  <2>2. PICK a \in DOMAIN q : a > 1 /\ t \in q[a].clients
    BY Zenon, <1>1, <2>1 DEF WaitOK
  <2>3. i \in DOMAIN q /\ t \in q[i].clients /\ i > 1
    <3>1. HasHandler(l, t)
      BY Zenon, <2>2 DEF HasHandler
    <3> QED
      BY Zenon, <1>1, <2>1, <2>2, <3>1, GroupOfThread
  <2>4. ASSUME NEW b \in DOMAIN n, t \in n[b].clients
        PROVE  j = b
    BY Zenon, <2>1, <2>4 DEF GroupOf, QueueOK
  <2> HIDE DEF q, n, i, j
  <2>5. ASSUME NEW b \in DOMAIN n, t \in n[b].clients,
               \A k \in 1..(b - 1) : \E m \in 1..(i - 1) : n[k].clients \subseteq q[m].clients
        PROVE  Ahead(l, t)' \subseteq Ahead(l, t)
    <3>1. j = b
      BY Zenon, <2>4, <2>5
    <3>2. Ahead(l, t)' = UNION {n[k].clients : k \in 1..(b - 1)}
      BY Zenon, <3>1 DEF Ahead, n, j
    <3>3. Ahead(l, t) = UNION {q[m].clients : m \in 1..(i - 1)}
      BY Zenon DEF Ahead, q, i
    <3> QED
      BY <2>5, <3>2, <3>3
  <2>6. CASE n = q
    BY Zenon, <2>3, <2>5, <2>6
  <2>7. ASSUME NEW u \in Thread, NEW type \in {"Read", "Write"}, ~Recursive(l, u), getLock(l, u, type)
        PROVE  Ahead(l, t)' \subseteq Ahead(l, t)
    <3>1. n = Enqueued(l, u, type)
      BY Zenon, <1>1, <2>7 DEF getLock, n, IInv, LocksTypeOK
    <3>2. DOMAIN q \subseteq DOMAIN n
          /\ \A k \in DOMAIN q : q[k].clients \subseteq n[k].clients /\ (k < Len(q) => n[k].clients = q[k].clients)
      BY Zenon, <1>1, <3>1, EnqueuedGroups DEF q
    <3>3. i \in DOMAIN n /\ t \in n[i].clients
      BY Zenon, <2>3, <3>2
    <3>4. \A k \in 1..(i - 1) : k \in DOMAIN q /\ k < Len(q)
      BY <2>1, <2>3
    <3>5. \A k \in 1..(i - 1) : n[k].clients \subseteq q[k].clients
      BY Zenon, <3>2, <3>4
    <3> QED
      BY Zenon, <2>5, <3>3, <3>5
  <2>8. ASSUME NEW u \in Thread, Granted(l, u), Release(l, u)
        PROVE  Ahead(l, t)' \subseteq Ahead(l, t)
    <3>1. GroupOf(l, u) = 1 /\ 1 \in DOMAIN q
      BY Zenon, <1>1, <2>8, GrantedFirst DEF q
    <3>2. CASE q[1].clients = {u}
      <4>1. n = Without(q, 1)
        BY Zenon, <1>1, <2>8, <3>1, <3>2 DEF Release, n, q, IInv, LocksTypeOK
      <4>2. DOMAIN n = 1..(Len(q) - 1) /\ \A k \in DOMAIN n : n[k] = q[k + 1]
        BY <2>1, <4>1 DEF Without
      <4>3. i - 1 \in DOMAIN n /\ t \in n[i - 1].clients
        BY <2>1, <2>3, <4>2
      <4>4. ASSUME NEW k \in 1..((i - 1) - 1)
            PROVE  k + 1 \in 1..(i - 1) /\ n[k].clients \subseteq q[k + 1].clients
        <5>1. i \in 1..Len(q) /\ Len(q) \in Nat
          BY <2>1, <2>3
        <5>2. k \in 1..(Len(q) - 1) /\ k + 1 \in 1..(i - 1)
          BY <5>1
        <5> QED
          BY Zenon, <4>2, <5>2
      <4>5. \A k \in 1..((i - 1) - 1) : \E m \in 1..(i - 1) : n[k].clients \subseteq q[m].clients
        BY Zenon, <4>4
      <4> QED
        BY Zenon, <2>5, <4>3, <4>5
    <3>3. CASE q[1].clients # {u}
      <4>1. n = [q EXCEPT ![1].clients = @ \ {u}]
        BY Zenon, <1>1, <2>8, <3>1, <3>3 DEF Release, n, q, IInv, LocksTypeOK
      <4>2. q[1] \in Group
        BY <2>1, <3>1
      <4>3. DOMAIN n = DOMAIN q /\ (\A k \in DOMAIN q : k # 1 => n[k] = q[k]) /\ n[1].clients = q[1].clients \ {u}
        BY Zenon, <2>1, <3>1, <4>1, <4>2 DEF Group
      <4>4. i \in DOMAIN n /\ t \in n[i].clients
        BY <2>3, <4>3
      <4>5. \A k \in 1..(i - 1) : k \in DOMAIN q
        BY <2>1, <2>3
      <4>6. \A k \in 1..(i - 1) : n[k].clients \subseteq q[k].clients
        BY Zenon, <4>3, <4>5
      <4> QED
        BY Zenon, <2>5, <4>4, <4>6
    <3> QED
      BY Zenon, <3>2, <3>3
  <2>9. PICK k \in Lock, u \in Thread : (\E type \in {"Read", "Write"} : getLock(k, u, type)) \/ (Granted(k, u) /\ Release(k, u))
    BY Zenon, <1>1 DEF LockNext
  <2>10. CASE k # l
    <3>1. n = q
      BY Zenon, <1>1, <2>9, <2>10 DEF getLock, Release, n, q, IInv, LocksTypeOK
    <3> QED
      BY Zenon, <2>6, <3>1
  <2>11. CASE k = l
    <3>1. ASSUME NEW type \in {"Read", "Write"}, getLock(l, u, type), Recursive(l, u)
          PROVE  n = q
      BY Zenon, <3>1 DEF getLock, n, q
    <3> QED
      BY Zenon, <2>6, <2>7, <2>8, <2>9, <2>11, <3>1
  <2> QED
    BY Zenon, <2>10, <2>11
<1>2. ASSUME IInv, IInv', [LockNext]_lock_vars
      PROVE  [\A l \in Lock : \A t \in waiting[l] \cap waiting'[l] : Ahead(l, t)' \subseteq Ahead(l, t)]_lock_vars
  BY Zenon, <1>1, <1>2 DEF lock_vars
<1> QED
  BY <1>2, Invariant, StepKeepsIInv, PTL DEF NoOvertaking, LockSpec

-----------------------------------------------------------------------------

\* The calls of statement t that have joined a queue, and what they asked for
Count(t)       == IF status[t] = "wait" THEN pc[t] + 1 ELSE pc[t]
Has(t, l)      == \E k \in 1..Count(t) : CallsOf(t)[k].lock = l
HasWrite(t, l) == \E k \in 1..Count(t) : CallsOf(t)[k].lock = l /\ CallsOf(t)[k].type = "Write"

\* Thread t is in the group of a writer
Writes(l, t) == \E i \in DOMAIN queue[l] : t \in queue[l][i].clients /\ queue[l][i].type = "Write"

StatementTypes ==
    /\ statement \in Mixes /\ pc \in [Thread -> Nat]
    /\ status \in [Thread -> {"start", "run", "wait", "leave", "end"}]
    /\ is_dropped \in [Table -> BOOLEAN]

\* How far a statement is.  What it waits for, it has not asked for before, and what it
\* asked for again it reads
Progress(t) ==
    /\ pc[t] <= Len(CallsOf(t))
    /\ status[t] \in {"start", "end"} => pc[t] = 0
    /\ status[t] = "leave" => pc[t] > 0
    /\ status[t] = "wait" => pc[t] < Len(CallsOf(t)) /\ New(CallsOf(t), pc[t] + 1)
    /\ \A j \in 1..pc[t] : New(CallsOf(t), j) \/ CallsOf(t)[j].type = "Read"

\* The queues hold what the calls of the statements asked for, and nothing else
Handlers(t, l) ==
    /\ HasHandler(l, t) <=> Has(t, l)
    /\ Writes(l, t) <=> HasWrite(t, l)
    /\ t \in waiting[l] => status[t] = "wait" /\ l = NextCall(t).lock

Running == {"run", "wait", "leave"}
GuardsOK ==
    /\ guards = UNION {Guarded(statement[t]) : t \in {u \in Thread : status[u] \in Running}}
    /\ \A t, u \in Thread : t # u /\ status[t] \in Running /\ status[u] \in Running =>
          Guarded(statement[t]) \cap Guarded(statement[u]) = {}

\* DroppedIsUnused, also of statements that wait for a further lock
Unused(t) ==
    status[t] \in {"run", "wait"} => \A k \in 1..pc[t] : CallsOf(t)[k].check => ~is_dropped[CallsOf(t)[k].lock[1]]

TInv ==
    /\ IInv /\ StatementTypes /\ GuardsOK
    /\ \A t \in Thread : Progress(t) /\ Unused(t)
    /\ \A t \in Thread, l \in Lock : Handlers(t, l)

-----------------------------------------------------------------------------

\* The calls of a statement
LEMMA CallsFacts ==
    ASSUME statement \in Mixes, NEW t \in Thread
    PROVE  /\ CallsOf(t) \in Seq(CallType) /\ CallsOf(t) # <<>>
           /\ DataFirst(CallsOf(t)) /\ DropsAlone(statement[t])
BY Zenon, StatementsLock DEF CallsOf

LEMMA CallFacts ==
    ASSUME statement \in Mixes, NEW t \in Thread, NEW k \in 1..Len(CallsOf(t))
    PROVE  /\ CallsOf(t)[k] \in CallType /\ CallsOf(t)[k].lock \in Lock
           /\ CallsOf(t)[k].type \in {"Read", "Write"} /\ CallsOf(t)[k].check \in BOOLEAN
<1>1. CallsOf(t)[k] \in CallType
  BY CallsFacts
<1> QED
  BY Zenon, <1>1 DEF CallType

\* Joining a queue
LEMMA EnqueueEffect ==
    ASSUME IInv, NEW l \in Lock, NEW t \in Thread, NEW type \in {"Read", "Write"},
           ~HasHandler(l, t), queue' = [queue EXCEPT ![l] = Enqueued(l, t, type)],
           NEW k \in Lock, NEW u \in Thread
    PROVE  /\ HasHandler(k, u)' <=> HasHandler(k, u) \/ (k = l /\ u = t)
           /\ Writes(k, u)' <=> Writes(k, u) \/ (k = l /\ u = t /\ type = "Write")
<1> DEFINE q == queue[l]
           n == Enqueued(l, t, type)
           g == [type |-> type, clients |-> {t}]
<1>1. q \in Seq(Group)
  BY Zenon DEF IInv, LocksTypeOK
<1>2. queue'[l] = n /\ \A j \in Lock \ {l} : queue'[j] = queue[j]
  BY Zenon DEF IInv, LocksTypeOK
<1>3. CASE k # l
  BY Zenon, <1>2, <1>3 DEF HasHandler, Writes
<1>4. CASE k = l /\ (type = "Write" \/ q = <<>> \/ q[Len(q)].type = "Write")
  <2>1. n = Append(q, g)
    BY Zenon, <1>4 DEF Enqueued
  <2>2. Len(q) \in Nat /\ DOMAIN q = 1..Len(q) /\ DOMAIN n = 1..(Len(q) + 1)
        /\ (\A i \in DOMAIN q : n[i] = q[i]) /\ n[Len(q) + 1] = g
    BY <1>1, <2>1
  <2>3. g.clients = {t} /\ g.type = type
    OBVIOUS
  <2> HIDE DEF q, n, g
  <2>4. ASSUME NEW i \in DOMAIN n
        PROVE  (i \in DOMAIN q /\ n[i] = q[i]) \/ (i = Len(q) + 1 /\ n[i] = g)
    BY <2>2
  <2>5. \A i \in DOMAIN q : i \in DOMAIN n /\ n[i] = q[i]
    BY <2>2
  <2>6. Len(q) + 1 \in DOMAIN n
    BY <2>2
  <2>7. (\E i \in DOMAIN n : u \in n[i].clients) <=> (\E i \in DOMAIN q : u \in q[i].clients) \/ u = t
    BY Zenon, <2>2, <2>3, <2>4, <2>5, <2>6
  <2>8. (\E i \in DOMAIN n : u \in n[i].clients /\ n[i].type = "Write")
        <=> (\E i \in DOMAIN q : u \in q[i].clients /\ q[i].type = "Write") \/ (u = t /\ type = "Write")
    BY Zenon, <2>2, <2>3, <2>4, <2>5, <2>6
  <2> QED
    BY Zenon, <1>2, <1>4, <2>7, <2>8 DEF HasHandler, Writes, q
<1>5. CASE k = l /\ ~(type = "Write" \/ q = <<>> \/ q[Len(q)].type = "Write")
  <2> DEFINE e == Len(q)
  <2>1. n = [q EXCEPT ![e].clients = @ \cup {t}]
    BY Zenon, <1>5 DEF Enqueued
  <2>2. e \in DOMAIN q /\ q[e] \in Group
    BY <1>1, <1>5
  <2>3. q[e].type = "Read"
    BY Zenon, <1>5, <2>2 DEF Group
  <2>4. /\ DOMAIN n = DOMAIN q
        /\ \A i \in DOMAIN q : i # e => n[i] = q[i]
        /\ n[e].type = "Read" /\ n[e].clients = q[e].clients \cup {t}
    BY Zenon, <1>1, <2>1, <2>2, <2>3 DEF Group
  <2> HIDE DEF q, n, e
  <2>5. (\E i \in DOMAIN n : u \in n[i].clients) <=> (\E i \in DOMAIN q : u \in q[i].clients) \/ u = t
    BY Zenon, <2>2, <2>4
  <2>6. (\E i \in DOMAIN n : u \in n[i].clients /\ n[i].type = "Write")
        <=> (\E i \in DOMAIN q : u \in q[i].clients /\ q[i].type = "Write")
    BY Zenon, <2>2, <2>3, <2>4
  <2> QED
    BY <1>2, <1>5, <2>5, <2>6 DEF HasHandler, Writes, q
<1> QED
  BY Zenon, <1>3, <1>4, <1>5

\* Leaving a queue
LEMMA ReleaseEffect ==
    ASSUME IInv, NEW l \in Lock, NEW t \in Thread, Granted(l, t), Release(l, t),
           NEW k \in Lock, NEW u \in Thread
    PROVE  /\ HasHandler(k, u)' <=> HasHandler(k, u) /\ ~(k = l /\ u = t)
           /\ Writes(k, u)' <=> Writes(k, u) /\ ~(k = l /\ u = t)
           /\ waiting'[k] \subseteq waiting[k]
<1> DEFINE q == queue[l]
           n == queue'[l]
<1>1. q \in Seq(Group) /\ QueueOK(q)
  BY Zenon DEF IInv, LocksTypeOK
<1>2. GroupOf(l, t) = 1 /\ 1 \in DOMAIN q /\ t \in q[1].clients
  BY Zenon, GrantedFirst
<1>3. \A i \in DOMAIN q : t \in q[i].clients => i = 1
  BY Zenon, <1>1, <1>2 DEF QueueOK
<1>4. \A j \in Lock : waiting'[j] \subseteq waiting[j] /\ (j # l => queue'[j] = queue[j])
  BY Zenon DEF Release, IInv, LocksTypeOK
<1>5. CASE k # l
  BY Zenon, <1>4, <1>5 DEF HasHandler, Writes
<1>6. CASE k = l /\ q[1].clients = {t}
  <2>1. n = Without(q, 1)
    BY Zenon, <1>2, <1>6 DEF Release, IInv, LocksTypeOK
  <2>2. Len(q) \in Nat /\ DOMAIN q = 1..Len(q) /\ Len(q) >= 1
    BY <1>1, <1>2
  <2>3. DOMAIN n = 1..(Len(q) - 1) /\ \A i \in DOMAIN n : n[i] = q[i + 1]
    BY <2>1, <2>2 DEF Without
  <2> HIDE DEF q, n
  <2>4. \A i \in DOMAIN n : i + 1 \in DOMAIN q /\ i + 1 # 1 /\ n[i] = q[i + 1]
    BY <2>2, <2>3
  <2>5. ASSUME NEW i \in DOMAIN q, i # 1
        PROVE  i - 1 \in DOMAIN n /\ n[i - 1] = q[i]
    BY <2>2, <2>3, <2>5
  <2>6. (\E i \in DOMAIN n : u \in n[i].clients) <=> (\E i \in DOMAIN q : u \in q[i].clients) /\ u # t
    BY Zenon, <1>3, <1>6, <2>4, <2>5
  <2>7. (\E i \in DOMAIN n : u \in n[i].clients /\ n[i].type = "Write")
        <=> (\E i \in DOMAIN q : u \in q[i].clients /\ q[i].type = "Write") /\ u # t
    BY Zenon, <1>3, <1>6, <2>4, <2>5
  <2> QED
    BY Zenon, <1>4, <1>6, <2>6, <2>7 DEF HasHandler, Writes, q, n
<1>7. CASE k = l /\ q[1].clients # {t}
  <2>1. n = [q EXCEPT ![1].clients = @ \ {t}]
    BY Zenon, <1>2, <1>7 DEF Release, IInv, LocksTypeOK
  <2>2. q[1] \in Group
    BY <1>1, <1>2
  <2>3. /\ DOMAIN n = DOMAIN q
        /\ \A i \in DOMAIN q : i # 1 => n[i] = q[i]
        /\ n[1].type = q[1].type /\ n[1].clients = q[1].clients \ {t}
    BY <1>1, <1>2, <2>1, <2>2 DEF Group
  <2> HIDE DEF q, n
  <2>4. (\E i \in DOMAIN n : u \in n[i].clients) <=> (\E i \in DOMAIN q : u \in q[i].clients) /\ u # t
    BY Zenon, <1>2, <1>3, <2>3
  <2>5. (\E i \in DOMAIN n : u \in n[i].clients /\ n[i].type = "Write")
        <=> (\E i \in DOMAIN q : u \in q[i].clients /\ q[i].type = "Write") /\ u # t
    BY Zenon, <1>2, <1>3, <2>3
  <2> QED
    BY Zenon, <1>4, <1>7, <2>4, <2>5 DEF HasHandler, Writes, q, n
<1> QED
  BY Zenon, <1>5, <1>6, <1>7

\* When a recursive call is refused
LEMMA ThrowsMeans ==
    ASSUME IInv, NEW l \in Lock, NEW t \in Thread, NEW type \in {"Read", "Write"}
    PROVE  Throws(l, t, type) <=> HasHandler(l, t) /\ (type = "Write" \/ Writes(l, t))
<1>1. CASE ~HasHandler(l, t)
  BY Zenon, <1>1 DEF Throws, Recursive
<1>2. CASE HasHandler(l, t)
  <2>1. GroupOf(l, t) \in DOMAIN queue[l] /\ t \in queue[l][GroupOf(l, t)].clients
        /\ \A i \in DOMAIN queue[l] : t \in queue[l][i].clients => i = GroupOf(l, t)
    BY Zenon, <1>2, GroupOfThread
  <2>2. queue[l] \in Seq(Group)
    BY Zenon DEF IInv, LocksTypeOK
  <2>3. queue[l][GroupOf(l, t)] \in Group
    BY <2>1, <2>2
  <2>4. queue[l][GroupOf(l, t)].type \in {"Read", "Write"}
    BY Zenon, <2>3 DEF Group
  <2> QED
    BY Zenon, <1>2, <2>1, <2>4 DEF Throws, Recursive, Writes
<1> QED
  BY Zenon, <1>1, <1>2

-----------------------------------------------------------------------------

\* A statement is moved by its own steps only
LEMMA Others ==
    ASSUME TInv, NEW t \in Thread, Step(t)
    PROVE  /\ statement' = statement
           /\ \A u \in Thread \ {t} : pc'[u] = pc[u] /\ status'[u] = status[u]
<1>1. pc \in [Thread -> Nat] /\ status \in [Thread -> {"start", "run", "wait", "leave", "end"}]
  BY Zenon DEF TInv, StatementTypes
<1> QED
  BY Zenon, <1>1 DEF Step, Guard, Ask, WakeUp, Work, Unlock, Return, Become

LEMMA Frame ==
    ASSUME NEW u \in Thread, statement' = statement, pc'[u] = pc[u], status'[u] = status[u]
    PROVE  /\ CallsOf(u)' = CallsOf(u) /\ NextCall(u)' = NextCall(u) /\ Count(u)' = Count(u)
           /\ Progress(u)' <=> Progress(u)
           /\ \A l \in Lock : (Has(u, l)' <=> Has(u, l)) /\ (HasWrite(u, l)' <=> HasWrite(u, l))
BY Zenon DEF CallsOf, NextCall, Count, Progress, Has, HasWrite

\* What a statement that asks, asks for
LEMMA AskFacts ==
    ASSUME TInv, NEW t \in Thread, Ask(t)
    PROVE  LET c == NextCall(t) IN
           /\ status[t] = "run" /\ pc[t] \in Nat /\ pc[t] + 1 \in 1..Len(CallsOf(t))
           /\ c.lock \in Lock /\ c.type \in {"Read", "Write"} /\ c.check \in BOOLEAN
           /\ \A k \in Lock : t \notin waiting[k]
<1>1. status[t] = "run" /\ pc[t] # Len(CallsOf(t))
  BY Zenon DEF Ask, AllLocked
<1>2. statement \in Mixes /\ pc[t] \in Nat /\ pc[t] <= Len(CallsOf(t))
  BY Zenon DEF TInv, StatementTypes, Progress
<1>3. Len(CallsOf(t)) \in Nat
  BY <1>2, CallsFacts
<1>4. pc[t] + 1 \in 1..Len(CallsOf(t))
  BY <1>1, <1>2, <1>3
<1>5. \A k \in Lock : t \notin waiting[k]
  BY Zenon, <1>1 DEF TInv, Handlers
<1> QED
  BY Zenon, <1>1, <1>2, <1>4, <1>5, CallFacts DEF NextCall

\* What a statement that leaves, releases
LEMMA UnlockFacts ==
    ASSUME TInv, NEW t \in Thread, Unlock(t)
    PROVE  LET l == CallsOf(t)[pc[t]].lock IN
           /\ status[t] = "leave" /\ pc[t] \in Nat /\ pc[t] \in 1..Len(CallsOf(t))
           /\ l \in Lock /\ Granted(l, t) /\ Count(t) = pc[t]
<1>1. status[t] = "leave" /\ Count(t) = pc[t]
  BY Zenon DEF Unlock, Count
<1>2. statement \in Mixes /\ pc[t] \in Nat /\ pc[t] <= Len(CallsOf(t)) /\ pc[t] > 0
  BY Zenon, <1>1 DEF TInv, StatementTypes, Progress
<1>3. pc[t] \in 1..Len(CallsOf(t))
  BY <1>2, CallsFacts
<1>4. CallsOf(t)[pc[t]].lock \in Lock
  BY Zenon, <1>2, <1>3, CallFacts
<1>5. pc[t] \in 1..Count(t)
  BY <1>1, <1>2
<1>6. Has(t, CallsOf(t)[pc[t]].lock)
  BY Zenon, <1>5 DEF Has
<1>7. Granted(CallsOf(t)[pc[t]].lock, t)
  BY Zenon, <1>1, <1>4, <1>6 DEF TInv, Handlers, Granted
<1> QED
  BY Zenon, <1>1, <1>2, <1>3, <1>4, <1>7

\* A step of a statement is a step of the locks
LEMMA StepUsesLocks ==
    ASSUME TInv, NEW t \in Thread, Step(t)
    PROVE  LockNext \/ UNCHANGED lock_vars
<1>1. CASE Guard(t) \/ WakeUp(t) \/ Work(t)
  BY Zenon, <1>1 DEF Guard, WakeUp, Work, lock_vars
<1>2. CASE Ask(t)
  <2> DEFINE c == NextCall(t)
  <2>1. c.lock \in Lock /\ c.type \in {"Read", "Write"} /\ \A k \in Lock : t \notin waiting[k]
    BY Zenon, <1>2, AskFacts
  <2>2. UNCHANGED lock_vars \/ getLock(c.lock, t, c.type)
    BY Zenon, <1>2 DEF Ask, lock_vars
  <2> QED
    BY Zenon, <2>1, <2>2 DEF LockNext
<1>3. CASE Unlock(t)
  <2> DEFINE l == CallsOf(t)[pc[t]].lock
  <2>1. l \in Lock /\ Granted(l, t)
    BY Zenon, <1>3, UnlockFacts
  <2>2. UNCHANGED lock_vars \/ Release(l, t)
    BY Zenon, <1>3 DEF Unlock, lock_vars
  <2> QED
    BY Zenon, <2>1, <2>2 DEF LockNext
<1> QED
  BY Zenon, <1>1, <1>2, <1>3 DEF Step

LEMMA TypesKept ==
    ASSUME TInv, NEW t \in Thread, Step(t)
    PROVE  StatementTypes'
<1>1. StatementTypes
  BY Zenon DEF TInv
<1>2. CASE Guard(t)
  BY Zenon, <1>1, <1>2 DEF StatementTypes, Guard, Become
<1>3. CASE Ask(t)
  BY <1>1, <1>3 DEF StatementTypes, Ask, Return, Become
<1>4. CASE WakeUp(t)
  BY <1>1, <1>4 DEF StatementTypes, WakeUp, Return, Become
<1>5. CASE Work(t)
  BY Zenon, <1>1, <1>5 DEF StatementTypes, Work, Become
<1>6. CASE Unlock(t)
  <2>1. pc[t] - 1 \in Nat
    BY <1>6, UnlockFacts
  <2> QED
    BY Zenon, <1>1, <1>6, <2>1 DEF StatementTypes, Unlock, Become
<1> QED
  BY Zenon, <1>2, <1>3, <1>4, <1>5, <1>6 DEF Step

\* A DDLGuard has one owner
LEMMA GuardsKept ==
    ASSUME TInv, NEW t \in Thread, Step(t)
    PROVE  GuardsOK'
<1> DEFINE G(u) == Guarded(statement[u])
           R == {u \in Thread : status[u] \in Running}
<1>1. guards = UNION {G(u) : u \in R} /\ \A u, v \in R : u # v => G(u) \cap G(v) = {}
  BY Zenon DEF TInv, GuardsOK
<1>2. statement' = statement /\ \A u \in Thread \ {t} : status'[u] = status[u]
  BY Zenon, Others
<1>3. status \in [Thread -> {"start", "run", "wait", "leave", "end"}]
      /\ status' \in [Thread -> {"start", "run", "wait", "leave", "end"}]
  BY Zenon, TypesKept DEF TInv, StatementTypes
<1>4. SUFFICES /\ guards' = UNION {G(u) : u \in {u \in Thread : status'[u] \in Running}}
               /\ \A u, v \in {u \in Thread : status'[u] \in Running} : u # v => G(u) \cap G(v) = {}
  BY Zenon, <1>2 DEF GuardsOK
<1> HIDE DEF G
<1>5. CASE status[t] \in Running /\ status'[t] \in Running /\ guards' = guards
  BY <1>1, <1>2, <1>5
<1>6. CASE status[t] \notin Running /\ status'[t] \in Running /\ guards' = guards \cup G(t) /\ G(t) \cap guards = {}
  BY <1>1, <1>2, <1>6
<1>7. CASE status[t] \notin Running /\ status'[t] \notin Running /\ guards' = guards
  BY <1>1, <1>2, <1>7
<1>8. CASE status[t] \in Running /\ status'[t] \notin Running /\ guards' = guards \ G(t)
  BY <1>1, <1>2, <1>8
<1>9. CASE Guard(t)
  BY Zenon, <1>3, <1>6, <1>7, <1>9 DEF Guard, Become, Running, G
<1>10. CASE Ask(t) \/ WakeUp(t) \/ Work(t)
  BY Zenon, <1>3, <1>5, <1>10 DEF Ask, WakeUp, Work, Return, Become, Running
<1>11. CASE Unlock(t)
  BY Zenon, <1>3, <1>5, <1>8, <1>11 DEF Unlock, Become, Running, G
<1> QED
  BY Zenon, <1>9, <1>10, <1>11 DEF Step

\* The effect of a step of statement t on its own place
LEMMA ProgressKept ==
    ASSUME TInv, NEW t \in Thread, Step(t)
    PROVE  Progress(t)'
<1> DEFINE c == CallsOf(t)
<1>1. /\ statement \in Mixes /\ pc[t] \in Nat /\ pc[t] <= Len(c)
      /\ status[t] \in {"start", "end"} => pc[t] = 0
      /\ status[t] = "leave" => pc[t] > 0
      /\ status[t] = "wait" => pc[t] < Len(c) /\ New(c, pc[t] + 1)
      /\ \A j \in 1..pc[t] : New(c, j) \/ c[j].type = "Read"
  BY Zenon DEF TInv, StatementTypes, Progress
<1>2. CallsOf(t)' = c /\ Len(c) \in Nat /\ c # <<>> /\ Len(c) > 0
  BY <1>1, Others, CallsFacts DEF CallsOf
<1>3. pc \in [Thread -> Nat] /\ status \in [Thread -> {"start", "run", "wait", "leave", "end"}]
  BY Zenon DEF TInv, StatementTypes
<1> HIDE DEF c
<1>4. SUFFICES /\ pc'[t] <= Len(c)
               /\ status'[t] \in {"start", "end"} => pc'[t] = 0
               /\ status'[t] = "leave" => pc'[t] > 0
               /\ status'[t] = "wait" => pc'[t] < Len(c) /\ New(c, pc'[t] + 1)
               /\ \A j \in 1..pc'[t] : New(c, j) \/ c[j].type = "Read"
  BY Zenon, <1>2 DEF Progress, New
<1>5. CASE Guard(t)
  BY Zenon, <1>1, <1>3, <1>5 DEF Guard, Become
<1>6. CASE Ask(t)
  <2> DEFINE l == NextCall(t).lock
             y == NextCall(t).type
  <2>1. status[t] = "run" /\ pc[t] + 1 \in 1..Len(c) /\ l \in Lock /\ y \in {"Read", "Write"}
        /\ l = c[pc[t] + 1].lock /\ y = c[pc[t] + 1].type
    BY Zenon, <1>6, AskFacts DEF c, NextCall
  <2>2. HasHandler(l, t) <=> \E k \in 1..pc[t] : c[k].lock = l
    BY Zenon, <2>1 DEF TInv, Handlers, Has, Count, c
  <2>3. HasHandler(l, t) <=> ~New(c, pc[t] + 1)
    BY <1>1, <2>1, <2>2 DEF New
  <2>4. Throws(l, t, y) => HasHandler(l, t) /\ pc[t] > 0
    BY <1>1, <2>2 DEF Throws, Recursive
  <2>5. CASE Throws(l, t, y)
    BY Zenon, <1>1, <1>3, <1>6, <2>4, <2>5 DEF Ask, Become
  <2>6. CASE ~Throws(l, t, y)
    <3>1. HasHandler(l, t) => y = "Read"
      BY Zenon, <2>6 DEF Throws, Recursive
    <3>2. New(c, pc[t] + 1) \/ c[pc[t] + 1].type = "Read"
      BY Zenon, <2>1, <2>3, <3>1
    <3>3. \A j \in 1..(pc[t] + 1) : New(c, j) \/ c[j].type = "Read"
      BY <1>1, <3>2
    <3>4. CASE t \in waiting'[l]
      <4>1. status'[t] = "wait" /\ pc'[t] = pc[t]
        BY Zenon, <1>3, <1>6, <2>6, <3>4 DEF Ask, Become
      <4>2. ~HasHandler(l, t)
        BY Zenon, <1>6, <2>1, <2>6, <3>4, AskFacts DEF Ask, getLock, Recursive
      <4> QED
        BY <1>1, <2>1, <2>3, <4>1, <4>2
    <3>5. CASE t \notin waiting'[l]
      <4>1. status'[t] \in {"leave", "run"} /\ pc'[t] = pc[t] + 1
        BY Zenon, <1>3, <1>6, <2>6, <3>5 DEF Ask, Return, Become
      <4> QED
        BY <1>1, <2>1, <3>3, <4>1
    <3> QED
      BY Zenon, <3>4, <3>5
  <2> QED
    BY Zenon, <2>5, <2>6
<1>7. CASE WakeUp(t)
  <2>1. status[t] = "wait" /\ status'[t] \in {"leave", "run"} /\ pc'[t] = pc[t] + 1
    BY Zenon, <1>3, <1>7 DEF WakeUp, Return, Become
  <2> QED
    BY <1>1, <1>2, <2>1
<1>8. CASE Work(t)
  <2>1. status[t] = "run" /\ pc[t] = Len(c) /\ status'[t] = "leave" /\ pc'[t] = pc[t]
    BY Zenon, <1>3, <1>8 DEF Work, Become, AllLocked, c
  <2> QED
    BY Zenon, <1>1, <1>2, <2>1
<1>9. CASE Unlock(t)
  <2>1. status[t] = "leave" /\ pc'[t] = pc[t] - 1 /\ status'[t] = IF pc[t] = 1 THEN "end" ELSE "leave"
    BY Zenon, <1>3, <1>9 DEF Unlock, Become
  <2> QED
    BY <1>1, <2>1
<1> QED
  BY Zenon, <1>5, <1>6, <1>7, <1>8, <1>9 DEF Step

\* Who is past getLock has the lock
LEMMA HeldIsGranted ==
    ASSUME TInv, NEW u \in Thread, NEW k \in 1..pc[u]
    PROVE  CallsOf(u)[k].lock \in Lock /\ Granted(CallsOf(u)[k].lock, u)
<1> DEFINE l == CallsOf(u)[k].lock
<1>1. statement \in Mixes /\ pc[u] \in Nat /\ pc[u] <= Len(CallsOf(u))
      /\ (status[u] = "wait" => New(CallsOf(u), pc[u] + 1))
  BY Zenon DEF TInv, StatementTypes, Progress
<1>2. k \in 1..Len(CallsOf(u)) /\ k \in 1..Count(u)
  BY <1>1, CallsFacts DEF Count
<1>3. l \in Lock /\ Has(u, l)
  BY Zenon, <1>1, <1>2, CallFacts DEF Has
<1>4. ASSUME u \in waiting[l]
      PROVE  FALSE
  <2>1. status[u] = "wait" /\ l = CallsOf(u)[pc[u] + 1].lock
    BY Zenon, <1>3, <1>4 DEF TInv, Handlers, NextCall
  <2> QED
    BY <1>1, <2>1 DEF New
<1> QED
  BY Zenon, <1>3, <1>4 DEF Granted, TInv, Handlers

\* A writer that has a lock is alone
LEMMA WriterIsAlone ==
    ASSUME TInv, NEW l \in Lock, NEW t \in Thread, NEW u \in Thread,
           Granted(l, t), Granted(l, u), Writes(l, t)
    PROVE  u = t
<1>1. IInv
  BY Zenon DEF TInv
<1>2. 1 \in DOMAIN queue[l] /\ t \in queue[l][1].clients /\ u \in queue[l][1].clients
  BY Zenon, <1>1, GrantedFirst
<1> QED
  BY Zenon, <1>1, <1>2 DEF IInv, QueueOK, Writes

\* A dropped table is not in use: the DROP has both its locks alone
LEMMA UnusedKept ==
    ASSUME TInv, NEW t \in Thread, Step(t), NEW u \in Thread
    PROVE  Unused(u)'
<1> SUFFICES ASSUME status'[u] \in {"run", "wait"}, NEW k \in 1..pc'[u], CallsOf(u)[k].check
             PROVE  ~is_dropped'[CallsOf(u)[k].lock[1]]
  BY Zenon, Others DEF Unused, CallsOf
<1>1. /\ statement \in Mixes /\ pc \in [Thread -> Nat] /\ is_dropped \in [Table -> BOOLEAN]
      /\ status \in [Thread -> {"start", "run", "wait", "leave", "end"}]
  BY Zenon DEF TInv, StatementTypes
<1>2. CASE ~Work(t) /\ u # t
  <2>1. is_dropped' = is_dropped
    BY Zenon, <1>2 DEF Step, Guard, Ask, WakeUp, Unlock
  <2> QED
    BY <1>2, <2>1, Others DEF TInv, Unused
<1>3. CASE ~Work(t) /\ u = t
  <2>1. is_dropped' = is_dropped
    BY Zenon, <1>3 DEF Step, Guard, Ask, WakeUp, Unlock
  <2>2. CASE Guard(t)
    <3>1. pc'[t] = pc[t] /\ pc[t] = 0
      BY Zenon, <2>2 DEF Guard, TInv, Progress
    <3> QED
      BY <1>3, <3>1
  <2>3. CASE Ask(t) \/ WakeUp(t)
    <3>1. status[t] \in {"run", "wait"}
      BY Zenon, <2>3 DEF Ask, WakeUp
    <3>2. CASE k \in 1..pc[t]
      BY Zenon, <1>3, <2>1, <3>1, <3>2 DEF TInv, Unused
    <3>3. CASE k \notin 1..pc[t]
      <4>1. Return(t, NextCall(t)) \/ pc'[t] = pc[t]
        BY Zenon, <2>3 DEF Ask, WakeUp
      <4>2. Return(t, NextCall(t)) /\ k = pc[t] + 1
        BY <1>1, <1>3, <3>3, <4>1 DEF Return
      <4>3. ~DroppedMeanwhile(NextCall(t))
        BY Zenon, <1>1, <1>3, <4>2 DEF Return, Become
      <4> QED
        BY Zenon, <1>3, <2>1, <4>2, <4>3 DEF DroppedMeanwhile, NextCall
    <3> QED
      BY Zenon, <3>2, <3>3
  <2>4. CASE Unlock(t)
    <3>1. status'[t] \notin {"run", "wait"}
      BY Zenon, <1>1, <2>4 DEF Unlock, Become
    <3> QED
      BY Zenon, <1>3, <3>1
  <2> QED
    BY Zenon, <1>3, <2>2, <2>3, <2>4 DEF Step
<1>4. CASE Work(t)
  <2> DEFINE l == CallsOf(u)[k].lock
  <2>1. u # t
    BY Zenon, <1>1, <1>4 DEF Work, Become
  <2>2. k \in 1..pc[u] /\ status[u] \in {"run", "wait"}
    BY Zenon, <2>1, Others
  <2>3. ~is_dropped[l[1]]
    BY Zenon, <2>2 DEF TInv, Unused
  <2>4. l \in Lock /\ Granted(l, u)
    BY Zenon, <2>2, HeldIsGranted
  <2>5. l[1] \in Table /\ l[2] \in {"data", "structure"} /\ l = <<l[1], l[2]>>
    BY <2>4, LocksOfTables
  <2>6. CASE statement[t].kind = "DROP" /\ l[1] = statement[t].tables[1]
    <3>1. PICK m \in DOMAIN CallsOf(t) : CallsOf(t)[m].lock = l /\ CallsOf(t)[m].type = "Write"
      <4>1. DropsAlone(statement[t])
        BY Zenon, <1>1, CallsFacts
      <4> QED
        BY Zenon, <2>5, <2>6, <4>1 DEF DropsAlone, CallsOf
    <3>2. m \in 1..pc[t] /\ Count(t) = pc[t]
      BY <1>1, <1>4, CallsFacts DEF Work, AllLocked, Count
    <3>3. Granted(l, t) /\ HasWrite(t, l)
      BY Zenon, <3>1, <3>2, HeldIsGranted DEF HasWrite
    <3>4. Writes(l, t)
      BY Zenon, <2>4, <3>3 DEF TInv, Handlers
    <3> QED
      BY Zenon, <2>1, <2>4, <3>3, <3>4, WriterIsAlone
  <2>7. CASE ~(statement[t].kind = "DROP" /\ l[1] = statement[t].tables[1])
    BY Zenon, <1>1, <1>4, <2>3, <2>5, <2>7 DEF Work
  <2> QED
    BY Zenon, <2>6, <2>7
<1> QED
  BY Zenon, <1>2, <1>3, <1>4

\* The queues go on holding what the statements asked for
LEMMA HandlersKept ==
    ASSUME TInv, NEW t \in Thread, Step(t), NEW u \in Thread, NEW l \in Lock
    PROVE  Handlers(u, l)'
<1>1. /\ statement \in Mixes /\ pc \in [Thread -> Nat] /\ IInv
      /\ status \in [Thread -> {"start", "run", "wait", "leave", "end"}]
  BY Zenon DEF TInv, StatementTypes
<1>2. /\ HasHandler(l, u) <=> Has(u, l)
      /\ Writes(l, u) <=> HasWrite(u, l)
      /\ u \in waiting[l] => status[u] = "wait" /\ l = NextCall(u).lock
  BY Zenon DEF TInv, Handlers
<1>3. statement' = statement /\ CallsOf(t)' = CallsOf(t) /\ CallsOf(u)' = CallsOf(u)
  BY Zenon, Others DEF CallsOf
<1>4. ASSUME u # t, HasHandler(l, u)' <=> HasHandler(l, u), Writes(l, u)' <=> Writes(l, u),
             u \in waiting'[l] => u \in waiting[l]
      PROVE  Handlers(u, l)'
  BY Zenon, <1>2, <1>4, Others, Frame DEF Handlers
<1>5. ASSUME queue' = queue, waiting' = waiting
      PROVE  /\ HasHandler(l, u)' <=> HasHandler(l, u)
             /\ Writes(l, u)' <=> Writes(l, u)
             /\ u \in waiting'[l] <=> u \in waiting[l]
  BY Zenon, <1>5 DEF HasHandler, Writes
<1>6. CASE Guard(t) \/ WakeUp(t) \/ Work(t) \/ (Ask(t) /\ Throws(NextCall(t).lock, t, NextCall(t).type))
  <2>1. queue' = queue /\ waiting' = waiting
    BY Zenon, <1>6 DEF Guard, WakeUp, Work, Ask
  <2>2. CASE u = t
    <3>1. Count(t)' = Count(t)
      BY Zenon, <1>1, <1>6 DEF Guard, WakeUp, Work, Ask, Return, Become, Count
    <3>2. t \notin waiting[l]
      BY Zenon, <1>2, <1>6, <2>2 DEF Guard, WakeUp, Work, Ask, Granted
    <3>3. Has(t, l)' <=> Has(t, l)
      BY Zenon, <1>3, <3>1 DEF Has
    <3>4. HasWrite(t, l)' <=> HasWrite(t, l)
      BY Zenon, <1>3, <3>1 DEF HasWrite
    <3> QED
      BY Zenon, <1>2, <1>5, <2>1, <2>2, <3>2, <3>3, <3>4 DEF Handlers
  <2>3. CASE u # t
    BY Zenon, <1>4, <1>5, <2>1, <2>3
  <2> QED
    BY Zenon, <2>2, <2>3
<1>7. CASE Ask(t) /\ ~Throws(NextCall(t).lock, t, NextCall(t).type)
  <2> DEFINE c == NextCall(t)
  <2>1. /\ status[t] = "run" /\ pc[t] \in Nat /\ c = CallsOf(t)[pc[t] + 1]
        /\ c.lock \in Lock /\ c.type \in {"Read", "Write"} /\ t \notin waiting[l] /\ t \notin waiting[c.lock]
    BY Zenon, <1>7, AskFacts DEF NextCall
  <2>2. getLock(c.lock, t, c.type)
        /\ IF t \in waiting'[c.lock] THEN Become(t, "wait") /\ UNCHANGED pc ELSE Return(t, c)
    BY Zenon, <1>7 DEF Ask
  <2>3. Count(t) = pc[t] /\ Count(t)' = pc[t] + 1
    BY Zenon, <1>1, <2>1, <2>2 DEF Return, Become, Count
  <2>4. /\ Has(t, l)' <=> Has(t, l) \/ c.lock = l
        /\ HasWrite(t, l)' <=> HasWrite(t, l) \/ (c.lock = l /\ c.type = "Write")
    BY <1>3, <2>1, <2>3 DEF Has, HasWrite
  <2> HIDE DEF c
  <2>5. CASE HasHandler(c.lock, t)
    <3>1. queue' = queue /\ waiting' = waiting
      BY Zenon, <2>2, <2>5 DEF getLock, Recursive
    <3>2. c.type = "Read"
      BY Zenon, <1>7, <2>5 DEF Throws, Recursive, c
    <3>3. CASE u = t
      BY Zenon, <1>2, <1>5, <2>1, <2>4, <2>5, <3>1, <3>2, <3>3 DEF Handlers
    <3>4. CASE u # t
      BY Zenon, <1>4, <1>5, <3>1, <3>4
    <3> QED
      BY Zenon, <3>3, <3>4
  <2>6. CASE ~HasHandler(c.lock, t)
    <3>1. /\ queue' = [queue EXCEPT ![c.lock] = Enqueued(c.lock, t, c.type)]
          /\ waiting' = waiting \/ waiting' = [waiting EXCEPT ![c.lock] = @ \cup {t}]
      BY Zenon, <2>2, <2>6 DEF getLock, Recursive
    <3>2. /\ HasHandler(l, u)' <=> HasHandler(l, u) \/ (l = c.lock /\ u = t)
          /\ Writes(l, u)' <=> Writes(l, u) \/ (l = c.lock /\ u = t /\ c.type = "Write")
      BY <1>1, <2>1, <2>6, <3>1, EnqueueEffect
    <3>3. u \in waiting'[l] => u \in waiting[l] \/ (u = t /\ l = c.lock)
      BY <1>1, <2>1, <3>1 DEF IInv, LocksTypeOK
    <3>4. CASE u = t
      <4>1. t \in waiting'[l] => status'[t] = "wait" /\ NextCall(t)' = c
        BY Zenon, <1>1, <1>3, <2>1, <2>2, <3>3, <3>4 DEF Become, NextCall
      <4> QED
        BY Zenon, <1>2, <2>1, <2>4, <3>2, <3>3, <3>4, <4>1 DEF Handlers
    <3>5. CASE u # t
      BY Zenon, <1>4, <3>2, <3>3, <3>5
    <3> QED
      BY Zenon, <3>4, <3>5
  <2> QED
    BY Zenon, <2>5, <2>6
<1>8. CASE Unlock(t)
  <2> DEFINE m == CallsOf(t)[pc[t]].lock
             again == \E k \in 1..(pc[t] - 1) : CallsOf(t)[k].lock = m
  <2>1. /\ status[t] = "leave" /\ pc[t] \in Nat /\ pc[t] > 0
        /\ m \in Lock /\ Granted(m, t) /\ Count(t) = pc[t]
    BY <1>8, UnlockFacts
  <2>2. Count(t)' = pc[t] - 1
    BY Zenon, <1>1, <1>8 DEF Unlock, Become, Count
  <2>3. t \notin waiting[l]
    BY Zenon, <2>1 DEF TInv, Handlers
  <2>4. CASE again
    <3>1. queue' = queue /\ waiting' = waiting
      BY Zenon, <1>8, <2>4 DEF Unlock
    <3>2. CASE u = t
      <4>1. CallsOf(t)[pc[t]].type = "Read"
        <5>1. New(CallsOf(t), pc[t]) \/ CallsOf(t)[pc[t]].type = "Read"
          BY <2>1 DEF TInv, Progress
        <5> QED
          BY Zenon, <2>4, <5>1 DEF New
      <4>2. Has(t, l)' <=> Has(t, l)
        BY <1>3, <2>1, <2>2, <2>4 DEF Has
      <4>3. HasWrite(t, l)' <=> HasWrite(t, l)
        BY <1>3, <2>1, <2>2, <4>1 DEF HasWrite
      <4> QED
        BY Zenon, <1>2, <1>5, <2>3, <3>1, <3>2, <4>2, <4>3 DEF Handlers
    <3>3. CASE u # t
      BY Zenon, <1>4, <1>5, <3>1, <3>3
    <3> QED
      BY Zenon, <3>2, <3>3
  <2>5. CASE ~again
    <3>1. Release(m, t)
      BY Zenon, <1>8, <2>5 DEF Unlock
    <3>2. /\ HasHandler(l, u)' <=> HasHandler(l, u) /\ ~(l = m /\ u = t)
          /\ Writes(l, u)' <=> Writes(l, u) /\ ~(l = m /\ u = t)
          /\ waiting'[l] \subseteq waiting[l]
      BY Zenon, <1>1, <2>1, <3>1, ReleaseEffect
    <3>3. CASE u = t
      <4>1. Has(t, l)' <=> Has(t, l) /\ l # m
        BY <1>3, <2>1, <2>2, <2>5 DEF Has
      <4>2. HasWrite(t, l)' <=> HasWrite(t, l) /\ l # m
        BY <1>3, <2>1, <2>2, <2>5 DEF HasWrite
      <4> QED
        BY Zenon, <1>2, <2>3, <3>2, <3>3, <4>1, <4>2 DEF Handlers
    <3>4. CASE u # t
      BY Zenon, <1>4, <3>2, <3>4
    <3> QED
      BY Zenon, <3>3, <3>4
  <2> QED
    BY Zenon, <2>4, <2>5
<1> QED
  BY Zenon, <1>6, <1>7, <1>8 DEF Step

-----------------------------------------------------------------------------

\* The inductive invariant of the statements and their locks (every action of TableLocks)
THEOREM StatementsInvariant == Spec => []TInv
<1>1. Init => TInv
  <2> SUFFICES ASSUME Init
               PROVE  TInv
    OBVIOUS
  <2>1. LocksInit /\ IInv
    BY DEF Init, LocksInit, IInv, LocksTypeOK, QueueOK, WaitOK
  <2>2. statement \in Mixes /\ pc = [t \in Thread |-> 0] /\ guards = {} /\ is_dropped = [table \in Table |-> FALSE]
        /\ status = [t \in Thread |-> IF Guarded(statement[t]) # {} THEN "start" ELSE "run"]
    BY Zenon DEF Init
  <2>3. StatementTypes
    BY Zenon, <2>2 DEF StatementTypes
  <2>4. GuardsOK
    <3>1. \A t \in Thread : status[t] \in Running => Guarded(statement[t]) = {}
      BY Zenon, <2>2 DEF Running
    <3> QED
      BY Zenon, <2>2, <3>1 DEF GuardsOK
  <2>5. ASSUME NEW t \in Thread
        PROVE  Progress(t) /\ Unused(t) /\ Count(t) = 0
    <3>1. Len(CallsOf(t)) \in Nat
      BY <2>2, CallsFacts
    <3> QED
      BY <2>2, <3>1 DEF Progress, Unused, Count
  <2>6. ASSUME NEW t \in Thread, NEW l \in Lock
        PROVE  Handlers(t, l)
    <3>1. ~HasHandler(l, t) /\ ~Writes(l, t) /\ t \notin waiting[l]
      BY <2>1 DEF LocksInit, HasHandler, Writes
    <3>2. ~Has(t, l) /\ ~HasWrite(t, l)
      BY <2>5 DEF Has, HasWrite
    <3> QED
      BY Zenon, <3>1, <3>2 DEF Handlers
  <2> QED
    BY Zenon, <2>1, <2>3, <2>4, <2>5, <2>6 DEF TInv
<1>2. TInv /\ [Next]_vars => TInv'
  <2>1. ASSUME TInv, NEW t \in Thread, Step(t)
        PROVE  TInv'
    <3>1. IInv'
      BY Zenon, <2>1, StepUsesLocks, StepKeepsIInv DEF TInv
    <3>2. StatementTypes' /\ GuardsOK'
      BY Zenon, <2>1, TypesKept, GuardsKept
    <3>3. ASSUME NEW u \in Thread
          PROVE  Progress(u)' /\ Unused(u)'
      <4>1. Progress(u)'
        BY Zenon, <2>1, ProgressKept, Others, Frame DEF TInv
      <4> QED
        BY Zenon, <2>1, <4>1, UnusedKept
    <3>4. \A u \in Thread, l \in Lock : Handlers(u, l)'
      BY Zenon, <2>1, HandlersKept
    <3> QED
      BY Zenon, <3>1, <3>2, <3>3, <3>4 DEF TInv
  <2>2. ASSUME TInv, UNCHANGED vars
        PROVE  TInv'
    <3>1. UNCHANGED lock_vars /\ UNCHANGED <<statement, pc, status, guards, is_dropped>>
      BY Zenon, <2>2 DEF vars, lock_vars
    <3>2. IInv'
      BY Zenon, <2>2, <3>1, StepKeepsIInv DEF TInv
    <3>3. StatementTypes' /\ GuardsOK'
      BY Zenon, <2>2, <3>1 DEF TInv, StatementTypes, GuardsOK
    <3>4. \A t \in Thread : Progress(t)' /\ Unused(t)'
      BY Zenon, <2>2, <3>1, Frame DEF TInv, Unused, CallsOf
    <3>5. ASSUME NEW t \in Thread, NEW l \in Lock
          PROVE  Handlers(t, l)'
      <4>1. Handlers(t, l) /\ queue' = queue /\ waiting' = waiting /\ status' = status
        BY Zenon, <2>2, <3>1 DEF TInv, lock_vars
      <4>2. (HasHandler(l, t)' <=> HasHandler(l, t)) /\ (Writes(l, t)' <=> Writes(l, t))
        BY Zenon, <4>1 DEF HasHandler, Writes
      <4>3. (Has(t, l)' <=> Has(t, l)) /\ (HasWrite(t, l)' <=> HasWrite(t, l)) /\ NextCall(t)' = NextCall(t)
        BY Zenon, <3>1, Frame
      <4> QED
        BY Zenon, <4>1, <4>2, <4>3 DEF Handlers
    <3> QED
      BY Zenon, <3>2, <3>3, <3>4, <3>5 DEF TInv
  <2> QED
    BY Zenon, <2>1, <2>2 DEF Next
<1> QED
  BY <1>1, <1>2, PTL DEF Spec

\* The statements implement LockSpec: a thread asks for a lock only when it waits for none,
\* and a statement that ends or is unwound drops each handler once, as it was given
THEOREM StatementsUseLocks == Spec => UsesLocks
<1>1. Init => LocksInit
  BY Zenon DEF Init
<1>2. TInv /\ [Next]_vars => [LockNext]_lock_vars
  BY Zenon, StepUsesLocks DEF Next, vars, lock_vars
<1> QED
  BY <1>1, <1>2, StatementsInvariant, PTL DEF Spec, UsesLocks, LockSpec

\* Readers share a lock of a table and a writer has it alone, whatever statements run
THEOREM StatementsExclude == Spec => []Exclusion
BY StatementsUseLocks, LocksExclude, PTL DEF UsesLocks

\* Nothing runs on a dropped table, and a DDLGuard has one owner
THEOREM DroppedTablesAreUnused == Spec => []DroppedIsUnused
<1>1. ASSUME TInv
      PROVE  TypeOK
  <2>1. LocksTypeOK
    BY Zenon, <1>1 DEF TInv, IInv
  <2>2. \A t \in Thread : pc[t] <= Len(CallsOf(t))
    BY Zenon, <1>1 DEF TInv, Progress
  <2> QED
    BY Zenon, <1>1, <2>1, <2>2 DEF TInv, StatementTypes, GuardsOK, Running, TypeOK
<1>2. TInv => DroppedIsUnused
  BY Zenon, <1>1 DEF TInv, Unused, DroppedIsUnused
<1> QED
  BY <1>2, StatementsInvariant, PTL

-----------------------------------------------------------------------------

LOCAL INSTANCE WellFoundedInduction

\* A nonempty set of naturals with a bound has a greatest element
LEMMA Greatest ==
    ASSUME NEW S, NEW n \in Nat, S \subseteq 0..n, S # {}
    PROVE  \E m \in S : \A k \in S : k <= m
<1> DEFINE T == {n - k : k \in S}
           R == {x \in Nat \X Nat : x[1] < x[2]}
<1>1. T \subseteq Nat /\ T # {}
  <2>1. \A k \in S : n - k \in Nat
    OBVIOUS
  <2>2. PICK k \in S : TRUE
    OBVIOUS
  <2>3. n - k \in T
    BY Zenon, <2>2
  <2> QED
    BY Zenon, <2>1, <2>3
<1>2. IsWellFoundedOn(R, Nat)
  BY Zenon, NatLessThanWellFounded DEF OpToRel
<1>3. PICK x \in T : \A y \in T : ~(<<y, x>> \in R)
  <2> HIDE DEF T, R
  <2> QED
    BY Zenon, <1>1, <1>2, WFMin
<1>4. \A y \in T : ~(y < x)
  BY Zenon, <1>1, <1>3
<1>5. PICK m \in S : x = n - m
  OBVIOUS
<1>6. ASSUME NEW k \in S
      PROVE  k <= m
  <2>1. n - k \in T /\ ~(n - k < n - m)
    BY Zenon, <1>4, <1>5
  <2>2. n \in Nat /\ k \in Nat /\ m \in Nat
    OBVIOUS
  <2> HIDE DEF T
  <2> QED
    BY <2>1, <2>2
<1> QED
  BY Zenon, <1>6

\* The locks of a statement in the order it takes them: of one table first the data, and
\* otherwise as its tables come
LEMMA NextIsHigher ==
    ASSUME TInv, NEW u \in Thread, status[u] = "wait", NEW k \in 1..pc[u]
    PROVE  LET l == CallsOf(u)[k].lock
               n == NextCall(u).lock
           IN \/ l[1] = n[1] /\ l[2] = "data" /\ n[2] = "structure"
              \/ l[1] # n[1] /\ InOrder(statement[u], l[1], n[1])
<1> DEFINE c == CallsOf(u)
           j == pc[u] + 1
<1>1. statement \in Mixes /\ pc[u] \in Nat /\ pc[u] < Len(c) /\ New(c, j)
  BY Zenon DEF TInv, StatementTypes, Progress
<1>2. c \in Seq(CallType) /\ DataFirst(c)
  BY Zenon, <1>1, CallsFacts
<1>3. j \in DOMAIN c /\ k \in 1..(j - 1) /\ k \in DOMAIN c
  BY <1>1, <1>2
<1>4. NextCall(u) = c[j] /\ statement[u].calls = c
  BY Zenon DEF NextCall, CallsOf
<1> HIDE DEF c
<1>5. CASE c[k].lock[1] = c[j].lock[1]
  BY Zenon, <1>1, <1>2, <1>3, <1>4, <1>5 DEF DataFirst, c
<1>6. CASE c[k].lock[1] # c[j].lock[1]
  <2>1. CASE \A i \in 1..(j - 1) : c[i].lock[1] # c[j].lock[1]
    <3>1. k < j
      BY <1>1, <1>3
    <3> QED
      BY Zenon, <1>3, <1>4, <1>6, <2>1, <3>1 DEF InOrder, c
  <2>2. CASE ~\A i \in 1..(j - 1) : c[i].lock[1] # c[j].lock[1]
    <3>1. PICK i \in 1..(j - 1) : c[i].lock[1] = c[j].lock[1]
      BY Zenon, <2>2
    <3>2. \A h \in 1..(j - 1) : c[h].lock[1] = c[j].lock[1] => h = j - 1
      BY Zenon, <1>1, <1>2, <1>3 DEF DataFirst
    <3>3. i = j - 1 /\ i \in DOMAIN c /\ k < i
      BY <1>1, <1>2, <1>3, <1>6, <3>1, <3>2
    <3>4. \A h \in 1..(i - 1) : c[h].lock[1] # c[i].lock[1]
      <4>1. i = j - 1 /\ j \in Nat
        BY <1>1, <3>3
      <4>2. \A h \in 1..(i - 1) : h \in 1..(j - 1) /\ h # j - 1
        BY <4>1
      <4> QED
        BY Zenon, <3>1, <3>2, <4>2
    <3> QED
      BY Zenon, <1>3, <1>4, <1>6, <3>1, <3>3, <3>4 DEF InOrder, c
  <2> QED
    BY Zenon, <2>1, <2>2
<1> QED
  BY Zenon, <1>5, <1>6

\* A statement that is blocked waits for one that has the lock
LEMMA BlockedByHolder ==
    ASSUME TInv, NEW t \in Thread, Blocked(t)
    PROVE  NextCall(t).lock \in Lock /\ \E u \in Thread : Granted(NextCall(t).lock, u)
<1> DEFINE l == NextCall(t).lock
<1>1. statement \in Mixes /\ pc[t] \in Nat /\ pc[t] < Len(CallsOf(t)) /\ status[t] = "wait"
  BY Zenon DEF TInv, StatementTypes, Progress, Blocked
<1>2. pc[t] + 1 \in 1..Len(CallsOf(t)) /\ pc[t] + 1 \in 1..Count(t)
  BY <1>1, CallsFacts DEF Count
<1>3. l \in Lock /\ Has(t, l)
  BY Zenon, <1>1, <1>2, CallFacts DEF NextCall, Has
<1>4. HasHandler(l, t)
  BY Zenon, <1>3 DEF TInv, Handlers
<1>5. t \in waiting[l]
  BY Zenon, <1>4 DEF Blocked, Granted
<1>6. queue[l] \in Seq(Group) /\ QueueOK(queue[l]) /\ WaitOK(queue[l], waiting[l])
  BY Zenon, <1>3 DEF TInv, IInv, LocksTypeOK
<1>7. 1 \in DOMAIN queue[l]
  BY <1>4, <1>6 DEF HasHandler
<1>8. queue[l][1] \in Group
  BY <1>6, <1>7
<1>9. PICK u \in Thread : u \in queue[l][1].clients
  BY Zenon, <1>6, <1>7, <1>8 DEF QueueOK, Group
<1>10. u \notin waiting[l]
  BY <1>6, <1>7, <1>9 DEF QueueOK, WaitOK
<1> QED
  BY Zenon, <1>3, <1>7, <1>9, <1>10 DEF Granted, HasHandler

\* The locks alone do not deadlock statements that take their tables in one order: among
\* the locks that are waited for one comes last, and who has it does not wait for an
\* earlier one
THEOREM NoDeadlockInOneOrder == Spec => []DeadlockNeedsConflictingOrders
<1>1. ASSUME TInv, NEW t0 \in Thread, status[t0] # "end",
             \A t \in Thread : status[t] = "end" \/ Blocked(t), OneOrder
      PROVE  FALSE
  <2> DEFINE N == Tables
             Live == {u \in Thread : status[u] # "end"}
  <2>1. PICK rank \in [Table -> 1..N] : \A t \in Live : \A a, b \in Table :
             a # b /\ InOrder(statement[t], a, b) => rank[a] < rank[b]
    BY Zenon, <1>1 DEF OneOrder, Table
  <2>2. N \in Nat
    BY Zenon, LocksOfTables
  <2> DEFINE Place(l) == 2 * rank[l[1]] + (IF l[2] = "structure" THEN 1 ELSE 0)
             S == {Place(NextCall(t).lock) : t \in Live}
  <2> HIDE DEF N
  <2>3. \A l \in Lock : Place(l) \in 0..(2 * N + 1) /\ l[1] \in Table
    <3>1. ASSUME NEW l \in Lock
          PROVE  l[1] \in Table /\ rank[l[1]] \in 1..N
      BY Zenon, <2>1, LocksOfTables
    <3>2. ASSUME NEW r \in 1..N, NEW b \in {0, 1}
          PROVE  2 * r + b \in 0..(2 * N + 1)
      BY <2>2
    <3> QED
      BY Zenon, <3>1, <3>2
  <2>4. \A t \in Live : Blocked(t) /\ status[t] = "wait"
    BY Zenon, <1>1 DEF Blocked
  <2>5. \A t \in Live : NextCall(t).lock \in Lock /\ \E u \in Thread : Granted(NextCall(t).lock, u)
    BY Zenon, <1>1, <2>4, BlockedByHolder
  <2>6. S \subseteq 0..(2 * N + 1) /\ S # {}
    <3> HIDE DEF Place
    <3> QED
      BY Zenon, <1>1, <2>3, <2>5
  <2>7. ASSUME NEW t \in Live
        PROVE  \E u \in Live : Place(NextCall(t).lock) < Place(NextCall(u).lock)
    <3> DEFINE l == NextCall(t).lock
    <3>1. PICK u \in Thread : Granted(l, u)
      BY Zenon, <2>5
    <3>2. l \in Lock /\ Has(u, l)
      BY Zenon, <1>1, <2>5, <3>1 DEF TInv, Handlers, Granted
    <3>3. pc[u] \in Nat /\ (status[u] = "end" => pc[u] = 0)
      BY Zenon, <1>1 DEF TInv, StatementTypes, Progress
    <3>4. u \in Live
      BY <3>2, <3>3 DEF Has, Count
    <3>5. status[u] = "wait" /\ ~Granted(NextCall(u).lock, u)
      BY Zenon, <2>4, <3>4 DEF Blocked
    <3>6. PICK k \in 1..(pc[u] + 1) : CallsOf(u)[k].lock = l
      BY Zenon, <3>2, <3>5 DEF Has, Count
    <3>7. k \in 1..pc[u]
      BY <3>1, <3>3, <3>5, <3>6 DEF NextCall
    <3> DEFINE n == NextCall(u).lock
    <3>8. \/ l[1] = n[1] /\ l[2] = "data" /\ n[2] = "structure"
          \/ l[1] # n[1] /\ InOrder(statement[u], l[1], n[1])
      BY Zenon, <1>1, <3>5, <3>6, <3>7, NextIsHigher
    <3>9. n \in Lock
      BY Zenon, <2>5, <3>4
    <3> HIDE DEF l, n
    <3>10. l[1] \in Table /\ n[1] \in Table /\ rank[l[1]] \in Nat /\ rank[n[1]] \in Nat
      BY <2>1, <2>2, <2>3, <3>2, <3>9
    <3>11. l[1] # n[1] => rank[l[1]] < rank[n[1]]
      BY Zenon, <2>1, <3>4, <3>8, <3>10
    <3>12. Place(l) < Place(n)
      BY <3>8, <3>10, <3>11
    <3> QED
      BY Zenon, <3>4, <3>12 DEF l, n
  <2> HIDE DEF Place
  <2>8. PICK m \in S : \A k \in S : k <= m
    <3>1. 2 * N + 1 \in Nat
      BY <2>2
    <3> HIDE DEF S
    <3> QED
      BY Zenon, <2>6, <3>1, Greatest
  <2>9. PICK t \in Live : m = Place(NextCall(t).lock)
    BY Zenon, <2>8
  <2>10. PICK u \in Live : m < Place(NextCall(u).lock)
    BY Zenon, <2>7, <2>9
  <2>11. Place(NextCall(u).lock) \in S /\ Place(NextCall(u).lock) \in Nat /\ m \in Nat
    BY <2>2, <2>6, <2>8
  <2> QED
    BY <2>8, <2>10, <2>11
<1>2. TInv => DeadlockNeedsConflictingOrders
  BY Zenon, <1>1 DEF DeadlockNeedsConflictingOrders
<1> QED
  BY <1>2, StatementsInvariant, PTL
=============================================================================
