----------------------- MODULE ReplicatedInsertProofs -----------------------
(***************************************************************************)
(* Proofs about ReplicatedInsert, for any number of replicas, clients and  *)
(* blocks, any faults and any order of steps: its inductive invariant, one *)
(* lemma for each action that preserves it, and the theorems.              *)
(***************************************************************************)
EXTENDS ReplicatedInsert, FiniteSetTheorems, TLAPS

\* The parts that were registered by the transaction of some INSERT.
Logged == {log[i] : i \in DOMAIN log}

Flight == [pc : {"multi", "commit"}, at : Replica, number : Number]

InFlight(c) == insert[c].pc \in {"multi", "commit"}

Types ==
    /\ zk_parts \in [Replica -> SUBSET Number]
    /\ log \in Seq(Number)
    /\ log_pointer \in [Replica -> 0..Len(log)]
    /\ queue \in [Replica -> [Number -> Nat]]
    /\ next_number \in Nat /\ 1..next_number \subseteq Number
    /\ content \in [Number -> {{}} \cup {{Block[c]} : c \in Client}]
    /\ parts \in [Replica -> [Number -> PartState]]
    /\ up \subseteq Replica
    /\ fetching \in [Replica -> SUBSET Number]
    /\ insert \in [Client -> {Idle, Done} \cup Flight]
    /\ faults \in 0..MaxFaults

\* An INSERT under way owns its number, and its part waits for it.
Owned ==
    /\ \A n \in Logged : n <= next_number
    /\ \A c \in Client : InFlight(c) =>
          /\ insert[c].number <= next_number /\ insert[c].at \in up
          /\ parts[insert[c].at][insert[c].number] = "PreCommitted"
          /\ content[insert[c].number] = {Block[c]}
          /\ insert[c].pc = "commit" => insert[c].number \in zk_parts[insert[c].at]
          /\ insert[c].pc = "multi" => insert[c].number \notin Logged
    /\ \A c, d \in Client : InFlight(c) /\ InFlight(d) /\ c # d => insert[c].number # insert[d].number

\* What replicas list, queue, fetch and serve was registered.
Listed ==
    /\ \A r \in Replica : zk_parts[r] \subseteq Logged /\ fetching[r] \subseteq Logged
    /\ \A r \in Replica, n \in Number : queue[r][n] > 0 => n \in Logged
    /\ \A r \in Replica, n \in Number : n \in fetching[r] => parts[r][n] = "none" /\ r \in up
    /\ \A r \in Replica, n \in Number : parts[r][n] = "Committed" => n \in zk_parts[r]

\* Registered parts correspond to the block ids one to one.
Unique ==
    /\ \A n \in Logged : \E b \in blocks : content[n] = {b}
    /\ \A n, m \in Logged : content[n] = content[m] => n = m
    /\ \A b \in blocks : \E n \in Logged : content[n] = {b}
    /\ \A c \in Client : insert[c] = Done => Block[c] \in blocks

\* A registered part that was not rolled back is kept by the replica that wrote it.
Kept == \A n \in Logged \ orphans : \E r \in Replica : n \in zk_parts[r] /\ Have(r, n)

Inv == Types /\ Owned /\ Listed /\ Unique /\ Kept
-----------------------------------------------------------------------------
LEMMA NumbersAreNat == \A n \in Number : n \in Nat
  BY DEF Number

LEMMA LoggedAppend ==
  ASSUME log \in Seq(Number), NEW n \in Number, log' = Append(log, n)
  PROVE  Logged' = Logged \cup {n}
  BY DEF Logged

\* An INSERT under way has a replica and a number; one that is not is idle or done.
LEMMA FlightFacts ==
  ASSUME Types, NEW c \in Client
  PROVE  /\ InFlight(c) <=> insert[c] \in Flight
         /\ insert[c] \in {Idle, Done} <=> ~InFlight(c)
         /\ InFlight(c) => insert[c].at \in Replica /\ insert[c].number \in Number
  BY DEF Types, InFlight, Flight, Idle, Done

\* What the assignments to one part, one queue entry and one client leave alone.
LEMMA PartsUpdate ==
  ASSUME parts \in [Replica -> [Number -> PartState]], NEW r \in Replica, NEW n \in Number,
         NEW x \in PartState, parts' = [parts EXCEPT ![r][n] = x]
  PROVE  /\ parts' \in [Replica -> [Number -> PartState]]
         /\ \A q \in Replica, m \in Number :
               parts'[q][m] = IF q = r /\ m = n THEN x ELSE parts[q][m]
  OBVIOUS

LEMMA QueueUpdate ==
  ASSUME queue \in [Replica -> [Number -> Nat]], NEW r \in Replica, NEW n \in Number, OneEntryLess(r, n)
  PROVE  /\ queue' \in [Replica -> [Number -> Nat]]
         /\ \A q \in Replica, m \in Number : queue'[q][m] <= queue[q][m]
         /\ \A q \in Replica, m \in Number : q # r \/ m # n => queue'[q][m] = queue[q][m]
  <1>1. (IF queue[r][n] = 0 THEN 0 ELSE queue[r][n] - 1) \in Nat
    OBVIOUS
  <1> QED
    BY <1>1 DEF OneEntryLess

LEMMA InsertUpdate ==
  ASSUME insert \in [Client -> {Idle, Done} \cup Flight], NEW c \in Client,
         NEW x \in {Idle, Done} \cup Flight, Go(c, x)
  PROVE  /\ insert' \in [Client -> {Idle, Done} \cup Flight]
         /\ \A d \in Client : insert'[d] = IF d = c THEN x ELSE insert[d]
  BY Zenon DEF Go

LEMMA InitInv == Init => Inv
  <1> SUFFICES ASSUME Init PROVE Inv
    OBVIOUS
  <1>1. Types
    BY InsertConstants, NumbersAreNat DEF Init, Types, PartState
  <1>2. Logged = {}
    BY DEF Init, Logged
  <1>3. Owned /\ Listed /\ Unique /\ Kept
    BY <1>1, <1>2 DEF Init, Owned, Listed, Unique, Kept, InFlight, Idle, Done, Types
  <1> QED
    BY Zenon, <1>1, <1>3 DEF Inv
-----------------------------------------------------------------------------
\* Inv does not depend on which parts are to be checked.
LEMMA UnchangedInv ==
  ASSUME Inv, UNCHANGED <<blocks, zk_parts, log, log_pointer, queue, next_number, content, parts, up,
                          fetching, insert, faults, orphans>>
  PROVE  Inv'
  <1>1. Types'
    BY Zenon DEF Inv, Types
  <1>2. Logged' = Logged
    BY Zenon DEF Logged
  <1>3. Owned'
    BY Zenon, <1>2 DEF Inv, Owned, InFlight
  <1>4. Listed' /\ Kept'
    BY Zenon, <1>2 DEF Inv, Listed, Kept, Have
  <1>5. Unique'
    BY Zenon, <1>2 DEF Inv, Unique
  <1> QED
    BY Zenon, <1>1, <1>3, <1>4, <1>5 DEF Inv

\* INSERTs under way go on, or fewer of them, and their parts are left to them.
LEMMA OwnedFrame ==
  ASSUME Inv, UNCHANGED <<log, next_number, content>>,
         \A c \in Client : InFlight(c)' =>
            /\ InFlight(c) /\ insert'[c] = insert[c] /\ insert[c].at \in up'
            /\ parts'[insert[c].at][insert[c].number] = "PreCommitted"
            /\ insert[c].pc = "commit" => insert[c].number \in zk_parts'[insert[c].at]
  PROVE  Owned'
  <1>1. Logged' = Logged
    BY Zenon DEF Logged
  <1>2. \A n \in Logged' : n <= next_number'
    BY Zenon, <1>1 DEF Inv, Owned
  <1>3. ASSUME NEW c \in Client, InFlight(c)'
        PROVE  /\ insert'[c].number <= next_number'
               /\ content'[insert'[c].number] = {Block[c]}
               /\ insert'[c].pc = "multi" => insert'[c].number \notin Logged'
    BY Zenon, <1>1, <1>3 DEF Inv, Owned
  <1>4. ASSUME NEW c \in Client, NEW d \in Client, InFlight(c)', InFlight(d)', c # d
        PROVE  insert'[c].number # insert'[d].number
    BY Zenon, <1>4 DEF Inv, Owned
  <1> QED
    BY Zenon, <1>2, <1>3, <1>4 DEF Owned

LEMMA AlreadyThereInv ==
  ASSUME Inv, NEW c \in Client, AlreadyThere(c)
  PROVE  Inv'
  <1>1. /\ UNCHANGED <<blocks, zk_parts, log, log_pointer, queue, next_number, content, parts, up, fetching,
                       faults, orphans>>
        /\ insert[c] = Idle /\ Block[c] \in blocks
    BY Zenon DEF AlreadyThere, zookeeper, replicas
  <1>2. /\ insert' \in [Client -> {Idle, Done} \cup Flight]
        /\ \A d \in Client : insert'[d] = IF d = c THEN Done ELSE insert[d]
    BY Zenon, InsertUpdate DEF AlreadyThere, Inv, Types
  <1>3. Logged' = Logged
    BY Zenon, <1>1 DEF Logged
  <1>4. Types'
    BY Zenon, <1>1, <1>2 DEF Inv, Types
  <1>5. Owned'
    <2>1. \A d \in Client : InFlight(d)' => InFlight(d) /\ insert'[d] = insert[d]
      BY <1>2 DEF InFlight, Done
    <2> QED
      BY <2>1, <1>1, <1>3 DEF Inv, Owned
  <1>6. Listed' /\ Kept'
    BY Zenon, <1>1, <1>3 DEF Inv, Listed, Kept, Have
  <1>7. Unique'
    <2>1. \A d \in Client : insert'[d] = Done => Block[d] \in blocks
      BY Zenon, <1>1, <1>2 DEF Inv, Unique
    <2> QED
      BY Zenon, <2>1, <1>1, <1>3 DEF Inv, Unique
  <1> QED
    BY Zenon, <1>4, <1>5, <1>6, <1>7 DEF Inv

LEMMA AllocateInv ==
  ASSUME Inv, NEW c \in Client, NEW r \in Replica, Allocate(c, r)
  PROVE  Inv'
  <1> DEFINE N == next_number + 1
             x == [pc |-> "multi", at |-> r, number |-> N]
  <1>1. /\ N \in Number /\ next_number' = N /\ insert[c] = Idle /\ r \in up
        /\ UNCHANGED <<blocks, zk_parts, log, log_pointer, queue, up, fetching, faults, orphans>>
    BY Zenon DEF Allocate
  <1>2. /\ parts' \in [Replica -> [Number -> PartState]]
        /\ \A q \in Replica, m \in Number :
              parts'[q][m] = IF q = r /\ m = N THEN "PreCommitted" ELSE parts[q][m]
    <2>1. "PreCommitted" \in PartState /\ parts \in [Replica -> [Number -> PartState]]
      BY Zenon DEF PartState, Inv, Types
    <2>2. parts' = [parts EXCEPT ![r][N] = "PreCommitted"]
      BY Zenon, <1>1 DEF Allocate
    <2> HIDE DEF N
    <2> QED
      BY <1>1, <2>1, <2>2, PartsUpdate
  <1>3. /\ insert' \in [Client -> {Idle, Done} \cup Flight]
        /\ \A d \in Client : insert'[d] = IF d = c THEN x ELSE insert[d]
    <2>1. x \in Flight
      BY Zenon, <1>1 DEF Flight
    <2> QED
      BY Zenon, <1>1, <2>1, InsertUpdate DEF Allocate, Inv, Types
  <1>4. /\ content' \in [Number -> {{}} \cup {{Block[d]} : d \in Client}]
        /\ content'[N] = {Block[c]}
        /\ \A n \in Number \ {N} : content'[n] = content[n]
    <2>1. content \in [Number -> {{}} \cup {{Block[d]} : d \in Client}]
      BY Zenon DEF Inv, Types
    <2>2. content' = [content EXCEPT ![N] = {Block[c]}]
      BY Zenon, <1>1 DEF Allocate
    <2> QED
      BY Zenon, <1>1, <2>1, <2>2
  <1>a. next_number \in Nat /\ 1..next_number \subseteq Number
    BY Zenon DEF Inv, Types
  <1>5. Logged' = Logged /\ N \notin Logged
    <2>1. \A n \in Logged : n <= next_number
      BY Zenon DEF Inv, Owned
    <2>2. N \notin Logged
      <3>1. N = next_number + 1
        BY Zenon, <1>1
      <3>2. ~(N <= next_number)
        BY <1>a, <3>1
      <3> QED
        BY Zenon, <2>1, <3>2
    <2> QED
      BY Zenon, <1>1, <2>2 DEF Logged
  <1>6. \A n \in Logged : n \in Number /\ content'[n] = content[n]
    BY <1>4, <1>5 DEF Logged, Inv, Types
  <1>7. Types'
    <2>1. next_number' \in Nat /\ 1..next_number' \subseteq Number
      BY <1>1, <1>a
    <2> QED
      BY Zenon, <1>1, <1>2, <1>3, <1>4, <2>1 DEF Inv, Types
  <1>8. \A d \in Client : InFlight(d)' <=> (d = c \/ InFlight(d))
    BY <1>3 DEF InFlight
  <1>9. Owned'
    <2>1. \A d \in Client \ {c} : InFlight(d) =>
             insert'[d] = insert[d] /\ insert[d].number \in Number /\ insert[d].number < N /\ insert[d].at \in Replica
      <3>1. \A d \in Client : InFlight(d) => insert[d].number <= next_number
        BY Zenon DEF Inv, Owned
      <3>2. \A d \in Client : InFlight(d) => insert[d].number \in Number /\ insert[d].at \in Replica
        BY Zenon, FlightFacts DEF Inv
      <3> QED
        BY <1>3, <1>a, <3>1, <3>2, NumbersAreNat
    <2>2. \A n \in Logged' : n <= next_number'
      <3>1. \A n \in Logged : n <= next_number
        BY Zenon DEF Inv, Owned
      <3> QED
        BY <1>1, <1>5, <1>6, <1>a, <3>1, NumbersAreNat
    <2>3. ASSUME NEW d \in Client, InFlight(d)'
          PROVE  /\ insert'[d].number <= next_number' /\ insert'[d].at \in up'
                 /\ parts'[insert'[d].at][insert'[d].number] = "PreCommitted"
                 /\ content'[insert'[d].number] = {Block[d]}
                 /\ insert'[d].pc = "commit" => insert'[d].number \in zk_parts'[insert'[d].at]
                 /\ insert'[d].pc = "multi" => insert'[d].number \notin Logged'
      <3>1. CASE d = c
        BY <3>1, <1>1, <1>2, <1>3, <1>4, <1>5, NumbersAreNat
      <3>2. CASE d # c
        <4>1. /\ insert'[d] = insert[d] /\ insert[d].number \in Number \ {N} /\ insert[d].at \in Replica
              /\ insert[d].number <= next_number'
          BY <3>2, <2>1, <2>3, <1>1, <1>8, <1>a, NumbersAreNat
        <4>2. /\ insert[d].at \in up
              /\ parts[insert[d].at][insert[d].number] = "PreCommitted"
              /\ content[insert[d].number] = {Block[d]}
              /\ insert[d].pc = "commit" => insert[d].number \in zk_parts[insert[d].at]
              /\ insert[d].pc = "multi" => insert[d].number \notin Logged
          BY Zenon, <3>2, <2>3, <1>8 DEF Inv, Owned
        <4> QED
          BY <4>1, <4>2, <1>1, <1>2, <1>4, <1>5
      <3> QED
        BY Zenon, <3>1, <3>2
    <2>4. ASSUME NEW d \in Client, NEW e \in Client, InFlight(d)', InFlight(e)', d # e
          PROVE  insert'[d].number # insert'[e].number
      <3>1. CASE d # c /\ e # c
        BY Zenon, <3>1, <2>1, <2>4, <1>8 DEF Inv, Owned
      <3>2. CASE d = c \/ e = c
        BY <3>2, <2>1, <2>4, <1>3, <1>8, <1>a, NumbersAreNat
      <3> QED
        BY Zenon, <3>1, <3>2
    <2> QED
      BY Zenon, <2>2, <2>3, <2>4 DEF Owned
  <1>10. Listed'
    <2>1. \A q \in Replica : N \notin fetching[q]
      BY Zenon, <1>5 DEF Inv, Listed
    <2>2. \A q \in Replica, m \in Number :
             /\ m \in fetching[q] => parts'[q][m] = "none" /\ q \in up
             /\ parts'[q][m] = "Committed" => m \in zk_parts[q]
      BY <1>2, <2>1 DEF Inv, Listed
    <2> QED
      BY Zenon, <1>1, <1>5, <2>2 DEF Inv, Listed
  <1>11. Unique'
    <2>1. \A d \in Client : insert'[d] = Done => insert[d] = Done
      BY <1>3 DEF Done
    <2> QED
      BY <1>1, <1>5, <1>6, <2>1 DEF Inv, Unique
  <1>12. Kept'
    <2>1. \A q \in Replica, m \in Logged : parts'[q][m] = parts[q][m]
      BY Zenon, <1>2, <1>5, <1>6
    <2> QED
      BY <1>1, <1>5, <2>1 DEF Inv, Kept, Have
  <1> QED
    BY Zenon, <1>7, <1>9, <1>10, <1>11, <1>12 DEF Inv

LEMMA MultiInv ==
  ASSUME Inv, NEW c \in Client, Multi(c)
  PROVE  Inv'
  <1> DEFINE R == insert[c].at
             N == insert[c].number
             x == [insert[c] EXCEPT !.pc = "commit"]
  <1>1. /\ insert[c].pc = "multi" /\ Block[c] \notin blocks /\ blocks' = blocks \cup {Block[c]}
        /\ zk_parts' = [zk_parts EXCEPT ![R] = @ \cup {N}] /\ log' = Append(log, N)
        /\ UNCHANGED <<log_pointer, queue, next_number, content, parts, up, fetching, faults, orphans>>
    BY Zenon DEF Multi, Register, replicas
  <1>2. InFlight(c) /\ insert[c] \in Flight /\ R \in Replica /\ N \in Number
    BY Zenon, <1>1, FlightFacts DEF Inv, InFlight
  <1>3. x \in Flight /\ x.pc = "commit" /\ x.at = R /\ x.number = N
    BY Zenon, <1>2 DEF Flight
  <1>4. /\ insert' \in [Client -> {Idle, Done} \cup Flight]
        /\ \A d \in Client : insert'[d] = IF d = c THEN x ELSE insert[d]
    BY Zenon, <1>3, InsertUpdate DEF Multi, Inv, Types
  <1>5. /\ zk_parts' \in [Replica -> SUBSET Number]
        /\ \A q \in Replica : zk_parts'[q] = IF q = R THEN zk_parts[q] \cup {N} ELSE zk_parts[q]
    BY Zenon, <1>1, <1>2 DEF Inv, Types
  <1>6. log' \in Seq(Number) /\ Len(log') = Len(log) + 1 /\ Logged' = Logged \cup {N}
    BY <1>1, <1>2, LoggedAppend DEF Inv, Types
  <1>7. /\ N <= next_number /\ R \in up /\ parts[R][N] = "PreCommitted" /\ content[N] = {Block[c]}
    BY Zenon, <1>2 DEF Inv, Owned
  <1>8. Types'
    <2>1. log_pointer' \in [Replica -> 0..Len(log')]
      <3>1. log_pointer \in [Replica -> 0..Len(log)] /\ Len(log) \in Nat
        BY DEF Inv, Types
      <3> QED
        BY <3>1, <1>1, <1>6
    <2> QED
      BY Zenon, <1>1, <1>4, <1>5, <1>6, <2>1 DEF Inv, Types
  <1>9. \A d \in Client : /\ InFlight(d)' <=> InFlight(d)
                          /\ InFlight(d) => insert'[d].at = insert[d].at /\ insert'[d].number = insert[d].number
                          /\ InFlight(d) => insert[d].at \in Replica /\ insert[d].number \in Number
    <2>1. \A d \in Client : InFlight(d) => insert[d].at \in Replica /\ insert[d].number \in Number
      BY Zenon, FlightFacts DEF Inv
    <2> QED
      BY Zenon, <1>2, <1>3, <1>4, <2>1 DEF InFlight
  <1>10. Owned'
    <2>1. \A n \in Logged' : n <= next_number'
      BY Zenon, <1>1, <1>6, <1>7 DEF Inv, Owned
    <2>2. ASSUME NEW d \in Client, InFlight(d)'
          PROVE  /\ insert'[d].number <= next_number' /\ insert'[d].at \in up'
                 /\ parts'[insert'[d].at][insert'[d].number] = "PreCommitted"
                 /\ content'[insert'[d].number] = {Block[d]}
                 /\ insert'[d].pc = "commit" => insert'[d].number \in zk_parts'[insert'[d].at]
                 /\ insert'[d].pc = "multi" => insert'[d].number \notin Logged'
      <3>1. CASE d = c
        BY Zenon, <3>1, <1>1, <1>3, <1>4, <1>5, <1>7, <1>2
      <3>2. CASE d # c
        <4>1. /\ insert'[d] = insert[d] /\ insert[d].at \in Replica
              /\ insert[d].number <= next_number /\ insert[d].at \in up
              /\ parts[insert[d].at][insert[d].number] = "PreCommitted"
              /\ content[insert[d].number] = {Block[d]}
              /\ insert[d].pc = "commit" => insert[d].number \in zk_parts[insert[d].at]
              /\ insert[d].pc = "multi" => insert[d].number \notin Logged
          BY Zenon, <3>2, <2>2, <1>4, <1>9 DEF Inv, Owned
        <4>2. insert[d].number # N
          BY Zenon, <3>2, <2>2, <1>2, <1>9 DEF Inv, Owned
        <4> QED
          BY Zenon, <4>1, <4>2, <1>1, <1>5, <1>6
      <3> QED
        BY Zenon, <3>1, <3>2
    <2>3. ASSUME NEW d \in Client, NEW e \in Client, InFlight(d)', InFlight(e)', d # e
          PROVE  insert'[d].number # insert'[e].number
      BY <2>3, <1>9 DEF Inv, Owned
    <2> QED
      BY Zenon, <2>1, <2>2, <2>3 DEF Owned
  <1>11. Listed'
    <2>1. \A n \in Number : n \in zk_parts'[R] <=> n \in zk_parts[R] \/ n = N
      BY Zenon, <1>2, <1>5
    <2> QED
      BY Zenon, <1>1, <1>5, <1>6 DEF Inv, Listed
  <1>12. Unique'
    <2>1. \A n \in Logged : content[n] # {Block[c]}
      <3> SUFFICES ASSUME NEW n \in Logged, content[n] = {Block[c]} PROVE FALSE
        OBVIOUS
      <3>1. PICK b \in blocks : content[n] = {b}
        BY Zenon DEF Inv, Unique
      <3> QED
        BY Zenon, <3>1, <1>1
    <2>2. /\ \A n \in Logged' : \E b \in blocks' : content'[n] = {b}
          /\ \A b \in blocks' : \E n \in Logged' : content'[n] = {b}
      BY Zenon, <1>1, <1>6, <1>7 DEF Inv, Unique
    <2>3. \A n, m \in Logged' : content'[n] = content'[m] => n = m
      BY <1>1, <1>6, <1>7, <2>1 DEF Inv, Unique
    <2>4. \A d \in Client : insert'[d] = Done => Block[d] \in blocks'
      <3>1. x # Done
        BY Zenon, <1>3 DEF Done
      <3> QED
        BY Zenon, <1>1, <1>4, <3>1 DEF Inv, Unique
    <2> QED
      BY Zenon, <2>2, <2>3, <2>4 DEF Unique
  <1>13. Kept'
    <2>1. \A n \in Logged \ orphans : \E r \in Replica : n \in zk_parts'[r] /\ Have(r, n)'
      BY Zenon, <1>1, <1>5 DEF Inv, Kept, Have
    <2>2. N \in zk_parts'[R] /\ parts'[R][N] = "PreCommitted"
      BY Zenon, <1>1, <1>2, <1>5, <1>7
    <2> QED
      BY Zenon, <1>1, <1>2, <1>6, <2>1, <2>2 DEF Kept, Have
  <1> QED
    BY Zenon, <1>8, <1>10, <1>11, <1>12, <1>13 DEF Inv

\* The end of an INSERT, with its part committed or rolled back.
LEMMA EndInv ==
  ASSUME Inv, NEW c \in Client, InFlight(c), NEW x \in {"Committed", "Outdated"}, EndTransaction(c, x),
         NEW y \in {Idle, Done}, Go(c, y),
         UNCHANGED <<zk_parts, log, log_pointer, queue, next_number, blocks, content>>,
         faults' \in 0..MaxFaults, orphans \subseteq orphans',
         x = "Committed" => insert[c].pc = "commit",
         x = "Outdated" => insert[c].number \notin Logged \/ insert[c].number \in orphans',
         y = Done => Block[c] \in blocks
  PROVE  Inv'
  <1> DEFINE R == insert[c].at
             N == insert[c].number
  <1>1. /\ R \in Replica /\ N \in Number /\ parts[R][N] = "PreCommitted"
        /\ insert[c].pc = "commit" => N \in zk_parts[R]
    BY Zenon, FlightFacts DEF Inv, Owned
  <1>2. /\ parts' \in [Replica -> [Number -> PartState]]
        /\ \A q \in Replica, m \in Number : parts'[q][m] = IF q = R /\ m = N THEN x ELSE parts[q][m]
    <2>1. x \in PartState /\ parts \in [Replica -> [Number -> PartState]]
      BY Zenon DEF PartState, Inv, Types
    <2>2. parts' = [parts EXCEPT ![R][N] = x]
      BY Zenon DEF EndTransaction
    <2> HIDE DEF R, N
    <2> QED
      BY <1>1, <2>1, <2>2, PartsUpdate
  <1>3. /\ insert' \in [Client -> {Idle, Done} \cup Flight]
        /\ \A d \in Client : insert'[d] = IF d = c THEN y ELSE insert[d]
    BY Zenon, InsertUpdate DEF Inv, Types
  <1>4. Logged' = Logged
    BY Zenon DEF Logged
  <1>5. \A d \in Client : InFlight(d)' => d # c /\ InFlight(d) /\ insert'[d] = insert[d]
    BY <1>3 DEF InFlight, Idle, Done
  <1>6. Types'
    BY Zenon, <1>2, <1>3 DEF EndTransaction, Inv, Types
  <1>7. Owned'
    <2>1. \A d \in Client : InFlight(d) => insert[d].at \in Replica /\ insert[d].number \in Number
      BY Zenon, FlightFacts DEF Inv
    <2>2. ASSUME NEW d \in Client, InFlight(d)'
          PROVE  parts'[insert'[d].at][insert'[d].number] = "PreCommitted"
      <3>1. insert[d].number # N /\ parts[insert[d].at][insert[d].number] = "PreCommitted"
        BY Zenon, <2>2, <1>5 DEF Inv, Owned
      <3> QED
        BY <2>1, <2>2, <3>1, <1>2, <1>5
    <2> QED
      BY <2>2, <1>4, <1>5 DEF EndTransaction, Inv, Owned
  <1>8. Listed'
    <2>1. \A q \in Replica, m \in Number :
             /\ m \in fetching[q] => parts'[q][m] = "none"
             /\ parts'[q][m] = "Committed" => m \in zk_parts[q]
      BY <1>1, <1>2 DEF Inv, Listed
    <2> QED
      BY Zenon, <2>1, <1>4 DEF EndTransaction, Inv, Listed
  <1>9. Unique'
    <2>1. \A d \in Client : insert'[d] = Done => Block[d] \in blocks
      BY Zenon, <1>3 DEF Inv, Unique
    <2> QED
      BY Zenon, <2>1, <1>4 DEF Inv, Unique
  <1>10. Kept'
    <2>1. ASSUME NEW n \in Logged \ orphans'
          PROVE  \E r \in Replica : n \in zk_parts[r] /\ parts'[r][n] \in {"PreCommitted", "Committed"}
      <3>1. PICK r \in Replica : n \in zk_parts[r] /\ parts[r][n] \in {"PreCommitted", "Committed"}
        BY Zenon DEF Inv, Kept, Have
      <3>2. n \in Number
        BY Zenon, <3>1 DEF Inv, Types
      <3> QED
        BY <3>1, <3>2, <1>1, <1>2
    <2> QED
      BY Zenon, <2>1, <1>4 DEF Kept, Have
  <1> QED
    BY Zenon, <1>6, <1>7, <1>8, <1>9, <1>10 DEF Inv

LEMMA MultiDuplicateInv ==
  ASSUME Inv, NEW c \in Client, MultiDuplicate(c)
  PROVE  Inv'
  <1>1. InFlight(c) /\ insert[c].pc = "multi" /\ faults \in 0..MaxFaults
    BY Zenon DEF MultiDuplicate, InFlight, Inv, Types
  <1>2. insert[c].number \notin Logged
    BY Zenon, <1>1 DEF Inv, Owned
  <1> QED
    BY Zenon, <1>1, <1>2, EndInv DEF MultiDuplicate, zookeeper

LEMMA CommitInv ==
  ASSUME Inv, NEW c \in Client, Commit(c)
  PROVE  Inv'
  <1>1. InFlight(c) /\ insert[c].pc = "commit" /\ faults \in 0..MaxFaults
    BY Zenon DEF Commit, InFlight, Inv, Types
  <1>2. Block[c] \in blocks
    <2>1. insert[c].number \in Logged /\ content[insert[c].number] = {Block[c]}
      BY Zenon, <1>1, FlightFacts DEF Inv, Owned, Listed
    <2>2. PICK b \in blocks : content[insert[c].number] = {b}
      BY Zenon, <2>1 DEF Inv, Unique
    <2> QED
      BY Zenon, <2>1, <2>2
  <1> QED
    BY Zenon, <1>1, <1>2, EndInv DEF Commit, zookeeper

LEMMA MultiFailsInv ==
  ASSUME Inv, NEW c \in Client, MultiFails(c)
  PROVE  Inv'
  <1>1. InFlight(c) /\ faults' \in 0..MaxFaults
    BY InsertConstants DEF MultiFails, InFlight, Inv, Types
  <1>2. insert[c].number \notin Logged \/ insert[c].number \in orphans'
    BY Zenon, <1>1 DEF MultiFails, InFlight, Inv, Owned
  <1>3. orphans \subseteq orphans' /\ Idle # Done
    BY Zenon DEF MultiFails, Idle, Done
  <1> QED
    BY Zenon, <1>1, <1>2, <1>3, EndInv DEF MultiFails, zookeeper
-----------------------------------------------------------------------------
\* The entries of the log after the pointer that are about a part.
LEMMA CountFacts ==
  ASSUME log \in Seq(Number), NEW p \in Nat, NEW n \in Number
  PROVE  LET k == Cardinality({i \in (p + 1)..Len(log) : log[i] = n})
         IN  k \in Nat /\ (k > 0 => n \in Logged)
  <1> DEFINE S == {i \in (p + 1)..Len(log) : log[i] = n}
  <1>1. IsFiniteSet(S)
    <2>1. IsFiniteSet((p + 1)..Len(log))
      BY FS_Interval
    <2> QED
      BY Zenon, <2>1, FS_Subset
  <1>2. Cardinality(S) \in Nat
    BY Zenon, <1>1, FS_CardinalityType
  <1>3. S = {} => Cardinality(S) = 0
    BY Zenon, FS_EmptySet
  <1>4. S # {} => n \in Logged
    BY DEF Logged
  <1> QED
    BY <1>2, <1>3, <1>4

LEMMA PullLogsToQueueInv ==
  ASSUME Inv, NEW r \in Replica, PullLogsToQueue(r)
  PROVE  Inv'
  <1> DEFINE k(n) == Cardinality({i \in (log_pointer[r] + 1)..Len(log) : log[i] = n})
  <1>1. /\ log \in Seq(Number) /\ log_pointer[r] \in Nat /\ Len(log) \in Nat
        /\ queue \in [Replica -> [Number -> Nat]] /\ log_pointer \in [Replica -> 0..Len(log)]
    BY DEF Inv, Types
  <1>2. /\ UNCHANGED <<blocks, zk_parts, log, next_number, content, parts, up, fetching, insert, faults, orphans>>
        /\ log_pointer' \in [Replica -> 0..Len(log)]
    BY <1>1 DEF PullLogsToQueue, replicas
  <1>3. \A n \in Number : k(n) \in Nat /\ (k(n) > 0 => n \in Logged)
    BY Zenon, <1>1, CountFacts
  <1>4. queue' = [queue EXCEPT ![r] = [n \in Number |-> queue[r][n] + k(n)]]
    BY Zenon DEF PullLogsToQueue
  <1> HIDE DEF k
  <1>5. /\ queue' \in [Replica -> [Number -> Nat]]
        /\ \A q \in Replica, n \in Number : queue'[q][n] = IF q = r THEN queue[q][n] + k(n) ELSE queue[q][n]
    BY <1>1, <1>3, <1>4
  <1>6. Logged' = Logged
    BY Zenon, <1>2 DEF Logged
  <1>7. Types'
    BY Zenon, <1>2, <1>5 DEF Inv, Types
  <1>8. Listed'
    <2>1. ASSUME NEW q \in Replica, NEW n \in Number, queue'[q][n] > 0
          PROVE  queue[q][n] > 0 \/ k(n) > 0
      <3>1. queue[q][n] \in Nat /\ k(n) \in Nat
        BY Zenon, <1>1, <1>3
      <3>2. queue'[q][n] = queue[q][n] + k(n) \/ queue'[q][n] = queue[q][n]
        BY Zenon, <1>5
      <3> QED
        BY <2>1, <3>1, <3>2
    <2> QED
      BY Zenon, <1>2, <1>3, <1>6, <2>1 DEF Inv, Listed
  <1>9. Owned'
    BY Zenon, <1>2, OwnedFrame DEF InFlight, Inv, Owned
  <1>10. Unique'
    BY Zenon, <1>2, <1>6 DEF Inv, Unique
  <1>11. Kept'
    BY Zenon, <1>2, <1>6 DEF Inv, Kept, Have
  <1> QED
    BY Zenon, <1>7, <1>8, <1>9, <1>10, <1>11 DEF Inv

LEMMA SkipInv ==
  ASSUME Inv, NEW r \in Replica, NEW n \in Number, Skip(r, n)
  PROVE  Inv'
  <1>1. UNCHANGED <<blocks, zk_parts, log, log_pointer, next_number, content, parts, up, fetching, insert,
                    faults, orphans>>
    BY Zenon DEF Skip, replicas
  <1>2. queue \in [Replica -> [Number -> Nat]]
    BY Zenon DEF Inv, Types
  <1>3. /\ queue' \in [Replica -> [Number -> Nat]]
        /\ \A q \in Replica, m \in Number : queue'[q][m] <= queue[q][m]
    BY Zenon, <1>2, QueueUpdate DEF Skip
  <1>4. Logged' = Logged
    BY Zenon, <1>1 DEF Logged
  <1>5. Types'
    BY Zenon, <1>1, <1>3 DEF Inv, Types
  <1>6. Listed'
    <2>1. ASSUME NEW q \in Replica, NEW m \in Number, queue'[q][m] > 0 PROVE m \in Logged
      <3>1. queue[q][m] \in Nat /\ queue'[q][m] \in Nat /\ queue'[q][m] <= queue[q][m]
        BY Zenon, <1>2, <1>3
      <3>2. queue[q][m] > 0
        BY <2>1, <3>1
      <3> QED
        BY Zenon, <3>2 DEF Inv, Listed
    <2> QED
      BY Zenon, <2>1, <1>1, <1>4 DEF Inv, Listed
  <1>7. Owned'
    BY Zenon, <1>1, OwnedFrame DEF InFlight, Inv, Owned
  <1>8. Unique'
    BY Zenon, <1>1, <1>4 DEF Inv, Unique
  <1>9. Kept'
    BY Zenon, <1>1, <1>4 DEF Inv, Kept, Have
  <1> QED
    BY Zenon, <1>5, <1>6, <1>7, <1>8, <1>9 DEF Inv

LEMMA NoReplicaHasPartInv ==
  ASSUME Inv, NEW r \in Replica, NEW n \in Number, NoReplicaHasPart(r, n)
  PROVE  Inv'
  <1>1. UNCHANGED <<blocks, zk_parts, log, log_pointer, queue, next_number, content, parts, up, fetching,
                    insert, faults, orphans>>
    BY Zenon DEF NoReplicaHasPart, zookeeper
  <1> QED
    BY Zenon, <1>1, UnchangedInv

LEMMA ReceiveInv ==
  ASSUME Inv, NEW r \in Replica, NEW n \in Number, NEW s \in Replica, Receive(r, n, s)
  PROVE  Inv'
  <1>1. /\ UNCHANGED <<blocks, zk_parts, log, log_pointer, queue, next_number, content, parts, up, insert,
                       faults, orphans>>
        /\ n \in zk_parts[s] /\ parts[r][n] = "none" /\ r \in up
        /\ fetching' = [fetching EXCEPT ![r] = @ \cup {n}]
    BY Zenon DEF Receive, Selectable, Sources, zookeeper
  <1>2. n \in Logged
    BY Zenon, <1>1 DEF Inv, Listed
  <1>3. /\ fetching' \in [Replica -> SUBSET Number]
        /\ \A q \in Replica : fetching'[q] = IF q = r THEN fetching[q] \cup {n} ELSE fetching[q]
    <2>1. fetching \in [Replica -> SUBSET Number]
      BY Zenon DEF Inv, Types
    <2> QED
      BY Zenon, <1>1, <2>1
  <1>4. Logged' = Logged
    BY Zenon, <1>1 DEF Logged
  <1>5. Types'
    BY Zenon, <1>1, <1>3 DEF Inv, Types
  <1>6. Listed'
    <2>1. \A q \in Replica : fetching'[q] \subseteq Logged
      BY Zenon, <1>2, <1>3 DEF Inv, Listed
    <2>2. \A q \in Replica, m \in Number : m \in fetching'[q] => parts[q][m] = "none" /\ q \in up
      BY Zenon, <1>1, <1>3 DEF Inv, Listed
    <2> QED
      BY Zenon, <1>1, <1>4, <2>1, <2>2 DEF Inv, Listed
  <1>7. Owned'
    BY Zenon, <1>1, OwnedFrame DEF InFlight, Inv, Owned
  <1>8. Unique'
    BY Zenon, <1>1, <1>4 DEF Inv, Unique
  <1>9. Kept'
    BY Zenon, <1>1, <1>4 DEF Inv, Kept, Have
  <1> QED
    BY Zenon, <1>5, <1>6, <1>7, <1>8, <1>9 DEF Inv

LEMMA NoSuchPartInv ==
  ASSUME Inv, NEW r \in Replica, NEW n \in Number, NEW s \in Replica, NoSuchPart(r, n, s)
  PROVE  Inv'
  <1>1. UNCHANGED <<blocks, zk_parts, log, log_pointer, queue, next_number, content, parts, up, fetching,
                    insert, faults, orphans>>
    BY Zenon DEF NoSuchPart, zookeeper
  <1> QED
    BY Zenon, <1>1, UnchangedInv

\* The end of a fetch, with the part committed or rolled back.
LEMMA FetchEndInv ==
  ASSUME Inv, NEW r \in Replica, NEW n \in Number, n \in fetching[r],
         NEW x \in {"Committed", "Outdated"}, parts' = [parts EXCEPT ![r][n] = x],
         fetching' = [fetching EXCEPT ![r] = @ \ {n}],
         zk_parts' \in {zk_parts, [zk_parts EXCEPT ![r] = @ \cup {n}]},
         x = "Committed" => n \in zk_parts'[r],
         queue' \in [Replica -> [Number -> Nat]],
         \A q \in Replica, m \in Number : queue'[q][m] <= queue[q][m],
         UNCHANGED <<blocks, log, log_pointer, next_number, content, up, insert, orphans>>,
         faults' \in 0..MaxFaults
  PROVE  Inv'
  <1>1. n \in Logged /\ parts[r][n] = "none"
    BY Zenon DEF Inv, Listed
  <1>2. /\ parts' \in [Replica -> [Number -> PartState]]
        /\ \A q \in Replica, m \in Number : parts'[q][m] = IF q = r /\ m = n THEN x ELSE parts[q][m]
    <2>1. x \in PartState /\ parts \in [Replica -> [Number -> PartState]]
      BY Zenon DEF PartState, Inv, Types
    <2> QED
      BY <2>1, PartsUpdate
  <1>3. /\ zk_parts' \in [Replica -> SUBSET Number] /\ fetching' \in [Replica -> SUBSET Number]
        /\ \A q \in Replica : /\ zk_parts[q] \subseteq zk_parts'[q] /\ zk_parts'[q] \subseteq zk_parts[q] \cup {n}
                              /\ fetching'[q] = IF q = r THEN fetching[q] \ {n} ELSE fetching[q]
    <2>1. zk_parts \in [Replica -> SUBSET Number] /\ fetching \in [Replica -> SUBSET Number]
      BY Zenon DEF Inv, Types
    <2>2. CASE zk_parts' = zk_parts
      BY Zenon, <2>1, <2>2
    <2>3. CASE zk_parts' = [zk_parts EXCEPT ![r] = @ \cup {n}]
      BY Zenon, <2>1, <2>3
    <2> QED
      BY Zenon, <2>2, <2>3
  <1>4. Logged' = Logged
    BY Zenon DEF Logged
  <1>5. Types'
    BY Zenon, <1>2, <1>3 DEF Inv, Types
  <1>6. Owned'
    <2>1. ASSUME NEW c \in Client, InFlight(c)
          PROVE  /\ insert[c].at \in up
                 /\ parts'[insert[c].at][insert[c].number] = "PreCommitted"
                 /\ insert[c].pc = "commit" => insert[c].number \in zk_parts'[insert[c].at]
      <3>1. /\ insert[c].at \in Replica /\ insert[c].number \in Number /\ insert[c].at \in up
            /\ parts[insert[c].at][insert[c].number] = "PreCommitted"
            /\ insert[c].pc = "commit" => insert[c].number \in zk_parts[insert[c].at]
        BY Zenon, <2>1, FlightFacts DEF Inv, Owned
      <3> QED
        BY <3>1, <1>1, <1>2, <1>3
    <2> QED
      BY Zenon, <2>1, OwnedFrame DEF InFlight
  <1>7. Listed'
    <2>1. \A q \in Replica, m \in Number : queue'[q][m] > 0 => m \in Logged
      <3> SUFFICES ASSUME NEW q \in Replica, NEW m \in Number, queue'[q][m] > 0 PROVE queue[q][m] > 0
        BY Zenon DEF Inv, Listed
      <3>1. queue \in [Replica -> [Number -> Nat]]
        BY Zenon DEF Inv, Types
      <3>2. queue[q][m] \in Nat /\ queue'[q][m] \in Nat /\ queue'[q][m] <= queue[q][m]
        BY Zenon, <3>1
      <3> QED
        BY <3>2
    <2>2. \A q \in Replica, m \in Number : m \in fetching'[q] => parts'[q][m] = "none" /\ q \in up
      BY <1>2, <1>3 DEF Inv, Listed
    <2>3. \A q \in Replica, m \in Number : parts'[q][m] = "Committed" => m \in zk_parts'[q]
      BY <1>2, <1>3 DEF Inv, Listed
    <2>4. \A q \in Replica : zk_parts'[q] \subseteq Logged /\ fetching'[q] \subseteq Logged
      BY <1>1, <1>3 DEF Inv, Listed
    <2> QED
      BY Zenon, <2>1, <2>2, <2>3, <2>4, <1>4 DEF Listed
  <1>8. Unique'
    BY Zenon, <1>4 DEF Inv, Unique
  <1>9. Kept'
    <2>1. ASSUME NEW m \in Logged \ orphans
          PROVE  \E q \in Replica : m \in zk_parts'[q] /\ parts'[q][m] \in {"PreCommitted", "Committed"}
      <3>1. PICK q \in Replica : m \in zk_parts[q] /\ parts[q][m] \in {"PreCommitted", "Committed"}
        BY Zenon DEF Inv, Kept, Have
      <3>2. m \in Number
        BY Zenon, <3>1 DEF Inv, Types
      <3> QED
        BY <3>1, <3>2, <1>1, <1>2, <1>3
    <2> QED
      BY Zenon, <2>1, <1>4 DEF Kept, Have
  <1> QED
    BY Zenon, <1>5, <1>6, <1>7, <1>8, <1>9 DEF Inv

LEMMA FetchCommitInv ==
  ASSUME Inv, NEW r \in Replica, NEW n \in Number, FetchCommit(r, n)
  PROVE  Inv'
  <1>1. /\ queue' \in [Replica -> [Number -> Nat]]
        /\ \A q \in Replica, m \in Number : queue'[q][m] <= queue[q][m]
    BY Zenon, QueueUpdate DEF FetchCommit, Inv, Types
  <1>2. zk_parts' = [zk_parts EXCEPT ![r] = @ \cup {n}] /\ n \in zk_parts'[r] /\ faults' \in 0..MaxFaults
    BY Zenon DEF FetchCommit, Inv, Types
  <1> QED
    BY Zenon, <1>1, <1>2, FetchEndInv DEF FetchCommit

LEMMA FetchFailsInv ==
  ASSUME Inv, NEW r \in Replica, NEW n \in Number, FetchFails(r, n)
  PROVE  Inv'
  <1>1. /\ queue' \in [Replica -> [Number -> Nat]]
        /\ \A q \in Replica, m \in Number : queue'[q][m] <= queue[q][m]
    BY DEF FetchFails, Inv, Types
  <1>2. faults' \in 0..MaxFaults
    <2>1. faults \in 0..MaxFaults
      BY Zenon DEF Inv, Types
    <2> QED
      BY <2>1, InsertConstants DEF FetchFails
  <1> QED
    BY Zenon, <1>1, <1>2, FetchEndInv DEF FetchFails

LEMMA CheckPartInv ==
  ASSUME Inv, NEW r \in Replica, NEW n \in Number, CheckPart(r, n)
  PROVE  Inv'
  <1>1. /\ UNCHANGED <<blocks, log, log_pointer, next_number, content, parts, up, fetching, insert, faults, orphans>>
        /\ queue \in [Replica -> [Number -> Nat]] /\ zk_parts \in [Replica -> SUBSET Number]
    BY Zenon DEF CheckPart, Inv, Types
  <1>2. /\ zk_parts' \in [Replica -> SUBSET Number]
        /\ \A q \in Replica : zk_parts'[q] \subseteq zk_parts[q]
        /\ \A q \in Replica : \A m \in zk_parts[q] : Have(q, m) => m \in zk_parts'[q]
    BY Zenon, <1>1 DEF CheckPart
  <1>3. /\ queue' \in [Replica -> [Number -> Nat]]
        /\ \A q \in Replica, m \in Number : queue'[q][m] > 0 => m \in Logged
    <2>1. CASE UNCHANGED queue
      BY Zenon, <2>1, <1>1 DEF Inv, Listed
    <2>2. CASE n \in zk_parts[r] /\ queue' = [queue EXCEPT ![r][n] = @ + 1]
      <3>1. n \in Logged /\ queue[r][n] + 1 \in Nat
        BY <2>2, <1>1 DEF Inv, Listed
      <3>2. \A q \in Replica, m \in Number : m # n => queue'[q][m] = queue[q][m]
        BY Zenon, <2>2, <1>1
      <3>3. queue' \in [Replica -> [Number -> Nat]]
        BY Zenon, <2>2, <3>1, <1>1
      <3> QED
        BY Zenon, <3>1, <3>2, <3>3 DEF Inv, Listed
    <2>3. CASE OneEntryLess(r, n)
      <3>1. /\ queue' \in [Replica -> [Number -> Nat]]
            /\ \A q \in Replica, m \in Number : queue'[q][m] <= queue[q][m]
        BY Zenon, <2>3, <1>1, QueueUpdate
      <3> SUFFICES ASSUME NEW q \in Replica, NEW m \in Number, queue'[q][m] > 0 PROVE queue[q][m] > 0
        BY Zenon, <3>1 DEF Inv, Listed
      <3>2. queue[q][m] \in Nat /\ queue'[q][m] \in Nat
        BY Zenon, <3>1, <1>1
      <3> QED
        BY <3>1, <3>2
    <2> QED
      BY Zenon, <2>1, <2>2, <2>3 DEF CheckPart
  <1>4. Logged' = Logged
    BY Zenon, <1>1 DEF Logged
  <1>5. Types'
    BY Zenon, <1>1, <1>2, <1>3 DEF Inv, Types
  <1>6. Owned'
    <2>1. ASSUME NEW c \in Client, InFlight(c)
          PROVE  /\ insert[c].at \in up
                 /\ parts[insert[c].at][insert[c].number] = "PreCommitted"
                 /\ insert[c].pc = "commit" => insert[c].number \in zk_parts'[insert[c].at]
      BY Zenon, <1>2, <2>1, FlightFacts DEF Inv, Owned, Have
    <2> QED
      BY Zenon, <2>1, <1>1, OwnedFrame DEF InFlight
  <1>7. Listed'
    <2>1. \A q \in Replica, m \in Number : parts'[q][m] = "Committed" => m \in zk_parts'[q]
      BY Zenon, <1>1, <1>2 DEF Inv, Listed, Have
    <2> QED
      BY Zenon, <2>1, <1>1, <1>2, <1>3, <1>4 DEF Inv, Listed
  <1>8. Unique' /\ Kept'
    <2>1. Unique'
      BY Zenon, <1>1, <1>4 DEF Inv, Unique
    <2>2. Kept'
      BY Zenon, <1>1, <1>2, <1>4 DEF Inv, Kept, Have
    <2> QED
      BY Zenon, <2>1, <2>2
  <1> QED
    BY Zenon, <1>5, <1>6, <1>7, <1>8 DEF Inv

\* A part that was rolled back is deleted, first here and then from ZooKeeper.
LEMMA CleanupInv ==
  ASSUME Inv, NEW r \in Replica, NEW n \in Number, parts[r][n] \in {"Outdated", "Deleting"},
         NEW x \in {"Deleting", "none"}, parts' = [parts EXCEPT ![r][n] = x],
         zk_parts' \in {zk_parts, [zk_parts EXCEPT ![r] = @ \ {n}]},
         UNCHANGED <<blocks, log, log_pointer, queue, next_number, content, up, fetching, insert, faults, orphans>>
  PROVE  Inv'
  <1>1. /\ parts' \in [Replica -> [Number -> PartState]]
        /\ \A q \in Replica, m \in Number : parts'[q][m] = IF q = r /\ m = n THEN x ELSE parts[q][m]
    <2>1. x \in PartState /\ parts \in [Replica -> [Number -> PartState]]
      BY Zenon DEF PartState, Inv, Types
    <2> QED
      BY <2>1, PartsUpdate
  <1>2. /\ zk_parts' \in [Replica -> SUBSET Number]
        /\ \A q \in Replica : zk_parts'[q] \subseteq zk_parts[q]
        /\ \A q \in Replica : \A m \in zk_parts[q] : (q = r /\ m = n) \/ m \in zk_parts'[q]
    <2>1. zk_parts \in [Replica -> SUBSET Number]
      BY Zenon DEF Inv, Types
    <2>2. CASE zk_parts' = zk_parts
      BY Zenon, <2>1, <2>2
    <2>3. CASE zk_parts' = [zk_parts EXCEPT ![r] = @ \ {n}]
      BY Zenon, <2>1, <2>3
    <2> QED
      BY Zenon, <2>2, <2>3
  <1>3. Logged' = Logged
    BY Zenon DEF Logged
  <1>4. Types'
    BY Zenon, <1>1, <1>2 DEF Inv, Types
  <1>5. Owned'
    <2>1. ASSUME NEW c \in Client, InFlight(c)
          PROVE  /\ insert[c].at \in up
                 /\ parts'[insert[c].at][insert[c].number] = "PreCommitted"
                 /\ insert[c].pc = "commit" => insert[c].number \in zk_parts'[insert[c].at]
      <3>1. /\ insert[c].at \in Replica /\ insert[c].number \in Number /\ insert[c].at \in up
            /\ parts[insert[c].at][insert[c].number] = "PreCommitted"
            /\ insert[c].pc = "commit" => insert[c].number \in zk_parts[insert[c].at]
        BY Zenon, <2>1, FlightFacts DEF Inv, Owned
      <3> QED
        BY Zenon, <3>1, <1>1, <1>2
    <2> QED
      BY Zenon, <2>1, OwnedFrame DEF InFlight
  <1>6. Listed'
    <2>1. \A q \in Replica, m \in Number :
             /\ m \in fetching[q] => parts'[q][m] = "none"
             /\ parts'[q][m] = "Committed" => m \in zk_parts'[q]
      BY <1>1, <1>2 DEF Inv, Listed
    <2>2. \A q \in Replica : zk_parts'[q] \subseteq Logged
      BY Zenon, <1>2 DEF Inv, Listed
    <2> QED
      BY Zenon, <2>1, <2>2, <1>3 DEF Inv, Listed
  <1>7. Unique'
    BY Zenon, <1>3 DEF Inv, Unique
  <1>8. Kept'
    <2>1. ASSUME NEW m \in Logged \ orphans
          PROVE  \E q \in Replica : m \in zk_parts'[q] /\ parts'[q][m] \in {"PreCommitted", "Committed"}
      <3>1. PICK q \in Replica : m \in zk_parts[q] /\ parts[q][m] \in {"PreCommitted", "Committed"}
        BY Zenon DEF Inv, Kept, Have
      <3>2. m \in Number
        BY Zenon, <3>1 DEF Inv, Types
      <3> QED
        BY <3>1, <3>2, <1>1, <1>2
    <2> QED
      BY Zenon, <2>1, <1>3 DEF Kept, Have
  <1> QED
    BY Zenon, <1>4, <1>5, <1>6, <1>7, <1>8 DEF Inv

LEMMA GrabOldPartInv ==
  ASSUME Inv, NEW r \in Replica, NEW n \in Number, GrabOldPart(r, n)
  PROVE  Inv'
  BY Zenon, CleanupInv DEF GrabOldPart, zookeeper

LEMMA RemoveOldPartInv ==
  ASSUME Inv, NEW r \in Replica, NEW n \in Number, RemoveOldPart(r, n)
  PROVE  Inv'
  BY Zenon, CleanupInv DEF RemoveOldPart

LEMMA CrashInv ==
  ASSUME Inv, NEW r \in Replica, Crash(r)
  PROVE  Inv'
  <1>1. UNCHANGED <<blocks, zk_parts, log, log_pointer, queue, next_number, content, parts, orphans>>
    BY Zenon DEF Crash, zookeeper
  <1>2. /\ fetching' \in [Replica -> SUBSET Number] /\ up' = up \ {r}
        /\ \A q \in Replica : fetching'[q] = IF q = r THEN {} ELSE fetching[q]
    <2>1. fetching \in [Replica -> SUBSET Number]
      BY Zenon DEF Inv, Types
    <2> QED
      BY Zenon, <2>1 DEF Crash
  <1>3. /\ insert' \in [Client -> {Idle, Done} \cup Flight]
        /\ \A c \in Client : \/ insert'[c] = Idle
                             \/ insert'[c] = insert[c] /\ (InFlight(c) => insert[c].at # r)
    <2>1. insert \in [Client -> {Idle, Done} \cup Flight]
      BY Zenon DEF Inv, Types
    <2> QED
      BY <2>1 DEF Crash, InFlight, Idle, Done
  <1>4. faults' \in 0..MaxFaults
    <2>1. faults \in 0..MaxFaults
      BY Zenon DEF Inv, Types
    <2> QED
      BY <2>1, InsertConstants DEF Crash
  <1>5. Logged' = Logged
    BY Zenon, <1>1 DEF Logged
  <1>6. Types'
    BY Zenon, <1>1, <1>2, <1>3, <1>4 DEF Inv, Types
  <1>7. Owned'
    <2>1. \A c \in Client : InFlight(c)' =>
             InFlight(c) /\ insert'[c] = insert[c] /\ (insert[c].at \in up => insert[c].at \in up')
      BY <1>2, <1>3 DEF InFlight, Idle
    <2>2. \A c \in Client : InFlight(c) =>
             /\ insert[c].at \in up
             /\ parts[insert[c].at][insert[c].number] = "PreCommitted"
             /\ insert[c].pc = "commit" => insert[c].number \in zk_parts[insert[c].at]
      BY Zenon DEF Inv, Owned
    <2> QED
      BY Zenon, <2>1, <2>2, <1>1, OwnedFrame
  <1>8. Listed'
    BY Zenon, <1>1, <1>2, <1>5 DEF Inv, Listed
  <1>9. Unique'
    <2>1. \A c \in Client : insert'[c] = Done => insert[c] = Done
      BY <1>3 DEF Idle, Done
    <2> QED
      BY Zenon, <2>1, <1>1, <1>5 DEF Inv, Unique
  <1>10. Kept'
    BY Zenon, <1>1, <1>5 DEF Inv, Kept, Have
  <1> QED
    BY Zenon, <1>6, <1>7, <1>8, <1>9, <1>10 DEF Inv

LEMMA RestartInv ==
  ASSUME Inv, NEW r \in Replica, Restart(r)
  PROVE  Inv'
  <1> DEFINE miss == zk_parts[r] \ {n \in Number : parts[r][n] # "none"}
             f == [n \in Number |-> queue[r][n] + IF n \in miss THEN 1 ELSE 0]
  <1>1. /\ UNCHANGED <<blocks, log, log_pointer, next_number, content, fetching, insert, faults, orphans>>
        /\ up' = up \cup {r} /\ r \notin up
    BY Zenon DEF Restart
  <1>2. /\ zk_parts \in [Replica -> SUBSET Number] /\ queue \in [Replica -> [Number -> Nat]]
        /\ parts \in [Replica -> [Number -> PartState]]
    BY Zenon DEF Inv, Types
  <1>3. /\ parts' \in [Replica -> [Number -> PartState]]
        /\ \A q \in Replica, m \in Number : parts'[q][m] =
              IF q # r THEN parts[q][m]
              ELSE IF parts[r][m] # "none" /\ m \in zk_parts[r] THEN "Committed" ELSE "none"
    BY Zenon, <1>2 DEF Restart, PartState
  <1>4. /\ zk_parts' \in [Replica -> SUBSET Number]
        /\ \A q \in Replica : zk_parts'[q] = IF q = r THEN zk_parts[q] \ miss ELSE zk_parts[q]
    BY Zenon, <1>2 DEF Restart
  <1>5. queue' = [queue EXCEPT ![r] = f]
    BY Zenon DEF Restart
  <1>6. /\ queue' \in [Replica -> [Number -> Nat]]
        /\ \A q \in Replica, m \in Number : queue'[q][m] > 0 => m \in Logged
    <2>1. \A m \in miss : m \in Logged
      BY Zenon DEF Inv, Listed
    <2> HIDE DEF miss
    <2>2. f \in [Number -> Nat] /\ \A m \in Number : f[m] > 0 => queue[r][m] > 0 \/ m \in miss
      BY <1>2
    <2> HIDE DEF f
    <2>3. queue' \in [Replica -> [Number -> Nat]]
      BY Zenon, <1>2, <1>5, <2>2
    <2>4. \A q \in Replica, m \in Number : queue'[q][m] = queue[q][m] \/ (q = r /\ queue'[q][m] = f[m])
      BY Zenon, <1>2, <1>5
    <2> QED
      BY Zenon, <2>1, <2>2, <2>3, <2>4 DEF Inv, Listed
  <1>7. Logged' = Logged
    BY Zenon, <1>1 DEF Logged
  <1>8. Types'
    BY Zenon, <1>1, <1>2, <1>3, <1>4, <1>6 DEF Inv, Types
  <1>9. Owned'
    <2>1. ASSUME NEW c \in Client, InFlight(c)
          PROVE  /\ insert[c].at \in up'
                 /\ parts'[insert[c].at][insert[c].number] = "PreCommitted"
                 /\ insert[c].pc = "commit" => insert[c].number \in zk_parts'[insert[c].at]
      <3>1. /\ insert[c].at \in Replica /\ insert[c].number \in Number /\ insert[c].at \in up
            /\ parts[insert[c].at][insert[c].number] = "PreCommitted"
            /\ insert[c].pc = "commit" => insert[c].number \in zk_parts[insert[c].at]
        BY Zenon, <2>1, FlightFacts DEF Inv, Owned
      <3> HIDE DEF miss
      <3> QED
        BY <3>1, <1>1, <1>3, <1>4
    <2> QED
      BY Zenon, <2>1, <1>1, OwnedFrame DEF InFlight
  <1>10. Listed'
    <2>1. \A q \in Replica : zk_parts'[q] \subseteq Logged
      BY Zenon, <1>4 DEF Inv, Listed
    <2>2. \A q \in Replica, m \in Number : m \in fetching[q] => parts'[q][m] = "none" /\ q \in up'
      BY Zenon, <1>1, <1>3 DEF Inv, Listed
    <2>3. \A q \in Replica, m \in Number : parts'[q][m] = "Committed" => m \in zk_parts'[q]
      BY <1>3, <1>4 DEF Inv, Listed
    <2> QED
      BY Zenon, <2>1, <2>2, <2>3, <1>1, <1>6, <1>7 DEF Inv, Listed
  <1>11. Unique'
    BY Zenon, <1>1, <1>7 DEF Inv, Unique
  <1>12. Kept'
    <2>1. ASSUME NEW m \in Logged \ orphans
          PROVE  \E q \in Replica : m \in zk_parts'[q] /\ parts'[q][m] \in {"PreCommitted", "Committed"}
      <3>1. PICK q \in Replica : m \in zk_parts[q] /\ parts[q][m] \in {"PreCommitted", "Committed"}
        BY Zenon DEF Inv, Kept, Have
      <3>2. m \in Number
        BY Zenon, <3>1, <1>2
      <3> QED
        BY Zenon, <3>1, <3>2, <1>3, <1>4
    <2> QED
      BY Zenon, <2>1, <1>1, <1>7 DEF Kept, Have
  <1> QED
    BY Zenon, <1>8, <1>9, <1>10, <1>11, <1>12 DEF Inv

-----------------------------------------------------------------------------
LEMMA StepInv == Inv /\ [Next]_vars => Inv'
  <1> SUFFICES ASSUME Inv, [Next]_vars PROVE Inv'
    OBVIOUS
  <1>1. 1..next_number \subseteq Number
    BY Zenon DEF Inv, Types
  <1>2. CASE UNCHANGED vars
    BY Zenon, <1>2, UnchangedInv DEF vars, zookeeper, replicas
  <1>3. ASSUME NEW c \in Client, ClientStep(c) PROVE Inv'
    BY Zenon, <1>3, AllocateInv, AlreadyThereInv, MultiInv, MultiDuplicateInv, CommitInv DEF ClientStep
  <1>4. ASSUME NEW r \in Replica, ReplicaStep(r) PROVE Inv'
    <2>1. CASE PullLogsToQueue(r) \/ Restart(r)
      BY Zenon, <2>1, PullLogsToQueueInv, RestartInv
    <2>2. ASSUME NEW n \in Number, NEW s \in Replica, Receive(r, n, s) \/ NoSuchPart(r, n, s) PROVE Inv'
      BY Zenon, <2>2, ReceiveInv, NoSuchPartInv
    <2>3. ASSUME NEW n \in Number,
                 \/ Skip(r, n) \/ NoReplicaHasPart(r, n) \/ FetchCommit(r, n)
                 \/ CheckPart(r, n) \/ GrabOldPart(r, n) \/ RemoveOldPart(r, n)
          PROVE  Inv'
      BY Zenon, <2>3, SkipInv, NoReplicaHasPartInv, FetchCommitInv, CheckPartInv, GrabOldPartInv, RemoveOldPartInv
    <2> QED
      BY Zenon, <1>1, <1>4, <2>1, <2>2, <2>3 DEF ReplicaStep
  <1>5. ASSUME Fault PROVE Inv'
    BY Zenon, <1>1, <1>5, MultiFailsInv, CrashInv, FetchFailsInv DEF Fault
  <1> QED
    BY Zenon, <1>2, <1>3, <1>4, <1>5 DEF Next

\* The inductive invariant: INSERTs under way own their parts, registered parts correspond to
\* the block ids one to one, and each is kept by a replica unless it was rolled back.
THEOREM Invariant == Spec => []Inv
  BY InitInv, StepInv, PTL DEF Spec

\* The types of the variables.
THEOREM TypeCorrect == Spec => []TypeOK
  <1>1. Inv => TypeOK
    <2> SUFFICES ASSUME Inv PROVE TypeOK
      OBVIOUS
    <2>1. insert \in [Client -> {Idle, Done} \cup [pc : {"multi", "commit"}, at : up, number : Number]]
      <3>1. insert \in [Client -> {Idle, Done} \cup Flight]
        BY Zenon DEF Inv, Types
      <3>2. \A c \in Client : insert[c] \in Flight => insert[c].at \in up
        BY Zenon, FlightFacts DEF Inv, Owned
      <3>3. \A c \in Client : insert[c] \in Flight =>
               insert[c] \in [pc : {"multi", "commit"}, at : up, number : Number]
        BY Zenon, <3>2 DEF Flight
      <3> QED
        BY Zenon, <3>1, <3>3
    <2> QED
      BY <2>1 DEF Inv, Types, TypeOK
  <1> QED
    BY <1>1, Invariant, PTL

\* However INSERTs of a block race and are repeated, no two parts with the block are listed
\* or served: commitPart's transaction creates the block id with the part.
THEOREM BlocksAreWrittenOnce == Spec => []WrittenOnce
  <1>1. Inv => WrittenOnce
    BY Zenon DEF Inv, Listed, Unique, WrittenOnce
  <1> QED
    BY <1>1, Invariant, PTL

\* What SELECT sees on a replica is listed under it in ZooKeeper.
THEOREM ServedPartsAreRegistered == Spec => []ServedIsRegistered
  <1>1. Inv => ServedIsRegistered
    BY Zenon DEF Inv, Types, Listed, ServedIsRegistered
  <1> QED
    BY <1>1, Invariant, PTL

\* The block of an acknowledged INSERT is on some replica, unless its part was rolled back
\* after it had been registered.
THEOREM AcknowledgedBlocksAreKept == Spec => []AcknowledgedIsKept
  <1>1. Inv => AcknowledgedIsKept
    <2> SUFFICES ASSUME Inv, NEW c \in Client, insert[c] = Done
                 PROVE  \E n \in Number :
                           /\ content[n] = {Block[c]}
                           /\ n \in orphans \/ \E r \in Replica : Have(r, n) /\ n \in zk_parts[r]
      BY Zenon DEF AcknowledgedIsKept, Acknowledged
    <2>1. PICK n \in Logged : content[n] = {Block[c]}
      BY Zenon DEF Inv, Unique
    <2>2. n \in Number
      BY DEF Logged, Inv, Types
    <2> QED
      BY Zenon, <2>1, <2>2 DEF Inv, Kept
  <1> QED
    BY <1>1, Invariant, PTL

\* A replica gives up an entry of its queue only when it has the part, or when the part was
\* rolled back by the replica that had registered it and nobody lists it any more.
THEOREM EntriesLeaveTheQueueServed == Spec => EntriesAreServed
  <1> DEFINE P == \A r \in Replica, n \in Number :
                     queue'[r][n] < queue[r][n] => Have(r, n)' \/ n \in orphans
  <1>1. Inv /\ [Next]_vars => [P]_vars
    <2> SUFFICES ASSUME Inv, Next, NEW r \in Replica, NEW n \in Number, queue'[r][n] < queue[r][n]
                 PROVE  Have(r, n)' \/ n \in orphans
      OBVIOUS
    <2>1. /\ queue \in [Replica -> [Number -> Nat]] /\ parts \in [Replica -> [Number -> PartState]]
          /\ 1..next_number \subseteq Number
      BY Zenon DEF Inv, Types
    <2>2. queue[r][n] \in Nat /\ ~UNCHANGED queue
      BY <2>1
    <2>3. ASSUME NEW q \in Replica, NEW m \in Number, OneEntryLess(q, m) PROVE q = r /\ m = n
      BY <2>1, <2>2, <2>3, QueueUpdate
    <2>4. ASSUME NEW c \in Client, ClientStep(c) \/ MultiFails(c) PROVE FALSE
      BY Zenon, <2>2, <2>4 DEF ClientStep, Allocate, AlreadyThere, Multi, Register, MultiDuplicate, Commit, MultiFails,
                        zookeeper
    <2>5. ASSUME NEW q \in Replica, PullLogsToQueue(q) PROVE FALSE
      <3> DEFINE k(m) == Cardinality({i \in (log_pointer[q] + 1)..Len(log) : log[i] = m})
      <3>1. \A m \in Number : k(m) \in Nat
        <4>1. log \in Seq(Number) /\ log_pointer[q] \in Nat
          BY DEF Inv, Types
        <4> QED
          BY Zenon, <4>1, CountFacts
      <3>2. queue' = [queue EXCEPT ![q] = [m \in Number |-> queue[q][m] + k(m)]]
        BY Zenon, <2>5 DEF PullLogsToQueue
      <3> HIDE DEF k
      <3>3. k(n) \in Nat /\ (queue'[r][n] = queue[r][n] + k(n) \/ queue'[r][n] = queue[r][n])
        BY Zenon, <3>1, <3>2, <2>1
      <3> QED
        BY <3>3, <2>2
    <2>6. ASSUME NEW q \in Replica, Restart(q) PROVE FALSE
      <3> DEFINE miss == zk_parts[q] \ {m \in Number : parts[q][m] # "none"}
      <3>1. queue' = [queue EXCEPT ![q] = [m \in Number |-> queue[q][m] + IF m \in miss THEN 1 ELSE 0]]
        BY Zenon, <2>6 DEF Restart
      <3> HIDE DEF miss
      <3> QED
        BY <3>1, <2>1, <2>2
    <2>7. ASSUME NEW q \in Replica, NEW m \in Number, Skip(q, m) PROVE Have(r, n)'
      BY Zenon, <2>3, <2>7 DEF Skip, ExistingPart, Have, replicas
    <2>8. ASSUME NEW q \in Replica, NEW m \in Number, FetchCommit(q, m) PROVE Have(r, n)'
      BY Zenon, <2>1, <2>3, <2>8 DEF FetchCommit, Have
    <2>9. ASSUME NEW q \in Replica, NEW m \in Number, CheckPart(q, m) PROVE n \in orphans
      <3>1. CASE queue' = [queue EXCEPT ![q][m] = @ + 1]
        BY <3>1, <2>1, <2>2
      <3>2. CASE ~ListedSomewhere(m) /\ OneEntryLess(q, m)
        <4>1. m = n /\ n \in Logged
          <5>1. queue[r][n] > 0
            <6>1. queue' \in [Replica -> [Number -> Nat]]
              BY Zenon, <3>2, <2>1, QueueUpdate
            <6>2. queue'[r][n] \in Nat
              BY Zenon, <6>1
            <6> QED
              BY <6>2, <2>2
          <5> QED
            BY Zenon, <5>1, <3>2, <2>3 DEF Inv, Listed
        <4> QED
          BY Zenon, <3>2, <4>1 DEF Inv, Kept, ListedSomewhere
      <3> QED
        BY Zenon, <3>1, <3>2, <2>2, <2>9 DEF CheckPart
    <2>10. ASSUME NEW q \in Replica, NEW m \in Number,
                  \/ NoReplicaHasPart(q, m) \/ GrabOldPart(q, m) \/ RemoveOldPart(q, m) \/ FetchFails(q, m)
                  \/ \E s \in Replica : Receive(q, m, s) \/ NoSuchPart(q, m, s)
           PROVE  FALSE
      BY Zenon, <2>2, <2>10 DEF NoReplicaHasPart, GrabOldPart, RemoveOldPart, FetchFails, Receive, NoSuchPart, zookeeper
    <2>11. ASSUME NEW q \in Replica, Crash(q) PROVE FALSE
      BY Zenon, <2>2, <2>11 DEF Crash, zookeeper
    <2>12. ASSUME NEW q \in Replica, ReplicaStep(q) PROVE Have(r, n)' \/ n \in orphans
      BY Zenon, <2>1, <2>5, <2>6, <2>7, <2>8, <2>9, <2>10, <2>12 DEF ReplicaStep
    <2>13. ASSUME Fault PROVE FALSE
      BY Zenon, <2>1, <2>4, <2>10, <2>11, <2>13 DEF Fault
    <2> QED
      BY Zenon, <2>4, <2>12, <2>13 DEF Next
  <1> QED
    BY <1>1, Invariant, PTL DEF Spec, EntriesAreServed
=============================================================================
