-------------------------- MODULE ReplicatedInsert --------------------------
(***************************************************************************)
(* INSERT into a ReplicatedMergeTree table.  The replica that takes the    *)
(* query writes a part, adds it to its working set, and registers it in    *)
(* ZooKeeper in one transaction with the id of the block, by which a       *)
(* repeated INSERT is recognised, and with a log entry, by which the other *)
(* replicas fetch the part.  A client whose INSERT fails repeats it on any *)
(* replica it knows.  Several clients may insert the same block.           *)
(*                                                                         *)
(* A replica may crash and restart, which leaves what is on its disk, and  *)
(* any transaction may fail with a network error, applied or not.  There   *)
(* are no merges, no quorum and one partition, the deduplication window is *)
(* not exceeded, and the check at startup that refuses to load a table     *)
(* most of whose rows look wrong is passed.                                *)
(***************************************************************************)
EXTENDS Integers, Sequences, FiniteSets

CONSTANTS
    Replica,
    Client,         \* connections that insert one block each
    Block,          \* [Client -> block id]
    Reach,          \* [Client -> the replicas it sends its INSERT to]
    MaxFaults       \* bound: crashes and failed transactions

ASSUME InsertConstants ==
    /\ IsFiniteSet(Client) /\ MaxFaults \in Nat
    /\ DOMAIN Block = Client /\ Reach \in [Client -> SUBSET Replica]

VARIABLES
    blocks,         \* ZooKeeper: ids in blocks/
    zk_parts,       \* ZooKeeper: replicas/r/parts
    log,            \* ZooKeeper: log/, the numbers of the parts inserted
    log_pointer,    \* ZooKeeper: replicas/r/log_pointer
    queue,          \* replicas/r/queue: GET_PART entries for each part
    next_number,    \* ZooKeeper: block numbers given out
    content,        \* the block in each part
    parts,          \* state of each part on each replica, "none" where it is not
    up,             \* replicas that run; their is_active node
    fetching,       \* parts received and not committed yet
    check,          \* parts_queue of the part check thread
    insert,         \* of each client: step, replica and block number
    faults,
    orphans         \* history: parts rolled back although they were registered

zookeeper == <<blocks, zk_parts, log, log_pointer, queue, next_number>>
replicas  == <<parts, up, fetching, check>>
vars      == <<zookeeper, content, replicas, insert, faults, orphans>>

\* A client uses a number, and another one after each fault.
Number == 1..(Cardinality(Client) * (1 + MaxFaults))

\* Defective variant: a part on its way from PreCommitted to Committed is not seen.
Have_CommittedOnly(r, n) == parts[r][n] = "Committed"

Have(r, n) == parts[r][n] \in {"PreCommitted", "Committed"}

Go(c, step) == insert' = [insert EXCEPT ![c] = step]

Idle == [pc |-> "idle"]
Done == [pc |-> "done"]

Init ==
    /\ blocks = {} /\ log = <<>> /\ next_number = 0
    /\ zk_parts = [r \in Replica |-> {}]
    /\ log_pointer = [r \in Replica |-> 0]
    /\ queue = [r \in Replica |-> [n \in Number |-> 0]]
    /\ content = [n \in Number |-> {}]
    /\ parts = [r \in Replica |-> [n \in Number |-> "none"]]
    /\ up = Replica
    /\ fetching = [r \in Replica |-> {}]
    /\ check = [r \in Replica |-> {}]
    /\ insert = [c \in Client |-> Idle]
    /\ faults = 0 /\ orphans = {}

----------------------------------------------------------------------------
(* commitPart *)

\* The block is known: the INSERT succeeds without writing it.
AlreadyThere(c) ==
    /\ insert[c] = Idle /\ Reach[c] \cap up # {}
    /\ Block[c] \in blocks
    /\ Go(c, Done)
    /\ UNCHANGED <<zookeeper, content, replicas, faults, orphans>>

\* Defective variant: the check in advance creates the block id and does not remove it.
Allocate_LeavesId(c, r) ==
    /\ insert[c] = Idle /\ r \in Reach[c] \cap up
    /\ Block[c] \notin blocks
    /\ next_number + 1 \in Number
    /\ next_number' = next_number + 1
    /\ blocks' = blocks \cup {Block[c]}
    /\ content' = [content EXCEPT ![next_number'] = {Block[c]}]
    /\ parts' = [parts EXCEPT ![r][next_number'] = "PreCommitted"]
    /\ Go(c, [pc |-> "multi", at |-> r, number |-> next_number'])
    /\ UNCHANGED <<zk_parts, log, log_pointer, queue, up, fetching, check, faults, orphans>>

\* On a replica that runs, allocateBlockNumber and renameTempPartAndAdd.
Allocate(c, r) ==
    /\ insert[c] = Idle /\ r \in Reach[c] \cap up
    /\ Block[c] \notin blocks
    /\ next_number + 1 \in Number
    /\ next_number' = next_number + 1
    /\ content' = [content EXCEPT ![next_number'] = {Block[c]}]
    /\ parts' = [parts EXCEPT ![r][next_number'] = "PreCommitted"]
    /\ Go(c, [pc |-> "multi", at |-> r, number |-> next_number'])
    /\ UNCHANGED <<blocks, zk_parts, log, log_pointer, queue, up, fetching, check, faults, orphans>>

\* Defective variant: no final duplicate check.
Register_NoCheck(c) ==
    /\ blocks' = blocks \cup {Block[c]}
    /\ zk_parts' = [zk_parts EXCEPT ![insert[c].at] = @ \cup {insert[c].number}]
    /\ log' = Append(log, insert[c].number)
    /\ UNCHANGED <<log_pointer, queue, next_number>>

\* What the transaction of commitPart does when it is applied.
Register(c) ==
    /\ Block[c] \notin blocks
    /\ blocks' = blocks \cup {Block[c]}
    /\ zk_parts' = [zk_parts EXCEPT ![insert[c].at] = @ \cup {insert[c].number}]
    /\ log' = Append(log, insert[c].number)
    /\ UNCHANGED <<log_pointer, queue, next_number>>

\* transaction.commit() and transaction.rollback()
EndTransaction(c, state) ==
    /\ parts' = [parts EXCEPT ![insert[c].at][insert[c].number] = state]
    /\ UNCHANGED <<up, fetching, check>>

Multi(c) ==
    /\ insert[c].pc = "multi"
    /\ Register(c)
    /\ Go(c, [insert[c] EXCEPT !.pc = "commit"])
    /\ UNCHANGED <<content, replicas, faults, orphans>>

\* ZNODEEXISTS of the block id: the same block came in meanwhile.
MultiDuplicate(c) ==
    /\ insert[c].pc = "multi"
    /\ Block[c] \in blocks
    /\ EndTransaction(c, "Outdated")
    /\ Go(c, Done)
    /\ UNCHANGED <<zookeeper, content, faults, orphans>>

Commit(c) ==
    /\ insert[c].pc = "commit"
    /\ EndTransaction(c, "Committed")
    /\ Go(c, Done)
    /\ UNCHANGED <<zookeeper, content, faults, orphans>>

\* A network error, before the transaction was applied or after that.  The client sees an
\* error and repeats the INSERT, there or elsewhere.
MultiFails(c) ==
    /\ insert[c].pc \in {"multi", "commit"}
    /\ faults < MaxFaults /\ faults' = faults + 1
    /\ EndTransaction(c, "Outdated")
    /\ Go(c, Idle)
    /\ orphans' = IF insert[c].pc = "commit" THEN orphans \cup {insert[c].number} ELSE orphans
    /\ UNCHANGED <<zookeeper, content>>

----------------------------------------------------------------------------
(* The queue of a replica *)

PullLogsToQueue(r) ==
    /\ r \in up
    /\ log_pointer[r] < Len(log)
    /\ queue' = [queue EXCEPT ![r] = [n \in Number |->
                    @[n] + Cardinality({i \in (log_pointer[r] + 1)..Len(log) : log[i] = n})]]
    /\ log_pointer' = [log_pointer EXCEPT ![r] = Len(log)]
    /\ UNCHANGED <<blocks, zk_parts, log, next_number, content, replicas, insert, faults, orphans>>

\* Entries that no thread is executing.
Selectable(r, n) == r \in up /\ queue[r][n] > 0 /\ n \notin fetching[r]

\* Active replicas that list the part, findReplicaHavingCoveringPart.
Sources(r, n) == {s \in up \ {r} : n \in zk_parts[s]}

OneEntryLess(r, n) == queue' = [queue EXCEPT ![r][n] = IF @ = 0 THEN 0 ELSE @ - 1]

\* executeLogEntry: the part is there, perhaps on its way from PreCommitted to Committed.
ExistingPart(r, n) == Have(r, n) /\ n \in zk_parts[r]

Skip(r, n) ==
    /\ Selectable(r, n) /\ ExistingPart(r, n)
    /\ OneEntryLess(r, n)
    /\ UNCHANGED <<blocks, zk_parts, log, log_pointer, next_number, content, replicas, insert, faults, orphans>>

\* executeFetch: no active replica lists the part.
NoReplicaHasPart(r, n) ==
    /\ Selectable(r, n) /\ ~ExistingPart(r, n)
    /\ Sources(r, n) = {}
    /\ n \notin check[r]
    /\ check' = [check EXCEPT ![r] = @ \cup {n}]
    /\ UNCHANGED <<zookeeper, content, parts, up, fetching, insert, faults, orphans>>

\* States in which findPart of the sender gives a part away.
Sendable == {"PreCommitted", "Committed", "Outdated"}

\* fetchPart, up to the part being received.  While an earlier attempt is still being
\* deleted it does nothing but wake the cleanup thread.
Receive(r, n, s) ==
    /\ Selectable(r, n) /\ ~ExistingPart(r, n)
    /\ s \in Sources(r, n)
    /\ parts[r][n] = "none"
    /\ parts[s][n] \in Sendable
    /\ fetching' = [fetching EXCEPT ![r] = @ \cup {n}]
    /\ UNCHANGED <<zookeeper, content, parts, up, check, insert, faults, orphans>>

\* The sender does not have the part: reportBrokenPart there, an error here.
NoSuchPart(r, n, s) ==
    /\ Selectable(r, n) /\ ~ExistingPart(r, n)
    /\ s \in Sources(r, n)
    /\ parts[r][n] = "none"
    /\ parts[s][n] \notin Sendable /\ n \notin check[s]
    /\ check' = [check EXCEPT ![s] = @ \cup {n}]
    /\ UNCHANGED <<zookeeper, content, parts, up, fetching, insert, faults, orphans>>

\* renameTempPartAndReplace and checkPartChecksumsAndCommit, then the entry is removed.
FetchCommit(r, n) ==
    /\ n \in fetching[r]
    /\ fetching' = [fetching EXCEPT ![r] = @ \ {n}]
    /\ parts' = [parts EXCEPT ![r][n] = "Committed"]
    /\ zk_parts' = [zk_parts EXCEPT ![r] = @ \cup {n}]
    /\ OneEntryLess(r, n)
    /\ UNCHANGED <<blocks, log, log_pointer, next_number, content, up, check, insert, faults, orphans>>

\* Defective variant: the entry is removed although the fetch failed.
FetchFails_Removes(r, n) ==
    /\ n \in fetching[r]
    /\ faults < MaxFaults /\ faults' = faults + 1
    /\ fetching' = [fetching EXCEPT ![r] = @ \ {n}]
    /\ parts' = [parts EXCEPT ![r][n] = "Outdated"]
    /\ zk_parts' \in {zk_parts, [zk_parts EXCEPT ![r] = @ \cup {n}]}
    /\ OneEntryLess(r, n)
    /\ UNCHANGED <<blocks, log, log_pointer, next_number, content, up, check, insert, orphans>>

\* The transaction of checkPartChecksumsAndCommit throws, applied or not.
FetchFails(r, n) ==
    /\ n \in fetching[r]
    /\ faults < MaxFaults /\ faults' = faults + 1
    /\ fetching' = [fetching EXCEPT ![r] = @ \ {n}]
    /\ parts' = [parts EXCEPT ![r][n] = "Outdated"]
    /\ zk_parts' \in {zk_parts, [zk_parts EXCEPT ![r] = @ \cup {n}]}
    /\ UNCHANGED <<blocks, log, log_pointer, queue, next_number, content, up, check, insert, orphans>>

----------------------------------------------------------------------------
(* The part check thread and the cleanup thread *)

\* Defective variant: only the replicas that run are asked.
ListedSomewhere_Active(n) == \E s \in up : n \in zk_parts[s]

\* Some replica, active or not, lists the part.
ListedSomewhere(n) == \E s \in Replica : n \in zk_parts[s]

\* checkPart: a part that is there is left alone.  searchForMissingPart: one that only
\* ZooKeeper has is taken from there and a fetch is queued; one that some replica lists
\* will be fetched; and one that nobody lists is lost, and its entry is removed.
CheckPart(r, n) ==
    /\ r \in up /\ n \in check[r]
    /\ check' = [check EXCEPT ![r] = @ \ {n}]
    /\ \/ /\ Have(r, n) \/ (n \notin zk_parts[r] /\ ListedSomewhere(n))
          /\ UNCHANGED <<zk_parts, queue>>
       \/ /\ ~Have(r, n) /\ n \in zk_parts[r]
          /\ zk_parts' = [zk_parts EXCEPT ![r] = @ \ {n}]
          /\ queue' = [queue EXCEPT ![r][n] = @ + 1]
       \/ /\ ~Have(r, n) /\ ~ListedSomewhere(n)
          /\ OneEntryLess(r, n)
          /\ UNCHANGED zk_parts
    /\ UNCHANGED <<blocks, log, log_pointer, next_number, content, parts, up, fetching, insert, faults, orphans>>

\* grabOldParts: a part that was rolled back is old at once.
GrabOldPart(r, n) ==
    /\ r \in up /\ parts[r][n] = "Outdated"
    /\ parts' = [parts EXCEPT ![r][n] = "Deleting"]
    /\ UNCHANGED <<zookeeper, content, up, fetching, check, insert, faults, orphans>>

\* The rest of clearOldPartsAndRemoveFromZK.  A duplicate is not in ZooKeeper anyway.
RemoveOldPart(r, n) ==
    /\ r \in up /\ parts[r][n] = "Deleting"
    /\ zk_parts' = [zk_parts EXCEPT ![r] = @ \ {n}]
    /\ parts' = [parts EXCEPT ![r][n] = "none"]
    /\ UNCHANGED <<blocks, log, log_pointer, queue, next_number, content, up, fetching, check, insert, faults, orphans>>

----------------------------------------------------------------------------
(* Crashes *)

\* Parts stay on disk, what was received under a temporary name does not.
Crash(r) ==
    /\ r \in up
    /\ faults < MaxFaults /\ faults' = faults + 1
    /\ up' = up \ {r}
    /\ fetching' = [fetching EXCEPT ![r] = {}]
    /\ check' = [check EXCEPT ![r] = {}]
    /\ insert' = [c \in Client |->
                     IF insert[c] \notin {Idle, Done} /\ insert[c].at = r THEN Idle ELSE insert[c]]
    /\ UNCHANGED <<zookeeper, content, parts, orphans>>

\* checkParts: parts that only the disk has are detached, those that only ZooKeeper has are
\* taken from there and a fetch is queued.
Restart(r) ==
    /\ r \notin up
    /\ up' = up \cup {r}
    /\ LET disk    == {n \in Number : parts[r][n] # "none"}
           missing == zk_parts[r] \ disk
       IN  /\ parts' = [parts EXCEPT ![r] = [n \in Number |->
                            IF n \in disk \cap zk_parts[r] THEN "Committed" ELSE "none"]]
           /\ zk_parts' = [zk_parts EXCEPT ![r] = @ \ missing]
           /\ queue' = [queue EXCEPT ![r] = [n \in Number |-> @[n] + IF n \in missing THEN 1 ELSE 0]]
    /\ UNCHANGED <<blocks, log, log_pointer, next_number, content, fetching, check, insert, faults, orphans>>

----------------------------------------------------------------------------
ClientStep(c) ==
    \/ \E r \in Replica : Allocate(c, r)
    \/ AlreadyThere(c) \/ Multi(c) \/ MultiDuplicate(c) \/ Commit(c)

ReplicaStep(r) ==
    \/ PullLogsToQueue(r) \/ Restart(r)
    \/ \E n \in 1..next_number :
          \/ Skip(r, n) \/ NoReplicaHasPart(r, n) \/ FetchCommit(r, n)
          \/ \E s \in Replica : Receive(r, n, s) \/ NoSuchPart(r, n, s)
          \/ CheckPart(r, n) \/ GrabOldPart(r, n) \/ RemoveOldPart(r, n)

Fault ==
    \/ \E c \in Client : MultiFails(c)
    \/ \E r \in Replica : Crash(r) \/ \E n \in 1..next_number : FetchFails(r, n)

Next == \/ \E c \in Client : ClientStep(c)
        \/ \E r \in Replica : ReplicaStep(r)
        \/ Fault

\* Clients repeat a failed INSERT, crashed replicas are started again, and a replica goes on
\* as long as one of its threads has something to do.
Fairness ==
    /\ \A c \in Client : WF_vars(ClientStep(c))
    /\ \A r \in Replica : WF_vars(ReplicaStep(r))

Spec == Init /\ [][Next]_vars /\ Fairness

----------------------------------------------------------------------------
(* Properties *)

PartState == {"none", "PreCommitted", "Committed", "Outdated", "Deleting"}

\* Types of the variables.
TypeOK ==
    /\ zk_parts \in [Replica -> SUBSET Number]
    /\ log_pointer \in [Replica -> 0..Len(log)]
    /\ \A r \in Replica, n \in Number : queue[r][n] \in Nat
    /\ parts \in [Replica -> [Number -> PartState]]
    /\ up \subseteq Replica
    /\ insert \in [Client -> {Idle, Done} \cup [pc : {"multi", "commit"}, at : up, number : Number]]
    /\ faults \in 0..MaxFaults

Acknowledged == {Block[c] : c \in {d \in Client : insert[d] = Done}}

\* However INSERTs of a block race and are repeated on any replica, SELECT finds the block
\* once: no replica lists or serves a second part with it (commitPart's transaction).
WrittenOnce ==
    \A r, s \in Replica, n, m \in Number :
        /\ n # m /\ content[n] # {} /\ content[n] = content[m]
        => ~(n \in zk_parts[r] /\ m \in zk_parts[s]) /\ ~(parts[r][n] = "Committed" /\ parts[s][m] = "Committed")

\* A part that SELECT sees is registered in ZooKeeper under its replica, so that the check
\* of parts and a restart keep it and others can fetch it.
ServedIsRegistered ==
    \A r \in up, n \in Number : parts[r][n] = "Committed" => n \in zk_parts[r]

\* The part of an INSERT that succeeded, as a duplicate or not, stays on some replica,
\* unless it was rolled back although it had been registered (MultiFails).
AcknowledgedIsKept ==
    \A b \in Acknowledged : \E n \in Number :
        /\ content[n] = {b}
        /\ n \in orphans \/ \E r \in Replica : Have(r, n) /\ n \in zk_parts[r]

\* An entry leaves the queue of a replica only for a part that the replica has, or for one
\* that was rolled back although it had been registered (searchForMissingPart).
EntriesAreServed ==
    [][\A r \in Replica, n \in Number :
          queue'[r][n] < queue[r][n] => Have(r, n)' \/ n \in orphans]_vars

\* Every INSERT is answered in the end, and every replica comes to serve every part that was
\* registered and not rolled back after that.
Converges ==
    <>[](/\ \A c \in Client : insert[c] = Done
         /\ \A i \in DOMAIN log, r \in Replica : log[i] \notin orphans => parts[r][log[i]] = "Committed")

\* docs/en/table_engines/replication.md:61: after a network failure "the INSERT query can
\* simply be repeated": when it succeeds, some replica has the block.
RepeatedInsertWrites ==
    \A b \in Acknowledged : \E n \in Number, r \in Replica :
        content[n] = {b} /\ parts[r][n] # "none"
=============================================================================
