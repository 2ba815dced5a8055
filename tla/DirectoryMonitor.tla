-------------------------- MODULE DirectoryMonitor --------------------------
(***************************************************************************)
(* Asynchronous sends of a Distributed table: INSERT leaves each block as  *)
(* a numbered file in the directory of a shard, and the thread of          *)
(* StorageDistributedDirectoryMonitor sends the files, one by one or in    *)
(* batches, and removes them.  A batch is written to current_batch.txt     *)
(* before it is sent, so that after an error or a restart the very same    *)
(* batch is sent again and a Replicated table drops it as a duplicate.     *)
(*                                                                         *)
(* The server may crash between any two steps, which covers a shutdown. A  *)
(* send may fail with a network error, or with the end of the stream when  *)
(* the remote server closes the connection, each with the batch inserted   *)
(* there or not.  The blocks of one batch have one structure and are small *)
(* enough for the remote server to make one insert of them.                *)
(***************************************************************************)
EXTENDS Integers, Sequences, Functions

CONSTANTS
    MaxInserts,     \* bound: blocks inserted, numbered from 1
    Damaged,        \* blocks whose files do not read back
    min_batched,    \* files that make a batch large enough to be sent
    MaxFaults       \* bound: crashes and failed sends

ASSUME MonitorConstants ==
    /\ MaxInserts \in Nat /\ MaxFaults \in Nat /\ min_batched \in Nat \ {0}
    /\ Damaged \subseteq 1..MaxInserts

VARIABLES
    tmp,                    \* files in tmp/: number -> block
    disk,                   \* files waiting: number -> block
    broken,                 \* files in broken/: number -> block
    batch_file,             \* current_batch.txt: {} or {sequence of numbers}
    inserted,               \* blocks that were given a number
    linked,                 \* history: blocks that were put among the files waiting
    writing,                \* numbers that INSERTs are at work on -> next step
    file_names_increment,   \* -1 before startup has set it
    should_batch_inserts,
    pc,                     \* of the monitor; "down": the server does not run
    files,                  \* listed by findFiles: number -> block
    todo,                   \* listed files not looked at yet
    batch,                  \* file_indices
    left,                   \* files of the batch still to be removed or marked
    applied,                \* remote table: the blocks in the order they came in
    seen,                   \* remote table: inserts known for deduplication
    faults,
    absent,                 \* history: a batch listed a file that was gone
    null_remote             \* history: the monitor called writeSuffix of no stream

memory  == <<files, todo, batch, left>>
dirs    == <<disk, broken, batch_file>>
remote  == <<applied, seen>>
inserts == <<tmp, inserted, linked, writing, file_names_increment>>
monitor == <<should_batch_inserts, pc, memory, remote, faults, absent, null_remote>>
vars    == <<dirs, inserts, monitor>>

Empty        == [n \in {} |-> 0]
Drop(f, n)   == [k \in DOMAIN f \ {n} |-> f[k]]
Put(f, n, b) == [k \in DOMAIN f \cup {n} |-> IF k = n THEN b ELSE f[k]]

Init ==
    /\ disk = Empty /\ broken = Empty /\ batch_file = {}
    /\ tmp = Empty /\ inserted = 0 /\ linked = {} /\ writing = Empty /\ file_names_increment = 0
    /\ should_batch_inserts \in BOOLEAN
    /\ pc = "idle"
    /\ files = Empty /\ todo = {} /\ batch = <<>> /\ left = <<>>
    /\ applied = <<>> /\ seen = {}
    /\ faults = 0 /\ absent = FALSE /\ null_remote = FALSE

\* writeToShard takes a number and writes the block to tmp/, where the monitor does not look
WriteTmp ==
    /\ pc # "down" /\ file_names_increment >= 0 /\ inserted < MaxInserts
    /\ file_names_increment' = file_names_increment + 1
    /\ inserted' = inserted + 1
    /\ tmp' = Put(tmp, file_names_increment', inserted')
    /\ writing' = Put(writing, file_names_increment', "link")
    /\ UNCHANGED <<dirs, linked, monitor>>

\* link() makes the file appear whole, and fails if there is one of that name
Link(n) ==
    /\ writing[n] = "link"
    /\ IF n \in DOMAIN disk
       THEN writing' = Drop(writing, n) /\ UNCHANGED <<disk, linked>>
       ELSE /\ disk' = Put(disk, n, tmp[n])
            /\ linked' = linked \cup {tmp[n]}
            /\ writing' = [writing EXCEPT ![n] = "remove"]
    /\ UNCHANGED <<broken, batch_file, tmp, inserted, file_names_increment, monitor>>

RemoveTmp(n) ==
    /\ writing[n] = "remove"
    /\ tmp' = Drop(tmp, n)
    /\ writing' = Drop(writing, n)
    /\ UNCHANGED <<dirs, inserted, linked, file_names_increment, monitor>>

\* Defective variant: current_batch.txt is not read back
Recovered_Ignored == <<>>

\* The batch that was not finished, if there is one
Recovered == IF batch_file = {} THEN <<>> ELSE CHOOSE b \in batch_file : TRUE

\* findFiles, and the start of processFilesWithBatching
findFiles ==
    /\ pc = "idle" /\ disk # Empty
    /\ files' = disk
    /\ LET recovered == IF should_batch_inserts THEN Recovered ELSE <<>>
       IN /\ batch' = recovered
          /\ todo' = DOMAIN disk \ Range(recovered)
          /\ pc' = IF recovered = <<>> THEN "collect" ELSE "send"
          /\ absent' = (absent \/ ~(Range(recovered) \subseteq DOMAIN disk))
    /\ UNCHANGED <<dirs, inserts, should_batch_inserts, left, remote, faults, null_remote>>

markAsBroken(n) ==
    /\ broken' = Put(broken, n, disk[n])
    /\ disk' = Drop(disk, n)

\* Defective variant: a file that does not read back is passed over
Collect_PassesOver ==
    /\ pc = "collect"
    /\ \E n \in todo :
       /\ \A m \in todo : n <= m
       /\ todo' = todo \ {n}
       /\ IF should_batch_inserts /\ files[n] \in Damaged
          THEN UNCHANGED <<batch, pc>>
          ELSE /\ batch' = Append(batch, n)
               /\ pc' = IF ~should_batch_inserts THEN "send"
                        ELSE IF Len(batch') >= min_batched THEN "save" ELSE "collect"
    /\ UNCHANGED <<dirs, inserts, should_batch_inserts, files, left, remote, faults, absent, null_remote>>

\* The loop over the listed files: in batching mode a file that does not read back is
\* marked as broken, the others are collected; otherwise each is a send of its own
Collect ==
    /\ pc = "collect"
    /\ \E n \in todo :
       /\ \A m \in todo : n <= m
       /\ todo' = todo \ {n}
       /\ IF should_batch_inserts /\ files[n] \in Damaged
          THEN markAsBroken(n) /\ UNCHANGED <<batch, pc>>
          ELSE /\ batch' = Append(batch, n)
               /\ pc' = IF ~should_batch_inserts THEN "send"
                        ELSE IF Len(batch') >= min_batched THEN "save" ELSE "collect"
               /\ UNCHANGED <<disk, broken>>
    /\ UNCHANGED <<batch_file, inserts, should_batch_inserts, files, left, remote, faults, absent, null_remote>>

\* The last batch, and the end of the pass
CollectEnd ==
    /\ pc = "collect" /\ todo = {}
    /\ IF batch # <<>>
       THEN pc' = "save" /\ UNCHANGED <<batch_file, files>>
       ELSE /\ pc' = "idle" /\ files' = Empty
            /\ batch_file' = IF should_batch_inserts THEN {} ELSE batch_file
    /\ UNCHANGED <<disk, broken, inserts, should_batch_inserts, todo, batch, left, remote, faults, absent, null_remote>>

\* Batch::send opens current_batch.txt, which truncates it, and writes it when it closes it
SaveBatch ==
    /\ \/ pc = "save" /\ batch_file' = {<<>>} /\ pc' = "write"
       \/ pc = "write" /\ batch_file' = {batch} /\ pc' = "send"
    /\ UNCHANGED <<disk, broken, inserts, should_batch_inserts, memory, remote, faults, absent, null_remote>>

\* What goes over the connection: the files up to the first one that is gone
Present ==
    CHOOSE k \in 0..Len(batch) : /\ \A i \in 1..k : batch[i] \in DOMAIN files
                                 /\ k < Len(batch) => batch[k + 1] \notin DOMAIN files
Sent      == [i \in 1..Present |-> files[batch[i]]]
ReadsBack == Range(Sent) \cap Damaged = {}

\* The remote server inserts what it got unless it has had just this insert before
Insert ==
    /\ Sent # <<>> /\ ReadsBack
    /\ seen' = seen \cup {Sent}
    /\ applied' = IF Sent \in seen THEN applied ELSE applied \o Sent

ForgetPass == files' = Empty /\ todo' = {} /\ batch' = <<>> /\ left' = <<>>

\* The end was acknowledged; if a file was gone the batch counts as broken all the same
SendBatch ==
    /\ pc = "send" /\ Insert
    /\ pc' = IF Present < Len(batch) THEN "mark" ELSE "remove"
    /\ left' = batch
    /\ UNCHANGED <<dirs, inserts, should_batch_inserts, files, todo, batch, faults, absent, null_remote>>

\* The first file is gone: no stream was made, and remote->writeSuffix() ends the server
SendNothing ==
    /\ pc = "send" /\ Sent = <<>>
    /\ null_remote' = TRUE
    /\ pc' = "down" /\ writing' = Empty /\ ForgetPass
    /\ UNCHANGED <<dirs, tmp, inserted, linked, file_names_increment,
                   should_batch_inserts, remote, faults, absent>>

\* A file that does not read back, here or on the other side, breaks the batch
SendDamaged ==
    /\ pc = "send" /\ ~ReadsBack
    /\ pc' = "mark"
    /\ left' = batch
    /\ UNCHANGED <<dirs, inserts, should_batch_inserts, files, todo, batch, remote, faults, absent, null_remote>>

\* Defective variant: after a network error the files count as sent
SendFails_Forgets ==
    /\ pc = "send" /\ faults < MaxFaults
    /\ faults' = faults + 1
    /\ Insert \/ UNCHANGED remote
    /\ pc' = "remove" /\ left' = batch
    /\ UNCHANGED <<dirs, inserts, should_batch_inserts, files, todo, batch, absent, null_remote>>

\* A network error, before the insert or in place of its answer, ends the pass.  The end of
\* the stream has the code ATTEMPT_TO_READ_AFTER_EOF, which is taken for a broken file
SendFails ==
    /\ pc = "send" /\ faults < MaxFaults
    /\ faults' = faults + 1
    /\ Insert \/ UNCHANGED remote
    /\ \/ pc' = "idle" /\ ForgetPass
       \/ pc' = "mark" /\ Sent # <<>> /\ left' = batch /\ UNCHANGED <<files, todo, batch>>
    /\ UNCHANGED <<dirs, inserts, should_batch_inserts, absent, null_remote>>

\* The files of the batch are removed, or moved to broken/, one after the other
CleanUp ==
    /\ pc \in {"remove", "mark"} /\ left # <<>>
    /\ left' = Tail(left)
    /\ IF Head(left) \notin DOMAIN files THEN UNCHANGED <<disk, broken>>
       ELSE IF pc = "mark" THEN markAsBroken(Head(left))
       ELSE disk' = Drop(disk, Head(left)) /\ UNCHANGED broken
    /\ UNCHANGED <<batch_file, inserts, should_batch_inserts, pc, files, todo, batch, remote, faults, absent, null_remote>>

\* The end of Batch::send truncates the file.  processFile rethrows what it marked a file for
BatchDone ==
    /\ pc \in {"remove", "mark"} /\ left = <<>>
    /\ batch' = <<>>
    /\ IF should_batch_inserts
       THEN batch_file' = {<<>>} /\ pc' = "collect" /\ UNCHANGED <<files, todo>>
       ELSE IF pc = "remove" THEN pc' = "collect" /\ UNCHANGED <<batch_file, files, todo>>
       ELSE pc' = "idle" /\ files' = Empty /\ todo' = {} /\ UNCHANGED batch_file
    /\ UNCHANGED <<disk, broken, inserts, should_batch_inserts, left, remote, faults, absent, null_remote>>

Crash ==
    /\ pc # "down" /\ faults < MaxFaults
    /\ faults' = faults + 1
    /\ pc' = "down"
    /\ writing' = Empty /\ ForgetPass
    /\ UNCHANGED <<dirs, tmp, inserted, linked, file_names_increment,
                   should_batch_inserts, remote, absent, null_remote>>

\* StorageDistributed::startup starts the monitors before it looks for the largest number
startup ==
    /\ pc = "down"
    /\ pc' = "idle"
    /\ file_names_increment' = -1
    /\ UNCHANGED <<dirs, tmp, inserted, linked, writing,
                   should_batch_inserts, memory, remote, faults, absent, null_remote>>

\* Defective variant: the subdirectories are not looked into
initializeFileNamesIncrement_TopOnly ==
    /\ pc # "down" /\ file_names_increment = -1
    /\ \E m \in {0} \cup DOMAIN disk :
          /\ \A n \in DOMAIN disk : n <= m
          /\ file_names_increment' = m
    /\ UNCHANGED <<dirs, tmp, inserted, linked, writing, monitor>>

initializeFileNamesIncrement ==
    /\ pc # "down" /\ file_names_increment = -1
    /\ LET numbers == DOMAIN disk \cup DOMAIN broken \cup DOMAIN tmp
       IN \E m \in {0} \cup numbers : /\ \A n \in numbers : n <= m
                                      /\ file_names_increment' = m
    /\ UNCHANGED <<dirs, tmp, inserted, linked, writing, monitor>>

Monitor ==
    \/ findFiles \/ Collect \/ CollectEnd \/ SaveBatch
    \/ SendBatch \/ SendNothing \/ SendDamaged \/ CleanUp \/ BatchDone

Next ==
    \/ WriteTmp \/ \E n \in DOMAIN writing : Link(n) \/ RemoveTmp(n)
    \/ Monitor \/ SendFails \/ Crash \/ startup \/ initializeFileNamesIncrement

\* The monitor's thread runs and a server that went down is started again; only so many
\* sends fail, then one comes through
Fairness == WF_vars(Monitor) /\ WF_vars(startup) /\ WF_vars(initializeFileNamesIncrement)

Spec == Init /\ [][Next]_vars /\ Fairness

-----------------------------------------------------------------------------

\* Types of the variables; numbers being written have their file in tmp/
TypeOK ==
    /\ \A f \in {tmp, disk, broken, files} :
          DOMAIN f \subseteq 1..MaxInserts /\ \A n \in DOMAIN f : f[n] \in 1..inserted
    /\ \A a, b \in batch_file : a = b
    /\ inserted \in 0..MaxInserts /\ file_names_increment \in -1..MaxInserts
    /\ linked \subseteq 1..inserted /\ DOMAIN writing \subseteq DOMAIN tmp
    /\ pc \in {"idle", "collect", "save", "write", "send", "remove", "mark", "down"}
    /\ todo \subseteq DOMAIN files /\ Range(left) \subseteq Range(batch)
    /\ faults \in 0..MaxFaults

\* Whatever fails and whenever the server goes down, a block that an INSERT has left to the
\* monitor waits for it, is kept in broken/, or is in the remote table
NothingLost == linked \subseteq Range(disk) \cup Range(broken) \cup Range(applied)

\* "For deduplication in Replicated tables to work, in case of error we must try to re-send
\* exactly the same batches": the remote table gets no block twice, as long as no batch of
\* current_batch.txt lists a file that is gone
AppliedOnce == absent \/ IsInjective(applied)

\* "To ensure global order of data blocks yet to be sent across server restarts": the files
\* that wait are numbered in the order their INSERTs came, and a number stands for one file
NumbersInOrder ==
    /\ TypeOK
    /\ \A m, n \in DOMAIN disk : m < n => disk[m] < disk[n]
    /\ DOMAIN disk \cap DOMAIN broken = {}

\* A block does not wait for ever, unless the monitor meets a batch whose first file is gone:
\* it ends up in the remote table or in broken/
Delivered ==
    [](~null_remote) => \A b \in 1..MaxInserts :
        b \in linked ~> b \in Range(broken) \cup Range(applied)
=============================================================================
