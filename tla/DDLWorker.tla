----------------------------- MODULE DDLWorker -----------------------------
(***************************************************************************)
(* Distributed DDL: a query with ON CLUSTER becomes an entry of a queue in *)
(* ZooKeeper, and the DDLWorker thread of every host of the cluster runs   *)
(* the entries in their order and reports in the entry's directory         *)
(* "finished".  An ALTER of a replicated table is run by one replica of    *)
(* the shard, under a lock of the entry.  Outdated entries are removed by  *)
(* whichever worker gets to it first, in one step of the model.            *)
(*                                                                         *)
(* Each request to ZooKeeper is a step, with what the worker then does on *)
(* its own.  The connection may be lost at any request, carried out or     *)
(* not; the ephemeral nodes of the session stay until ZooKeeper expires    *)
(* it.  A server may crash and start again.  Entries name all hosts, which *)
(* make one shard.                                                         *)
(***************************************************************************)
EXTENDS Integers, FiniteSets, Sequences

CONSTANTS
    Host,
    Alters,             \* entries that are an ALTER of a replicated table
    MaxTasks,           \* bound: entries enqueued, numbered from 1
    MaxFaults,          \* bound: crashes and lost connections
    max_tasks_in_queue

ASSUME DDLConstants ==
    /\ MaxTasks \in Nat /\ MaxFaults \in Nat /\ max_tasks_in_queue \in Nat \ {0}
    /\ Alters \subseteq 1..MaxTasks

VARIABLES
    enqueued,       \* number of entries ever made
    queue,          \* entries there are
    status_dirs,    \* entries with the directories active and finished
    active,         \* ephemeral nodes <<entry, host, session>> in active/
    finished,       \* nodes <<entry, host, status is 0>> in finished/
    shard_lock,     \* ephemeral nodes <<entry, host, session>>: the lock of an ALTER
    executed,       \* entries with the node "executed" of the shard
    worker,         \* state of each worker
    runs,           \* history: how often a host has run the query of an entry
    unrecorded,     \* history: entries run by a worker that could not take note of it
    faults

nodes == <<queue, status_dirs, active, finished, shard_lock, executed>>
vars  == <<enqueued, nodes, worker, runs, unrecorded, faults>>

Task == 1..MaxTasks

NewWorker(session) ==
    [pc |-> "list", session |-> session, event |-> FALSE, last_processed |-> 0, task |-> 0,
     was_executed |-> FALSE, ok |-> TRUE, server_startup |-> FALSE, todo |-> {}]

Init ==
    /\ enqueued = 0 /\ queue = {} /\ status_dirs = {} /\ active = {} /\ finished = {}
    /\ shard_lock = {} /\ executed = {}
    /\ worker = [h \in Host |-> NewWorker(1)]
    /\ runs = [t \in Task |-> [h \in Host |-> 0]] /\ unrecorded = {}
    /\ faults = 0

\* Defective variant: the entries are not sorted
Oldest_Unsorted(S) == CHOOSE t \in S : \A u \in S : u <= t

Oldest(S) == CHOOSE t \in S : \A u \in S : t <= u
Node(h, t) == <<t, h, worker[h].session>>
Of(S, t) == {n \in S : n[1] = t}

\* Defective variant: an event is missed by a worker that does not wait for it
Notified_IfIdle(w) == [h \in Host |-> [w[h] EXCEPT !.event = @ \/ w[h].pc = "idle"]]

\* The watch on the queue directory
Notified(w) == [h \in Host |-> [w[h] EXCEPT !.event = TRUE]]

\* Every session of a host has a number of its own
NewSession(h) == worker[h].session + 1

\* A lost connection: run() goes on with a new session and calls processTasks again
Recovering(h) ==
    [worker[h] EXCEPT !.pc = "list", !.session = NewSession(h), !.todo = {}, !.server_startup = FALSE]

LoseAnswer(h) ==
    /\ faults < MaxFaults /\ faults' = faults + 1
    /\ worker' = [worker EXCEPT ![h] = Recovering(h)]

\* The answer to a request takes the worker of h to the state w, or gets lost
Answer(h, w) ==
    \/ worker' = [worker EXCEPT ![h] = w] /\ UNCHANGED faults
    \/ LoseAnswer(h)

\* enqueueQuery makes the entry, and its directories in a second request that may fail
enqueueQuery ==
    /\ enqueued < MaxTasks
    /\ enqueued' = enqueued + 1
    /\ queue' = queue \cup {enqueued'}
    /\ worker' = Notified(worker)
    /\ \/ status_dirs' = status_dirs \cup {enqueued'} /\ UNCHANGED faults
       \/ faults < MaxFaults /\ faults' = faults + 1 /\ UNCHANGED status_dirs
    /\ UNCHANGED <<active, finished, shard_lock, executed, runs, unrecorded>>

\* The next entry of the loop of processTasks, or back in run() to wait for the watch
Onward(w) ==
    IF w.todo # {} THEN [w EXCEPT !.pc = "next"]
    ELSE [w EXCEPT !.pc = "idle", !.server_startup = FALSE]

NoTask(w) == [w EXCEPT !.task = 0, !.was_executed = FALSE, !.ok = TRUE]

\* processTasks lists the entries it has not looked at
processTasks(h) ==
    LET w == worker[h] IN
    /\ w.pc = "list" \/ (w.pc = "idle" /\ w.event)
    /\ worker' = [worker EXCEPT ![h] =
          Onward([w EXCEPT !.event = @ /\ w.pc # "idle", !.server_startup = (w.last_processed = 0),
                           !.todo = {t \in queue : t > w.last_processed}])]
    /\ UNCHANGED <<enqueued, nodes, runs, unrecorded, faults>>

\* Defective variant: the task from before the connection was lost is read again
NextTask_Fresh(h) ==
    LET w == worker[h]
        t == Oldest(w.todo)
    IN
    /\ w.pc = "next"
    /\ worker' = [worker EXCEPT ![h] =
          IF t \notin queue THEN Onward([NoTask(w) EXCEPT !.todo = @ \ {t}, !.last_processed = t])
          ELSE [NoTask(w) EXCEPT !.todo = @ \ {t}, !.task = t, !.pc = "check"]]
    /\ UNCHANGED <<enqueued, nodes, runs, unrecorded, faults>>

\* The next entry: the task kept from before the connection was lost, or a new one.
\* initAndCheckTask passes over an entry that has been deleted
NextTask(h) ==
    LET w == worker[h]
        t == Oldest(w.todo)
    IN
    /\ w.pc = "next"
    /\ worker' = [worker EXCEPT ![h] =
          IF w.task = t THEN [w EXCEPT !.todo = @ \ {t}, !.pc = "check"]
          ELSE IF t \notin queue
          THEN Onward([NoTask(w) EXCEPT !.todo = @ \ {t}, !.last_processed = t])
          ELSE [NoTask(w) EXCEPT !.todo = @ \ {t}, !.task = t, !.pc = "check"]]
    /\ UNCHANGED <<enqueued, nodes, runs, unrecorded, faults>>

Processed(w) == Onward([NoTask(w) EXCEPT !.last_processed = w.task])

\* An entry that is in finished/ must have been there before the server started, or have been
\* committed by this worker with the answer lost
AlreadyProcessed(h) == \E ok \in BOOLEAN : <<worker[h].task, h, ok>> \in finished

CheckFinished(h) ==
    LET w == worker[h] IN
    /\ w.pc = "check" /\ AlreadyProcessed(h)
    /\ worker' = [worker EXCEPT ![h] =
          IF w.server_startup \/ w.was_executed THEN Processed(w)
          ELSE [w EXCEPT !.pc = "terminated"]]
    /\ UNCHANGED <<enqueued, nodes, runs, unrecorded, faults>>

\* processTask makes its node in active/; one that is there already will do, and the
\* directories are made when they are missing, but only once.  Then tryExecuteQuery runs
\* the query, unless it is an ALTER or has been run before the connection was lost
AfterActive(h) ==
    LET w == worker[h]
        now == ~w.was_executed /\ w.task \notin Alters
    IN
    /\ runs' = IF now THEN [runs EXCEPT ![w.task][h] = @ + 1] ELSE runs
    /\ worker' = [worker EXCEPT ![h].pc = IF now \/ w.was_executed THEN "commit" ELSE "alter",
                                ![h].was_executed = @ \/ now]

CreateActive(h) ==
    LET w == worker[h]
        there == \E n \in Of(active, w.task) : n[2] = h
    IN
    /\ (w.pc = "check" /\ ~AlreadyProcessed(h)) \/ w.pc = "again"
    /\ IF w.task \in status_dirs /\ ~there
       THEN /\ active' = active \cup {Node(h, w.task)}
            /\ \/ AfterActive(h) /\ UNCHANGED faults
               \/ LoseAnswer(h) /\ UNCHANGED runs
       ELSE /\ IF there /\ w.pc = "check" THEN AfterActive(h)
               ELSE /\ worker' = [worker EXCEPT ![h].pc = IF w.pc = "again" THEN "terminated" ELSE "dirs"]
                    /\ UNCHANGED runs
            /\ UNCHANGED <<active, faults>>
    /\ UNCHANGED <<enqueued, queue, status_dirs, finished, shard_lock, executed, unrecorded>>

createStatusDirs(h) ==
    LET w == worker[h] IN
    /\ w.pc = "dirs"
    /\ status_dirs' = status_dirs \cup ({w.task} \cap queue)
    /\ Answer(h, [w EXCEPT !.pc = IF w.task \in queue THEN "again" ELSE "terminated"])
    /\ UNCHANGED <<enqueued, queue, active, finished, shard_lock, executed, runs, unrecorded>>

\* processTaskAlter: somebody has run it, or it is run under the lock.  After ten attempts
\* to take the lock the task is reported as failed
AlterDone(h, ok) ==
    worker' = [worker EXCEPT ![h].pc = "commit", ![h].was_executed = TRUE, ![h].ok = ok]

AlterExecuted(h) ==
    LET w == worker[h] IN
    /\ w.pc = "alter" /\ w.task \in executed
    /\ AlterDone(h, TRUE)
    /\ UNCHANGED <<enqueued, nodes, runs, unrecorded, faults>>

TryLock(h) ==
    LET w == worker[h] IN
    /\ w.pc = "alter" /\ w.task \notin executed /\ Of(shard_lock, w.task) = {}
    /\ shard_lock' = shard_lock \cup {Node(h, w.task)}
    /\ \/ /\ runs' = [runs EXCEPT ![w.task][h] = @ + 1]
          /\ worker' = [worker EXCEPT ![h].pc = "alter_executed"]
          /\ UNCHANGED faults
       \/ LoseAnswer(h) /\ UNCHANGED runs
    /\ UNCHANGED <<enqueued, queue, status_dirs, active, finished, executed, unrecorded>>

\* Defective variant: the attempts end without a status
GiveUp_Silent(h) ==
    LET w == worker[h] IN
    /\ w.pc = "alter" /\ w.task \notin executed /\ Of(shard_lock, w.task) # {}
    /\ AlterDone(h, TRUE)
    /\ UNCHANGED <<enqueued, nodes, runs, unrecorded, faults>>

GiveUp(h) ==
    LET w == worker[h] IN
    /\ w.pc = "alter" /\ w.task \notin executed /\ Of(shard_lock, w.task) # {}
    /\ AlterDone(h, FALSE)
    /\ UNCHANGED <<enqueued, nodes, runs, unrecorded, faults>>

\* The entry was removed after the worker had made the directory of the shard in it
ShardGone(h) ==
    LET w == worker[h] IN
    /\ w.pc \in {"alter", "alter_executed"} /\ w.task \notin queue
    /\ worker' = [worker EXCEPT ![h].pc = "terminated"]
    /\ UNCHANGED <<enqueued, nodes, runs, unrecorded, faults>>

\* The node "executed" is made and the lock released
CreateExecuted(h) ==
    LET w == worker[h] IN
    /\ w.pc = "alter_executed"
    /\ executed' = executed \cup {w.task}
    /\ \/ LoseAnswer(h) /\ UNCHANGED shard_lock
       \/ /\ shard_lock' = shard_lock \ {Node(h, w.task)}
          /\ IF w.task \in executed
             THEN worker' = [worker EXCEPT ![h].pc = "terminated"]
             ELSE AlterDone(h, TRUE)
          /\ UNCHANGED faults
    /\ UNCHANGED <<enqueued, queue, status_dirs, active, finished, runs, unrecorded>>

\* The node in active/ gives way to one in finished/; without it the request fails
Commit(h) ==
    LET w == worker[h]
        mine == {n \in Of(active, w.task) : n[2] = h}
    IN
    /\ w.pc = "commit"
    /\ \/ /\ mine # {} /\ w.task \in status_dirs
          /\ active' = active \ mine
          /\ finished' = finished \cup {<<w.task, h, w.ok>>}
          /\ Answer(h, Processed(w))
       \/ /\ mine = {} \/ w.task \notin status_dirs
          /\ worker' = [worker EXCEPT ![h].pc = "terminated"]
          /\ UNCHANGED <<active, finished, faults>>
    /\ UNCHANGED <<enqueued, queue, status_dirs, shard_lock, executed, runs, unrecorded>>

\* run() wakes up and, unless it is too early, cleans the queue
Outdated(t) == Cardinality({u \in queue : u >= t}) > max_tasks_in_queue

cleanupQueue(h) ==
    LET gone == {t \in queue : Outdated(t) /\ Of(active, t) = {}}
        Kept(S) == {n \in S : n[1] \notin gone}
    IN
    /\ worker[h].pc = "idle" /\ worker[h].event
    /\ queue' = queue \ gone
    /\ status_dirs' = status_dirs \ gone
    /\ executed' = executed \ gone
    /\ finished' = Kept(finished)
    /\ shard_lock' = Kept(shard_lock)
    /\ worker' = [(IF gone = {} THEN worker ELSE Notified(worker)) EXCEPT
          ![h].pc = "list", ![h].event = (gone # {})]
    /\ UNCHANGED <<enqueued, active, runs, unrecorded, faults>>

\* A request that does not get to ZooKeeper
ConnectionLoss(h) ==
    LET w == worker[h] IN
    /\ faults < MaxFaults /\ faults' = faults + 1
    /\ w.pc \notin {"idle", "terminated"}
    /\ worker' = [worker EXCEPT ![h] = Recovering(h)]
    /\ unrecorded' = IF w.pc = "alter_executed" THEN unrecorded \cup {w.task} ELSE unrecorded
    /\ UNCHANGED <<enqueued, nodes, runs>>

\* Sessions whose connection was lost or whose server crashed run out
SessionExpires(h) ==
    LET Live(S) == {n \in S : n[2] = h => n[3] = worker[h].session}
    IN
    /\ Live(active) # active \/ Live(shard_lock) # shard_lock
    /\ active' = Live(active)
    /\ shard_lock' = Live(shard_lock)
    /\ UNCHANGED <<enqueued, queue, status_dirs, finished, executed, worker, runs, unrecorded, faults>>

Crash(h) ==
    LET w == worker[h] IN
    /\ faults < MaxFaults /\ faults' = faults + 1
    /\ worker' = [worker EXCEPT ![h] = NewWorker(NewSession(h))]
    /\ unrecorded' = IF w.pc = "alter_executed" \/ (w.was_executed /\ w.task \notin Alters)
                     THEN unrecorded \cup {w.task} ELSE unrecorded
    /\ UNCHANGED <<enqueued, nodes, runs>>

WorkerStep(h) ==
    \/ processTasks(h) \/ NextTask(h) \/ CheckFinished(h) \/ CreateActive(h) \/ createStatusDirs(h)
    \/ AlterExecuted(h) \/ TryLock(h) \/ GiveUp(h) \/ ShardGone(h) \/ CreateExecuted(h)
    \/ Commit(h) \/ cleanupQueue(h)

Next ==
    \/ enqueueQuery
    \/ \E h \in Host : WorkerStep(h) \/ ConnectionLoss(h) \/ SessionExpires(h) \/ Crash(h)

\* The thread of each worker runs, and sessions without a client run out
Fairness == \A h \in Host : WF_vars(WorkerStep(h)) /\ WF_vars(SessionExpires(h))

Spec == Init /\ [][Next]_vars /\ Fairness

-----------------------------------------------------------------------------

\* Types of the variables; ephemeral nodes belong to sessions there have been
TypeOK ==
    /\ enqueued \in 0..MaxTasks /\ queue \subseteq 1..enqueued
    /\ status_dirs \subseteq queue /\ executed \subseteq Alters
    /\ \A n \in active \cup shard_lock : n[1] \in Task /\ n[3] \in 1..MaxFaults + 1
    /\ finished \subseteq Task \X Host \X BOOLEAN
    /\ \A h \in Host : worker[h].last_processed \in 0..enqueued /\ worker[h].task \in 0..enqueued
    /\ unrecorded \subseteq Task /\ faults \in 0..MaxFaults

\* A lost connection never makes a host run a query twice, and never makes a second replica
\* run an ALTER: only a worker that could not take note of what it has run does ("FIXME: if
\* server fails right here, the task will be executed twice"), or one whose entry was removed
\* under it
RunOnce ==
    TypeOK /\ \A t \in queue \ unrecorded :
        /\ \A h \in Host : runs[t][h] <= 1
        /\ t \in Alters => \A g, h \in Host : runs[t][g] = 1 /\ runs[t][h] = 1 => g = h

\* A host that reports success has run the query, or another replica has run the ALTER
SuccessMeansRun ==
    \A n \in finished : n[3] =>
        \E h \in Host : runs[n[1]][h] > 0 /\ (n[1] \notin Alters => h = n[2])

\* "The order for executing queries within a single host is guaranteed"
InOrder ==
    [][\A t \in Task, h \in Host :
          runs'[t][h] # runs[t][h] => \A u \in t + 1..MaxTasks : runs[u][h] = 0]_vars

Ends(t, h) == \E ok \in BOOLEAN : <<t, h, ok>> \in finished

\* In the end every entry has been run by every host, has been removed as outdated, or the
\* worker of the host has terminated
TasksEnd == <>[]\A t \in queue, h \in Host : Ends(t, h) \/ worker[h].pc = "terminated"
=============================================================================
