-------------------------- MODULE DDLWorkerProofs --------------------------
(***************************************************************************)
(* Proofs about DDLWorker, for any hosts, any number of entries of either  *)
(* kind, any length of the queue and any number of crashes and lost        *)
(* connections.                                                            *)
(***************************************************************************)
EXTENDS DDLWorker, TLAPS

Running == {"again", "alter", "alter_executed", "commit"}
Working == {"check", "dirs"} \cup Running

Worker ==
    [pc : {"list", "next", "idle", "terminated"} \cup Working, session : Nat \ {0}, event : BOOLEAN,
     last_processed : Nat, task : Nat, was_executed : BOOLEAN, ok : BOOLEAN, server_startup : BOOLEAN,
     todo : SUBSET Nat]

Types ==
    /\ enqueued \in Nat /\ enqueued <= MaxTasks /\ queue \subseteq 1..enqueued
    /\ status_dirs \subseteq queue /\ executed \subseteq Alters
    /\ active \subseteq Task \X Host \X (1..MaxFaults + 1) /\ shard_lock \subseteq Task \X Host \X (1..MaxFaults + 1)
    /\ \A n \in active : n[1] \in queue
    /\ finished \subseteq Task \X Host \X BOOLEAN
    /\ worker \in [Host -> Worker]
    /\ runs \in [Task -> [Host -> Nat]]
    /\ \A t \in Task, h \in Host : runs[t][h] > 0 => t <= enqueued
    /\ unrecorded \subseteq Task /\ faults \in Nat /\ faults <= MaxFaults

\* Values that a worker has read are not ahead of the queue and of the faults
Bounded(h) ==
    LET w == worker[h] IN
    /\ w.session <= faults + 1 /\ w.last_processed <= enqueued /\ w.task <= enqueued
    /\ \A t \in w.todo : t > 0 /\ t <= enqueued

\* A worker takes the entries in their order, and what is behind it is in finished/
Ordered(h) ==
    LET w == worker[h] IN
    /\ \A t \in queue : t <= w.last_processed => Ends(t, h)
    /\ \A t \in w.todo : t > w.last_processed
    /\ w.task # 0 => w.task > w.last_processed /\ \A t \in queue : t > w.last_processed => t >= w.task
    /\ w.pc \in Working => w.task # 0 /\ \A t \in w.todo : t > w.task
    /\ w.pc \in Working \cup {"next"} =>
          \A t \in queue : t > w.last_processed =>
              t \in w.todo \/ (w.pc \in Working /\ t = w.task) \/ \A u \in w.todo : u < t
    /\ w.pc = "next" =>
          /\ w.todo # {}
          /\ w.task # 0 => (\A t \in w.todo : t >= w.task) /\ (w.task \in queue => w.task \in w.todo)

\* What a worker knows of the task it works on, or has kept when the connection was lost
Doing(h) ==
    LET w == worker[h] IN
    /\ w.was_executed => w.task # 0
    /\ w.pc \in Working \ {"check"} => ~Ends(w.task, h)
    /\ w.pc \in Running => \A u \in Task : u > w.task => runs[u][h] = 0
    /\ w.pc \in {"alter", "alter_executed"} => w.task \in Alters
    /\ w.pc = "alter_executed" => runs[w.task][h] > 0 /\ (w.task \in queue => Node(h, w.task) \in shard_lock)
    /\ w.pc = "commit" => w.was_executed
    /\ w.was_executed /\ w.ok => \E g \in Host : runs[w.task][g] > 0 /\ (w.task \notin Alters => g = h)

\* What it means that a host has run an entry of the queue
Ran(h) ==
    /\ \A u \in Task : runs[u][h] > 0 => \A t \in queue : t < u => Ends(t, h)
    /\ \A t \in queue \ unrecorded : runs[t][h] > 0 =>
          IF t \in Alters THEN t \in executed \/ (worker[h].pc = "alter_executed" /\ worker[h].task = t)
          ELSE (worker[h].task = t /\ worker[h].was_executed) \/ Ends(t, h)

Once ==
    \A t \in queue \ unrecorded :
        /\ \A h \in Host : runs[t][h] <= 1
        /\ t \in Alters => \A g, h \in Host : runs[t][g] = 1 /\ runs[t][h] = 1 => g = h

ExecutedRan == \A t \in executed : \E h \in Host : runs[t][h] > 0

Local(h) == Bounded(h) /\ Ordered(h) /\ Doing(h) /\ Ran(h)
WInv == Types /\ (\A h \in Host : Local(h)) /\ Once /\ ExecutedRan /\ SuccessMeansRun

-----------------------------------------------------------------------------
\* Steps after which a worker is where it was, or rests

LEMMA WorkerTypes ==
    ASSUME Types, NEW h \in Host
    PROVE  /\ worker[h] \in Worker /\ worker[h].session \in Nat \ {0}
           /\ worker[h].last_processed \in Nat /\ worker[h].task \in Nat /\ worker[h].todo \subseteq Nat
           /\ worker[h].was_executed \in BOOLEAN /\ worker[h].ok \in BOOLEAN
           /\ worker[h].event \in BOOLEAN /\ worker[h].server_startup \in BOOLEAN
           /\ worker[h].pc \in {"list", "next", "idle", "terminated"} \cup Working
<1>1. worker[h] \in Worker
  BY Zenon DEF Types
<1> QED
  BY Zenon, <1>1 DEF Worker

LEMMA TaskTypes ==
    ASSUME Types, NEW h \in Host, Bounded(h), worker[h].task # 0
    PROVE  worker[h].task \in Task
<1>1. worker[h].task \in Nat /\ worker[h].task <= enqueued
  BY Zenon, WorkerTypes DEF Bounded
<1>2. enqueued \in Nat /\ enqueued <= MaxTasks /\ MaxTasks \in Nat
  BY Zenon, DDLConstants DEF Types
<1> QED
  BY <1>1, <1>2 DEF Task

LEMMA QueueTypes ==
    ASSUME Types
    PROVE  queue \subseteq Task /\ queue \subseteq Nat /\ Task \subseteq Nat /\ \A t \in queue : t > 0 /\ t <= enqueued
BY DDLConstants DEF Types, Task

\* The worker of g keeps its task, and stays where it was, stops, or starts from the beginning
Keeps(g) ==
    /\ worker'[g].last_processed = worker[g].last_processed /\ worker'[g].task = worker[g].task
    /\ worker'[g].was_executed = worker[g].was_executed /\ worker'[g].ok = worker[g].ok
    /\ worker'[g].todo \subseteq worker[g].todo
    /\ \/ /\ worker'[g].pc = worker[g].pc /\ worker'[g].todo = worker[g].todo
          /\ worker'[g].session = worker[g].session
       \/ /\ worker'[g].pc \in {"list", "idle", "terminated"} /\ worker'[g].session <= faults' + 1
          /\ worker[g].pc = "alter_executed" => worker[g].task \in executed' \cup unrecorded' \/ worker[g].task \notin queue'

\* What a worker knows of the nodes and of the others stays true
Quiet(g) ==
    /\ queue' \subseteq queue /\ enqueued' = enqueued /\ faults' >= faults /\ faults' \in Nat
    /\ unrecorded \subseteq unrecorded' /\ executed \cap queue' \subseteq executed'
    /\ \A t \in Task : /\ runs'[t][g] = runs[t][g]
                       /\ \A h \in Host : runs[t][h] > 0 => runs'[t][h] > 0
    /\ \A t \in queue' : Ends(t, g) => Ends(t, g)'
    /\ worker'[g].pc = worker[g].pc =>
          /\ \A t : Ends(t, g)' => Ends(t, g)
          /\ \A n \in shard_lock : n[1] \in queue' /\ n[2] = g /\ n[3] = worker[g].session => n \in shard_lock'

LEMMA LocalKeeps ==
    ASSUME WInv, NEW g \in Host, Keeps(g), Quiet(g)
    PROVE  Local(g)'
<1>0. Types /\ Bounded(g) /\ Ordered(g) /\ Doing(g) /\ Ran(g)
  BY Zenon DEF WInv, Local
<1>1. /\ worker[g].session \in Nat /\ worker[g].last_processed \in Nat /\ worker[g].task \in Nat
      /\ worker[g].todo \subseteq Nat /\ faults \in Nat /\ enqueued \in Nat
      /\ queue \subseteq Task /\ queue \subseteq Nat /\ Task \subseteq Nat
  BY Zenon, <1>0, WorkerTypes, QueueTypes DEF Types
<1>2. Bounded(g)'
  <2>1. worker'[g].session <= faults' + 1
    BY <1>0, <1>1 DEF Bounded, Keeps, Quiet
  <2>2. worker'[g].last_processed <= enqueued' /\ worker'[g].task <= enqueued'
    BY Zenon, <1>0 DEF Bounded, Keeps, Quiet
  <2>3. \A t \in worker'[g].todo : t > 0 /\ t <= enqueued'
    BY Zenon, <1>0 DEF Bounded, Keeps, Quiet
  <2> QED
    BY Zenon, <2>1, <2>2, <2>3 DEF Bounded
<1>3. worker'[g].pc = worker[g].pc \/ worker'[g].pc \in {"list", "idle", "terminated"}
  BY Zenon DEF Keeps
<1>4. worker'[g].pc \in Working \cup {"next"} => worker'[g].pc = worker[g].pc /\ worker'[g].todo = worker[g].todo
  BY Zenon DEF Keeps, Working, Running
<1>5. Ordered(g)'
  <2>1. \A t \in queue' : t <= worker'[g].last_processed => Ends(t, g)'
    BY Zenon, <1>0 DEF Ordered, Keeps, Quiet
  <2>2. \A t \in worker'[g].todo : t > worker'[g].last_processed
    BY Zenon, <1>0 DEF Ordered, Keeps
  <2>3. worker'[g].task # 0 => /\ worker'[g].task > worker'[g].last_processed
                               /\ \A t \in queue' : t > worker'[g].last_processed => t >= worker'[g].task
    BY Zenon, <1>0 DEF Ordered, Keeps, Quiet
  <2>4. worker'[g].pc \in Working => worker'[g].task # 0 /\ \A t \in worker'[g].todo : t > worker'[g].task
    BY Zenon, <1>0, <1>4 DEF Ordered, Keeps
  <2>5. worker'[g].pc \in Working \cup {"next"} =>
          \A t \in queue' : t > worker'[g].last_processed =>
              t \in worker'[g].todo \/ (worker'[g].pc \in Working /\ t = worker'[g].task) \/ \A u \in worker'[g].todo : u < t
    <3>1. \A t \in queue' : t \in queue
      BY Zenon DEF Quiet
    <3>2. worker'[g].last_processed = worker[g].last_processed /\ worker'[g].task = worker[g].task
      BY Zenon DEF Keeps
    <3> QED
      BY Zenon, <1>0, <1>4, <3>1, <3>2 DEF Ordered
  <2>6. worker'[g].pc = "next" =>
          /\ worker'[g].todo # {}
          /\ worker'[g].task # 0 => /\ \A t \in worker'[g].todo : t >= worker'[g].task
                                    /\ worker'[g].task \in queue' => worker'[g].task \in worker'[g].todo
    <3>1. worker'[g].task = worker[g].task /\ queue' \subseteq queue
      BY Zenon DEF Keeps, Quiet
    <3> QED
      BY Zenon, <1>0, <1>4, <3>1 DEF Ordered
  <2> QED
    BY Zenon, <2>1, <2>2, <2>3, <2>4, <2>5, <2>6 DEF Ordered
<1>6. Doing(g)'
  <2>0. /\ worker'[g].task = worker[g].task /\ worker'[g].was_executed = worker[g].was_executed
        /\ worker'[g].ok = worker[g].ok
    BY Zenon DEF Keeps
  <2>1. worker'[g].was_executed => worker'[g].task # 0
    BY Zenon, <1>0, <2>0 DEF Doing
  <2>2. worker'[g].pc \in Working \ {"check"} => ~Ends(worker[g].task, g)'
    <3>1. worker'[g].pc \in Working \ {"check"} => ~Ends(worker[g].task, g)
      BY Zenon, <1>0, <1>4 DEF Doing
    <3>2. ASSUME NEW t, t = worker[g].task, ~Ends(t, g), worker'[g].pc \in Working
          PROVE  ~Ends(worker[g].task, g)'
      <4>1. ~Ends(t, g)'
        BY Zenon, <1>4, <3>2 DEF Quiet
      <4> QED
        BY Zenon, <2>0, <3>2, <4>1 DEF Ends
    <3> QED
      BY Zenon, <3>1, <3>2
  <2>3. worker'[g].pc \in Running => \A u \in Task : u > worker'[g].task => runs'[u][g] = 0
    BY Zenon, <1>0, <1>4, <2>0 DEF Doing, Quiet, Working
  <2>4. worker'[g].pc \in {"alter", "alter_executed"} => worker'[g].task \in Alters
    BY Zenon, <1>0, <1>4, <2>0 DEF Doing, Working, Running
  <2>5. ASSUME worker'[g].pc = "alter_executed"
        PROVE  runs'[worker'[g].task][g] > 0 /\ (worker'[g].task \in queue' => Node(g, worker[g].task)' \in shard_lock')
    <3>1. worker[g].pc = "alter_executed" /\ worker'[g].session = worker[g].session
      BY Zenon, <2>5 DEF Keeps
    <3>2. worker[g].task \in Task
      BY Zenon, <1>0, <3>1, TaskTypes DEF Ordered, Working, Running
    <3>3. runs[worker[g].task][g] > 0 /\ (worker[g].task \in queue => <<worker[g].task, g, worker[g].session>> \in shard_lock)
      BY Zenon, <1>0, <3>1 DEF Doing, Node
    <3>4. runs'[worker[g].task][g] > 0
      BY Zenon, <3>2, <3>3 DEF Quiet
    <3>5. worker[g].task \in queue' => <<worker[g].task, g, worker[g].session>> \in shard_lock'
      BY Zenon, <2>5, <3>1, <3>3 DEF Quiet
    <3> QED
      BY Zenon, <2>0, <3>1, <3>4, <3>5 DEF Node
  <2>6. worker'[g].pc = "commit" => worker'[g].was_executed
    BY Zenon, <1>0, <1>4, <2>0 DEF Doing, Working, Running
  <2>7. ASSUME worker'[g].was_executed, worker'[g].ok
        PROVE  \E h \in Host : runs'[worker'[g].task][h] > 0 /\ (worker'[g].task \notin Alters => h = g)
    <3>1. PICK h \in Host : runs[worker[g].task][h] > 0 /\ (worker[g].task \notin Alters => h = g)
      BY Zenon, <1>0, <2>0, <2>7 DEF Doing
    <3>2. worker[g].task \in Task
      BY Zenon, <1>0, <2>0, <2>1, <2>7, TaskTypes
    <3>3. runs'[worker[g].task][h] > 0
      BY Zenon, <3>1, <3>2 DEF Quiet
    <3> QED
      BY Zenon, <2>0, <3>1, <3>3
  <2> QED
    BY Zenon, <2>1, <2>2, <2>3, <2>4, <2>5, <2>6, <2>7 DEF Doing
<1>7. Ran(g)'
  <2>1. \A u \in Task : runs'[u][g] > 0 => \A t \in queue' : t < u => Ends(t, g)'
    BY Zenon, <1>0 DEF Ran, Quiet
  <2>2. ASSUME NEW t \in queue' \ unrecorded', runs'[t][g] > 0
        PROVE  IF t \in Alters THEN t \in executed' \/ (worker'[g].pc = "alter_executed" /\ worker'[g].task = t)
               ELSE (worker'[g].task = t /\ worker'[g].was_executed) \/ Ends(t, g)'
    <3>1. t \in queue \ unrecorded /\ runs[t][g] > 0
      BY Zenon, <1>1, <2>2 DEF Quiet
    <3>2. CASE t \in Alters
      <4>1. t \in executed => t \in executed'
        BY Zenon, <2>2 DEF Quiet
      <4>2. worker[g].pc = "alter_executed" /\ worker[g].task = t =>
              t \in executed' \/ (worker'[g].pc = "alter_executed" /\ worker'[g].task = t)
        BY Zenon, <2>2 DEF Keeps
      <4> QED
        BY Zenon, <1>0, <3>1, <3>2, <4>1, <4>2 DEF Ran
    <3>3. CASE t \notin Alters
      BY Zenon, <1>0, <2>2, <3>1, <3>3 DEF Ran, Keeps, Quiet
    <3> QED
      BY Zenon, <3>2, <3>3
  <2> QED
    BY Zenon, <2>1, <2>2 DEF Ran
<1> QED
  BY Zenon, <1>2, <1>5, <1>6, <1>7 DEF Local

\* Nothing is run and no result is added
LEMMA ResultsKeep ==
    ASSUME WInv, queue' \subseteq queue, runs' = runs, unrecorded \subseteq unrecorded',
           executed' \subseteq executed, finished' \subseteq finished
    PROVE  Once' /\ ExecutedRan' /\ SuccessMeansRun'
<1>0. Once /\ ExecutedRan /\ SuccessMeansRun
  BY Zenon DEF WInv
<1>1. Once'
  BY Zenon, <1>0 DEF Once
<1>2. ExecutedRan'
  BY Zenon, <1>0 DEF ExecutedRan
<1>3. SuccessMeansRun'
  BY Zenon, <1>0 DEF SuccessMeansRun
<1> QED
  BY Zenon, <1>1, <1>2, <1>3

\* A step of the worker of h leaves the others as they are
LEMMA Change ==
    ASSUME Types, NEW h \in Host, NEW w, worker' = [worker EXCEPT ![h] = w]
    PROVE  /\ worker'[h] = w /\ \A g \in Host \ {h} : worker'[g] = worker[g]
           /\ w \in Worker => worker' \in [Host -> Worker]
BY Zenon DEF Types

LEMMA OthersKeep ==
    ASSUME WInv, NEW h \in Host, NEW g \in Host \ {h}, worker'[g] = worker[g], Quiet(g)
    PROVE  Local(g)'
<1>1. Keeps(g)
  BY Zenon DEF Keeps
<1> QED
  BY Zenon, <1>1, LocalKeeps

\* A task that a worker is done with, and what it does next
LEMMA NoTaskFields ==
    ASSUME NEW w \in Worker
    PROVE  /\ NoTask(w) \in Worker /\ NoTask(w).task = 0 /\ NoTask(w).was_executed = FALSE /\ NoTask(w).ok = TRUE
           /\ NoTask(w).session = w.session /\ NoTask(w).last_processed = w.last_processed
           /\ NoTask(w).todo = w.todo
BY Zenon DEF NoTask, Worker

LEMMA OnwardFields ==
    ASSUME NEW w \in Worker
    PROVE  /\ Onward(w) \in Worker /\ Onward(w).pc \in {"next", "idle"} /\ (Onward(w).pc = "next" => w.todo # {})
           /\ Onward(w).session = w.session /\ Onward(w).last_processed = w.last_processed
           /\ Onward(w).task = w.task /\ Onward(w).was_executed = w.was_executed /\ Onward(w).ok = w.ok
           /\ Onward(w).todo = w.todo
<1>1. CASE w.todo # {}
  BY Zenon, <1>1 DEF Onward, Worker
<1>2. CASE w.todo = {}
  BY Zenon, <1>2 DEF Onward, Worker
<1> QED
  BY Zenon, <1>1, <1>2

\* Only the worker of h changes
LEMMA WorkerOnly ==
    ASSUME WInv, NEW h \in Host, NEW w \in Worker, worker' = [worker EXCEPT ![h] = w],
           UNCHANGED <<enqueued, nodes, runs, unrecorded, faults>>, Local(h)'
    PROVE  WInv'
<1>0. Types
  BY Zenon DEF WInv
<1>1. \A g \in Host \ {h} : worker'[g] = worker[g]
  BY Zenon, <1>0, Change
<1>2. worker' \in [Host -> Worker]
  BY Zenon, <1>0, Change
<1>3. Types'
  BY Zenon, <1>0, <1>2 DEF Types, nodes
<1>4. ASSUME NEW g \in Host \ {h}
      PROVE  Local(g)'
  <2>0. /\ queue' = queue /\ enqueued' = enqueued /\ faults' = faults /\ faults \in Nat /\ runs' = runs
        /\ unrecorded' = unrecorded /\ executed' = executed /\ shard_lock' = shard_lock
    BY Zenon, <1>0 DEF Types, nodes
  <2>2. \A t : Ends(t, g)' <=> Ends(t, g)
    BY Zenon DEF Ends, nodes
  <2>1. Quiet(g)
    BY <2>0, <2>2 DEF Quiet
  <2> QED
    BY Zenon, <1>1, <2>1, OthersKeep
<1>5. Once' /\ ExecutedRan' /\ SuccessMeansRun'
  BY Zenon, ResultsKeep DEF nodes
<1> QED
  BY Zenon, <1>3, <1>4, <1>5 DEF WInv

\* The worker of h stops, or starts from the beginning
LEMMA RestKeeps ==
    ASSUME WInv, NEW h \in Host, NEW w \in Worker, worker' = [worker EXCEPT ![h] = w],
           w.last_processed = worker[h].last_processed, w.task = worker[h].task,
           w.was_executed = worker[h].was_executed, w.ok = worker[h].ok, w.todo \subseteq worker[h].todo,
           w.pc \in {"list", "idle", "terminated"}, w.session <= faults' + 1,
           worker[h].pc = "alter_executed" =>
               worker[h].task \in executed' \cup unrecorded' \/ worker[h].task \notin queue',
           \A g \in Host : Quiet(g)
    PROVE  worker' \in [Host -> Worker] /\ \A g \in Host : Local(g)'
<1>0. Types
  BY Zenon DEF WInv
<1>1. worker'[h] = w /\ \A g \in Host \ {h} : worker'[g] = worker[g]
  BY Zenon, <1>0, Change
<1>2. worker' \in [Host -> Worker]
  BY Zenon, <1>0, Change
<1>3. \A g \in Host \ {h} : Local(g)'
  BY Zenon, <1>1, OthersKeep
<1>4. Keeps(h)
  BY Zenon, <1>1 DEF Keeps
<1>5. Local(h)'
  BY Zenon, <1>4, LocalKeeps
<1> QED
  BY Zenon, <1>2, <1>3, <1>5

\* No entry after one that is in the queue and not in finished/ has been run
LEMMA NoLaterRun ==
    ASSUME WInv, NEW h \in Host, NEW t \in queue, ~Ends(t, h)
    PROVE  \A u \in Task : u > t => runs[u][h] = 0
<1>1. Types /\ Ran(h)
  BY Zenon DEF WInv, Local
<1>2. \A u \in Task : runs[u][h] \in Nat /\ u \in Nat
  BY <1>1, DDLConstants DEF Types, Task
<1>3. t \in Nat
  BY Zenon, <1>1, QueueTypes
<1> QED
  BY <1>1, <1>2, <1>3 DEF Ran

\* Everything in the queue before the task of a worker is in finished/
LEMMA EarlierEnds ==
    ASSUME WInv, NEW h \in Host, worker[h].task # 0, NEW t \in queue, t < worker[h].task
    PROVE  Ends(t, h)
<1>1. Types /\ Ordered(h)
  BY Zenon DEF WInv, Local
<1>2. t \in Nat /\ worker[h].last_processed \in Nat /\ worker[h].task \in Nat
  BY Zenon, <1>1, QueueTypes, WorkerTypes
<1> QED
  BY <1>1, <1>2 DEF Ordered

\* The worker is done with a task that is in finished/
LEMMA ProcessedKeeps ==
    ASSUME WInv, NEW h \in Host, worker[h].pc \in Working \ {"alter_executed"},
           worker'[h] = Processed(worker[h]), \E ok \in BOOLEAN : <<worker[h].task, h, ok>> \in finished',
           finished \subseteq finished',
           UNCHANGED <<enqueued, queue, executed, runs, unrecorded, faults>>
    PROVE  Local(h)' /\ worker'[h] \in Worker
<1>0. Types /\ Bounded(h) /\ Ordered(h) /\ Doing(h) /\ Ran(h)
  BY Zenon DEF WInv, Local
<1>1. /\ worker[h].last_processed \in Nat /\ worker[h].task \in Nat /\ worker[h].todo \subseteq Nat
      /\ queue \subseteq Nat
  BY Zenon, <1>0, WorkerTypes, QueueTypes
<1>2. /\ worker'[h].pc \in {"next", "idle"} /\ (worker'[h].pc = "next" => worker[h].todo # {})
      /\ worker'[h].session = worker[h].session /\ worker'[h].last_processed = worker[h].task
      /\ worker'[h].task = 0 /\ worker'[h].was_executed = FALSE /\ worker'[h].ok = TRUE
      /\ worker'[h].todo = worker[h].todo /\ worker'[h] \in Worker
  <2>1. worker[h] \in Worker
    BY Zenon, <1>0, WorkerTypes
  <2> DEFINE n == NoTask(worker[h])
             v == [n EXCEPT !.last_processed = worker[h].task]
  <2>2. /\ n \in Worker /\ n.task = 0 /\ n.was_executed = FALSE /\ n.ok = TRUE
        /\ n.session = worker[h].session /\ n.todo = worker[h].todo
    BY Zenon, <2>1, NoTaskFields
  <2>3. worker'[h] = Onward(v)
    BY Zenon DEF Processed
  <2> HIDE DEF n
  <2>4. /\ v \in Worker /\ v.task = 0 /\ v.was_executed = FALSE /\ v.ok = TRUE
        /\ v.session = worker[h].session /\ v.todo = worker[h].todo /\ v.last_processed = worker[h].task
    BY Zenon, <1>1, <2>2 DEF Worker
  <2> HIDE DEF v
  <2> QED
    BY Zenon, <2>3, <2>4, OnwardFields
<1>3. Bounded(h)'
  BY <1>0, <1>1, <1>2 DEF Bounded, Types
<1>4. Ordered(h)'
  <2>1. \A t \in queue : t <= worker[h].task => Ends(t, h)'
    <3> SUFFICES ASSUME NEW t \in queue, t <= worker[h].task
                 PROVE  Ends(t, h)'
      OBVIOUS
    <3>1. CASE t = worker[h].task
      BY Zenon, <3>1 DEF Ends
    <3>2. CASE t < worker[h].task
      <4>1. Ends(t, h)
        BY Zenon, <3>2, <1>0, EarlierEnds DEF Ordered
      <4> QED
        BY Zenon, <4>1 DEF Ends
    <3> QED
      BY <1>1, <3>1, <3>2
  <2>2. \A t \in worker[h].todo : t > worker[h].task
    BY Zenon, <1>0 DEF Ordered
  <2>3. \A t \in queue : t > worker[h].task => t \in worker[h].todo \/ \A u \in worker[h].todo : u < t
    BY <1>0, <1>1 DEF Ordered
  <2> QED
    BY Zenon, <1>2, <2>1, <2>2, <2>3 DEF Ordered, Working, Running
<1>5. Doing(h)'
  BY Zenon, <1>2 DEF Doing, Working, Running
<1>6. Ran(h)'
  <2>1. \A t \in queue : Ends(t, h) => Ends(t, h)'
    BY Zenon DEF Ends
  <2>2. \A t : t = worker[h].task => Ends(t, h)'
    BY Zenon DEF Ends
  <2>3. \A u \in Task : runs[u][h] > 0 => \A t \in queue : t < u => Ends(t, h)'
    BY Zenon, <1>0, <2>1 DEF Ran
  <2>4. ASSUME NEW t \in queue \ unrecorded, runs[t][h] > 0
        PROVE  IF t \in Alters THEN t \in executed ELSE Ends(t, h)'
    BY Zenon, <1>0, <2>1, <2>2, <2>4 DEF Ran
  <2> QED
    BY Zenon, <2>3, <2>4 DEF Ran
<1> QED
  BY Zenon, <1>2, <1>3, <1>4, <1>5, <1>6 DEF Local

-----------------------------------------------------------------------------
\* The entries a worker takes

\* Every set of numbers has a least element; proved at the end, from the well-founded order of Nat
Least == \A S \in SUBSET Nat : S # {} => \E m \in S : \A k \in S : m <= k

LEMMA OldestIsLeast ==
    ASSUME Least, NEW S \in SUBSET Nat, S # {}
    PROVE  Oldest(S) \in S /\ \A u \in S : Oldest(S) <= u
<1> DEFINE P(t) == \A u \in S : t <= u
<1>1. \E t \in S : P(t)
  BY Zenon DEF Least
<1>2. Oldest(S) = CHOOSE t \in S : P(t)
  BY Zenon DEF Oldest
<1> HIDE DEF P
<1>3. Oldest(S) \in S /\ P(Oldest(S))
  BY Zenon, <1>1, <1>2
<1> QED
  BY Zenon, <1>3 DEF P

LEMMA processTasksStep ==
    ASSUME WInv, NEW h \in Host, processTasks(h)
    PROVE  WInv'
<1>0. Types /\ Bounded(h) /\ Ordered(h) /\ Doing(h) /\ Ran(h)
  BY Zenon DEF WInv, Local
<1>1. /\ worker[h].last_processed \in Nat /\ worker[h].task \in Nat /\ worker[h] \in Worker
      /\ worker[h].event \in BOOLEAN /\ queue \subseteq Nat
  BY Zenon, <1>0, WorkerTypes, QueueTypes
<1>2. worker[h].pc \in {"list", "idle"}
  BY Zenon DEF processTasks
<1> DEFINE listed == {t \in queue : t > worker[h].last_processed}
           v == [worker[h] EXCEPT !.event = @ /\ worker[h].pc # "idle",
                                  !.server_startup = (worker[h].last_processed = 0), !.todo = listed]
<1>3. worker' = [worker EXCEPT ![h] = Onward(v)] /\ UNCHANGED <<enqueued, nodes, runs, unrecorded, faults>>
  BY Zenon DEF processTasks
<1>4. /\ v \in Worker /\ v.session = worker[h].session /\ v.last_processed = worker[h].last_processed
      /\ v.task = worker[h].task /\ v.was_executed = worker[h].was_executed /\ v.ok = worker[h].ok
      /\ v.todo = listed
  BY Zenon, <1>1 DEF Worker
<1> HIDE DEF v
<1>5. worker'[h] = Onward(v) /\ Onward(v) \in Worker
  BY Zenon, <1>0, <1>3, <1>4, Change, OnwardFields
<1>6. /\ worker'[h].pc \in {"next", "idle"} /\ (worker'[h].pc = "next" => listed # {})
      /\ worker'[h].session = worker[h].session /\ worker'[h].last_processed = worker[h].last_processed
      /\ worker'[h].task = worker[h].task /\ worker'[h].was_executed = worker[h].was_executed
      /\ worker'[h].ok = worker[h].ok /\ worker'[h].todo = listed
  BY <1>4, <1>5, OnwardFields
<1>7. /\ queue' = queue /\ enqueued' = enqueued /\ faults' = faults /\ runs' = runs
      /\ unrecorded' = unrecorded /\ executed' = executed /\ finished' = finished
  BY Zenon, <1>3 DEF nodes
<1>8. Bounded(h)'
  <2>1. \A t \in listed : t > 0 /\ t <= enqueued
    BY Zenon, <1>0, QueueTypes
  <2> QED
    BY Zenon, <1>0, <1>6, <1>7, <2>1 DEF Bounded
<1>9. Ordered(h)'
  <2>1. \A t \in queue' : t <= worker'[h].last_processed => Ends(t, h)'
    BY Zenon, <1>0, <1>6, <1>7 DEF Ordered, Ends
  <2>2. worker[h].task # 0 => /\ \A t \in listed : t >= worker[h].task
                              /\ worker[h].task \in queue => worker[h].task \in listed
    BY Zenon, <1>0 DEF Ordered
  <2> QED
    BY Zenon, <1>0, <1>6, <1>7, <2>1, <2>2 DEF Ordered, Working, Running
<1>10. Doing(h)'
  BY Zenon, <1>0, <1>6, <1>7 DEF Doing, Working, Running
<1>11. Ran(h)'
  <2>1. \A t : Ends(t, h)' <=> Ends(t, h)
    BY Zenon, <1>7 DEF Ends
  <2> QED
    BY Zenon, <1>0, <1>2, <1>6, <1>7, <2>1 DEF Ran
<1>12. Local(h)'
  BY Zenon, <1>8, <1>9, <1>10, <1>11 DEF Local
<1> QED
  BY Zenon, <1>3, <1>5, <1>12, WorkerOnly

LEMMA NextTaskStep ==
    ASSUME Least, WInv, NEW h \in Host, NextTask(h)
    PROVE  WInv'
<1>0. Types /\ Bounded(h) /\ Ordered(h) /\ Doing(h) /\ Ran(h)
  BY Zenon DEF WInv, Local
<1>1. /\ worker[h].last_processed \in Nat /\ worker[h].task \in Nat /\ worker[h] \in Worker
      /\ worker[h].todo \subseteq Nat /\ queue \subseteq Nat
  BY Zenon, <1>0, WorkerTypes, QueueTypes
<1>2. worker[h].pc = "next" /\ worker[h].todo # {}
  BY Zenon, <1>0 DEF NextTask, Ordered
<1> DEFINE w == worker[h]
           t == Oldest(w.todo)
<1>3. t \in w.todo /\ t \in Nat /\ \A u \in w.todo : t <= u
  BY Zenon, <1>1, <1>2, OldestIsLeast
<1>4. /\ UNCHANGED <<enqueued, nodes, runs, unrecorded, faults>>
      /\ worker' = [worker EXCEPT ![h] =
            IF w.task = t THEN [w EXCEPT !.todo = @ \ {t}, !.pc = "check"]
            ELSE IF t \notin queue
            THEN Onward([NoTask(w) EXCEPT !.todo = @ \ {t}, !.last_processed = t])
            ELSE [NoTask(w) EXCEPT !.todo = @ \ {t}, !.task = t, !.pc = "check"]]
  BY Zenon DEF NextTask
<1> HIDE DEF t
<1>5. /\ queue' = queue /\ enqueued' = enqueued /\ faults' = faults /\ runs' = runs
      /\ unrecorded' = unrecorded /\ executed' = executed /\ finished' = finished
  BY Zenon, <1>4 DEF nodes
<1>6. \A u : Ends(u, h)' <=> Ends(u, h)
  BY Zenon, <1>5 DEF Ends
<1>7. t > 0 /\ t <= enqueued /\ t > w.last_processed
  BY Zenon, <1>0, <1>3 DEF Bounded, Ordered
<1>8. \A u \in queue : u > w.last_processed => u >= t
  BY <1>0, <1>1, <1>2, <1>3 DEF Ordered
<1>9. \A u \in queue : u > w.last_processed => u \in w.todo \/ \A r \in w.todo : r < u
  BY Zenon, <1>0, <1>2 DEF Ordered, Working, Running
<1>10. w.task \in queue /\ w.task # 0 => w.task = t
  BY <1>0, <1>1, <1>2, <1>3 DEF Ordered
<1>11. CASE w.task = t
  <2> DEFINE v == [w EXCEPT !.todo = @ \ {t}, !.pc = "check"]
  <2>1. worker' = [worker EXCEPT ![h] = v]
    BY Zenon, <1>4, <1>11
  <2>2. /\ v \in Worker /\ v.pc = "check" /\ v.session = w.session /\ v.last_processed = w.last_processed
        /\ v.task = w.task /\ v.was_executed = w.was_executed /\ v.ok = w.ok /\ v.todo = w.todo \ {t}
    BY Zenon, <1>1 DEF Worker, Working
  <2> HIDE DEF v
  <2>3. worker'[h] = v
    BY Zenon, <1>0, <2>1, Change
  <2>4. Bounded(h)'
    BY Zenon, <1>0, <1>5, <2>2, <2>3 DEF Bounded
  <2>5. Ordered(h)'
    <3>1. \A u \in v.todo : u > w.last_processed /\ u > v.task
      BY <1>0, <1>1, <1>3, <1>11, <2>2 DEF Ordered
    <3>2. \A u \in queue : u > v.last_processed => u \in v.todo \/ u = v.task \/ \A r \in v.todo : r < u
      BY Zenon, <1>9, <1>11, <2>2
    <3> QED
      BY <1>0, <1>5, <1>6, <1>7, <1>11, <2>2, <2>3, <3>1, <3>2 DEF Ordered, Working, Running
  <2>6. Doing(h)'
    BY Zenon, <1>0, <1>5, <2>2, <2>3 DEF Doing, Working, Running
  <2>7. Ran(h)'
    BY Zenon, <1>0, <1>2, <1>5, <1>6, <2>2, <2>3 DEF Ran
  <2> QED
    BY Zenon, <1>4, <2>1, <2>2, <2>4, <2>5, <2>6, <2>7, WorkerOnly DEF Local
<1> DEFINE n == NoTask(w)
<1>12. /\ n \in Worker /\ n.task = 0 /\ n.was_executed = FALSE /\ n.ok = TRUE
       /\ n.session = w.session /\ n.todo = w.todo /\ n.last_processed = w.last_processed
  BY Zenon, <1>1, NoTaskFields
<1>13. worker' = [worker EXCEPT ![h] =
          IF w.task = t THEN [w EXCEPT !.todo = @ \ {t}, !.pc = "check"]
          ELSE IF t \notin queue
          THEN Onward([n EXCEPT !.todo = @ \ {t}, !.last_processed = t])
          ELSE [n EXCEPT !.todo = @ \ {t}, !.task = t, !.pc = "check"]]
  BY Zenon, <1>4
<1> HIDE DEF n
<1>14. CASE w.task # t /\ t \notin queue
  <2> DEFINE m == [n EXCEPT !.todo = @ \ {t}, !.last_processed = t]
             v == Onward(m)
  <2>1. worker' = [worker EXCEPT ![h] = v]
    BY Zenon, <1>13, <1>14
  <2>2. /\ m \in Worker /\ m.session = w.session /\ m.last_processed = t
        /\ m.task = 0 /\ m.was_executed = FALSE /\ m.ok = TRUE /\ m.todo = w.todo \ {t}
    BY Zenon, <1>3, <1>12 DEF Worker
  <2> HIDE DEF m
  <2>3. /\ v \in Worker /\ v.pc \in {"next", "idle"} /\ (v.pc = "next" => v.todo # {})
        /\ v.session = w.session /\ v.last_processed = t
        /\ v.task = 0 /\ v.was_executed = FALSE /\ v.ok = TRUE /\ v.todo = w.todo \ {t}
    BY Zenon, <2>2, OnwardFields
  <2> HIDE DEF v
  <2>4. worker'[h] = v
    BY Zenon, <1>0, <2>1, Change
  <2>5. Bounded(h)'
    BY <1>0, <1>1, <1>5, <1>7, <2>3, <2>4 DEF Bounded, Types
  <2>6. Ordered(h)'
    <3>1. \A u \in queue : u <= t => Ends(u, h)
      BY <1>0, <1>1, <1>3, <1>8, <1>14 DEF Ordered
    <3>2. \A u \in v.todo : u > t
      BY <1>1, <1>3, <2>3
    <3>3. \A u \in queue : u > t => u \in v.todo \/ \A r \in v.todo : r < u
      BY <1>1, <1>3, <1>7, <1>9, <2>3
    <3> QED
      BY Zenon, <1>5, <1>6, <2>3, <2>4, <3>1, <3>2, <3>3 DEF Ordered, Working, Running
  <2>7. Doing(h)'
    BY Zenon, <2>3, <2>4 DEF Doing, Working, Running
  <2>8. Ran(h)'
    <3>1. \A u \in queue : ~(w.task = u /\ w.was_executed)
      BY Zenon, <1>0, <1>10, <1>14 DEF Doing
    <3> QED
      BY Zenon, <1>0, <1>2, <1>5, <1>6, <3>1 DEF Ran
  <2> QED
    BY Zenon, <1>4, <2>1, <2>3, <2>5, <2>6, <2>7, <2>8, WorkerOnly DEF Local
<1>15. CASE w.task # t /\ t \in queue
  <2> DEFINE v == [n EXCEPT !.todo = @ \ {t}, !.task = t, !.pc = "check"]
  <2>1. worker' = [worker EXCEPT ![h] = v]
    BY Zenon, <1>13, <1>15
  <2>2. /\ v \in Worker /\ v.pc = "check" /\ v.session = w.session /\ v.last_processed = w.last_processed
        /\ v.task = t /\ v.was_executed = FALSE /\ v.ok = TRUE /\ v.todo = w.todo \ {t}
    BY Zenon, <1>3, <1>12 DEF Worker, Working
  <2> HIDE DEF v
  <2>3. worker'[h] = v
    BY Zenon, <1>0, <2>1, Change
  <2>4. Bounded(h)'
    BY Zenon, <1>0, <1>5, <1>7, <2>2, <2>3 DEF Bounded
  <2>5. Ordered(h)'
    <3>1. \A u \in v.todo : u > w.last_processed /\ u > t
      BY <1>0, <1>1, <1>3, <2>2 DEF Ordered
    <3>2. \A u \in queue : u > v.last_processed => u \in v.todo \/ u = v.task \/ \A r \in v.todo : r < u
      BY Zenon, <1>9, <2>2
    <3>3. t # 0
      BY <1>3, <1>7
    <3> QED
      BY Zenon, <1>0, <1>5, <1>6, <1>7, <1>8, <2>2, <2>3, <3>1, <3>2, <3>3 DEF Ordered, Working, Running
  <2>6. Doing(h)'
    BY Zenon, <1>5, <2>2, <2>3 DEF Doing, Working, Running
  <2>7. Ran(h)'
    <3>1. \A u \in queue : ~(w.task = u /\ w.was_executed)
      BY Zenon, <1>0, <1>10, <1>15 DEF Doing
    <3> QED
      BY Zenon, <1>0, <1>2, <1>5, <1>6, <3>1 DEF Ran
  <2> QED
    BY Zenon, <1>4, <2>1, <2>2, <2>4, <2>5, <2>6, <2>7, WorkerOnly DEF Local
<1> QED
  BY Zenon, <1>11, <1>14, <1>15

\* The thread of a worker ends
LEMMA Terminates ==
    ASSUME WInv, NEW h \in Host, worker' = [worker EXCEPT ![h] = [worker[h] EXCEPT !.pc = "terminated"]],
           UNCHANGED <<enqueued, nodes, runs, unrecorded, faults>>,
           worker[h].pc # "alter_executed" \/ worker[h].task \notin queue
    PROVE  WInv'
<1>0. Types /\ Bounded(h)
  BY Zenon DEF WInv, Local
<1>1. worker[h] \in Worker
  BY Zenon, <1>0, WorkerTypes
<1> DEFINE v == [worker[h] EXCEPT !.pc = "terminated"]
<1>2. /\ v \in Worker /\ v.pc = "terminated" /\ v.session = worker[h].session /\ v.task = worker[h].task
      /\ v.last_processed = worker[h].last_processed /\ v.was_executed = worker[h].was_executed
      /\ v.ok = worker[h].ok /\ v.todo = worker[h].todo
  BY Zenon, <1>1 DEF Worker
<1> HIDE DEF v
<1>3. worker' = [worker EXCEPT ![h] = v]
  BY Zenon DEF v
<1>4. worker'[h] = v
  BY Zenon, <1>0, <1>3, Change
<1>5. /\ queue' = queue /\ enqueued' = enqueued /\ faults' = faults /\ faults \in Nat /\ runs' = runs
      /\ unrecorded' = unrecorded /\ executed' = executed /\ shard_lock' = shard_lock
  BY Zenon, <1>0 DEF Types, nodes
<1>6. \A t : Ends(t, h)' <=> Ends(t, h)
  BY Zenon DEF Ends, nodes
<1>7. Quiet(h)
  BY <1>5, <1>6 DEF Quiet
<1>8. Keeps(h)
  BY Zenon, <1>0, <1>2, <1>4, <1>5 DEF Keeps, Bounded
<1>9. Local(h)'
  BY Zenon, <1>7, <1>8, LocalKeeps
<1> QED
  BY Zenon, <1>2, <1>3, <1>9, WorkerOnly

LEMMA CheckFinishedStep ==
    ASSUME WInv, NEW h \in Host, CheckFinished(h)
    PROVE  WInv'
<1>0. Types /\ worker[h] \in Worker
  BY Zenon, WorkerTypes DEF WInv
<1>1. worker[h].pc = "check" /\ AlreadyProcessed(h) /\ UNCHANGED <<enqueued, nodes, runs, unrecorded, faults>>
  BY Zenon DEF CheckFinished
<1>2. CASE worker[h].server_startup \/ worker[h].was_executed
  <2>1. worker' = [worker EXCEPT ![h] = Processed(worker[h])]
    BY Zenon, <1>2 DEF CheckFinished
  <2>2. worker'[h] = Processed(worker[h])
    BY Zenon, <1>0, <2>1, Change
  <2>3. worker[h].pc \in Working \ {"alter_executed"}
    BY Zenon, <1>1 DEF Working
  <2>4. (\E ok \in BOOLEAN : <<worker[h].task, h, ok>> \in finished') /\ finished \subseteq finished'
    BY Zenon, <1>1 DEF AlreadyProcessed, nodes
  <2>5. UNCHANGED <<enqueued, queue, executed, runs, unrecorded, faults>>
    BY Zenon, <1>1 DEF nodes
  <2>6. Local(h)' /\ Processed(worker[h]) \in Worker
    BY Zenon, <2>2, <2>3, <2>4, <2>5, ProcessedKeeps
  <2> QED
    BY Zenon, <1>1, <2>1, <2>6, WorkerOnly
<1>3. CASE ~(worker[h].server_startup \/ worker[h].was_executed)
  <2> DEFINE v == [worker[h] EXCEPT !.pc = "terminated"]
  <2>1. worker' = [worker EXCEPT ![h] = v]
    BY Zenon, <1>3 DEF CheckFinished
  <2> QED
    BY Zenon, <1>0, <1>1, <2>1, Terminates
<1> QED
  BY Zenon, <1>2, <1>3

\* The ALTER has been run or given up
LEMMA AlterDoneKeeps ==
    ASSUME WInv, NEW h \in Host, NEW ok \in BOOLEAN, AlterDone(h, ok), worker[h].pc \in {"alter", "alter_executed"},
           UNCHANGED <<enqueued, queue, finished, runs, unrecorded, faults>>, executed \subseteq executed',
           worker[h].pc = "alter_executed" => worker[h].task \in executed',
           ok => \E g \in Host : runs[worker[h].task][g] > 0
    PROVE  Local(h)' /\ worker' \in [Host -> Worker] /\ \A g \in Host \ {h} : worker'[g] = worker[g]
<1>0. Types /\ Bounded(h) /\ Ordered(h) /\ Doing(h) /\ Ran(h)
  BY Zenon DEF WInv, Local
<1>1. worker[h] \in Worker
  BY Zenon, <1>0, WorkerTypes
<1> DEFINE v == [worker[h] EXCEPT !.pc = "commit", !.was_executed = TRUE, !.ok = ok]
<1>2. worker' = [worker EXCEPT ![h] = v]
  BY Zenon, <1>0 DEF AlterDone, Types
<1>3. /\ v \in Worker /\ v.pc = "commit" /\ v.session = worker[h].session /\ v.task = worker[h].task
      /\ v.last_processed = worker[h].last_processed /\ v.was_executed = TRUE /\ v.ok = ok
      /\ v.todo = worker[h].todo
  BY Zenon, <1>1 DEF Worker, Working, Running
<1> HIDE DEF v
<1>4. worker'[h] = v /\ worker' \in [Host -> Worker] /\ \A g \in Host \ {h} : worker'[g] = worker[g]
  BY Zenon, <1>0, <1>2, <1>3, Change
<1>5. \A t : Ends(t, h)' <=> Ends(t, h)
  BY Zenon DEF Ends
<1>6. Bounded(h)'
  BY Zenon, <1>0, <1>3, <1>4 DEF Bounded
<1>7. Ordered(h)'
  BY Zenon, <1>0, <1>3, <1>4, <1>5 DEF Ordered, Working, Running
<1>8. Doing(h)'
  <2>1. ~Ends(worker[h].task, h) /\ worker[h].task # 0 /\ worker[h].task \in Alters
    BY Zenon, <1>0 DEF Doing, Ordered, Working, Running
  <2>2. ~Ends(worker[h].task, h)'
    BY Zenon, <1>3, <1>4, <2>1 DEF Ends
  <2>3. \A u \in Task : u > worker[h].task => runs[u][h] = 0
    BY Zenon, <1>0 DEF Doing, Running
  <2> QED
    BY Zenon, <1>3, <1>4, <2>1, <2>2, <2>3 DEF Doing
<1>9. Ran(h)'
  BY Zenon, <1>0, <1>3, <1>4, <1>5 DEF Ran, Doing, Working, Running
<1> QED
  BY Zenon, <1>4, <1>6, <1>7, <1>8, <1>9 DEF Local

LEMMA AlterDoneStep ==
    ASSUME WInv, NEW h \in Host, AlterExecuted(h) \/ GiveUp(h)
    PROVE  WInv'
<1>1. /\ worker[h].pc = "alter" /\ UNCHANGED <<enqueued, nodes, runs, unrecorded, faults>>
      /\ \/ AlterDone(h, TRUE) /\ worker[h].task \in executed
         \/ AlterDone(h, FALSE)
  BY Zenon DEF AlterExecuted, GiveUp
<1>2. Types /\ worker[h].task \in executed => \E g \in Host : runs[worker[h].task][g] > 0
  BY Zenon DEF WInv, ExecutedRan
<1>3. PICK ok \in BOOLEAN : AlterDone(h, ok) /\ (ok => worker[h].task \in executed)
  BY Zenon, <1>1
<1>4. UNCHANGED <<enqueued, queue, finished, runs, unrecorded, faults>> /\ executed' = executed
  BY Zenon, <1>1 DEF nodes
<1>5. Types
  BY Zenon DEF WInv
<1>6. Local(h)' /\ worker' \in [Host -> Worker]
  BY Zenon, <1>1, <1>2, <1>3, <1>4, <1>5, AlterDoneKeeps
<1>7. worker' = [worker EXCEPT ![h] = worker'[h]]
  BY Zenon, <1>3, <1>5 DEF AlterDone, Types
<1> QED
  BY Zenon, <1>1, <1>6, <1>7, WorkerOnly

LEMMA ShardGoneStep ==
    ASSUME WInv, NEW h \in Host, ShardGone(h)
    PROVE  WInv'
<1>0. Types /\ worker[h] \in Worker
  BY Zenon, WorkerTypes DEF WInv
<1> DEFINE v == [worker[h] EXCEPT !.pc = "terminated"]
<1>1. worker' = [worker EXCEPT ![h] = v] /\ worker[h].task \notin queue
  BY Zenon, <1>0 DEF ShardGone, Types
<1> QED
  BY Zenon, <1>0, <1>1, Terminates DEF ShardGone

-----------------------------------------------------------------------------
\* Requests, the answers to them, and runs of a query

LEMMA QuietNodes ==
    ASSUME WInv, NEW g \in Host, UNCHANGED <<enqueued, queue, finished, runs>>,
           faults' \in Nat, faults' >= faults, unrecorded \subseteq unrecorded', executed \subseteq executed',
           \A n \in shard_lock : n[2] = g /\ n[3] = worker[g].session => n \in shard_lock'
    PROVE  Quiet(g)
<1>1. \A t : Ends(t, g)' <=> Ends(t, g)
  BY Zenon DEF Ends
<1> QED
  BY Zenon, <1>1 DEF Quiet

\* The answer to a request is lost, after what it did at ZooKeeper
LEMMA LoseAnswerKeeps ==
    ASSUME WInv, NEW h \in Host, LoseAnswer(h), \A g \in Host : Quiet(g),
           worker[h].pc = "alter_executed" =>
               worker[h].task \in executed' \cup unrecorded' \/ worker[h].task \notin queue'
    PROVE  /\ worker' \in [Host -> Worker] /\ faults' \in Nat /\ faults' <= MaxFaults
           /\ \A g \in Host : Local(g)'
<1>0. Types /\ Bounded(h)
  BY Zenon DEF WInv, Local
<1>1. worker[h] \in Worker /\ worker[h].session \in Nat \ {0}
  BY Zenon, <1>0, WorkerTypes
<1>2. faults \in Nat /\ faults < MaxFaults /\ faults' = faults + 1 /\ MaxFaults \in Nat
  BY Zenon, <1>0, DDLConstants DEF LoseAnswer, Types
<1> DEFINE v == Recovering(h)
           s == worker[h].session + 1
<1>3. s \in Nat \ {0} /\ s = worker[h].session + 1
  BY <1>1
<1>4. v = [worker[h] EXCEPT !.pc = "list", !.session = s, !.todo = {}, !.server_startup = FALSE]
  BY Zenon DEF Recovering, NewSession
<1> HIDE DEF s, v
<1>5. /\ v \in Worker /\ v.pc = "list" /\ v.session = worker[h].session + 1 /\ v.task = worker[h].task
      /\ v.last_processed = worker[h].last_processed /\ v.was_executed = worker[h].was_executed
      /\ v.ok = worker[h].ok /\ v.todo = {}
  BY Zenon, <1>1, <1>3, <1>4 DEF Worker
<1>6. worker' = [worker EXCEPT ![h] = v]
  BY Zenon DEF v, LoseAnswer
<1>7. v.session <= faults' + 1
  BY <1>0, <1>1, <1>2, <1>5 DEF Bounded
<1>8. worker' \in [Host -> Worker] /\ \A g \in Host : Local(g)'
  BY Zenon, <1>5, <1>6, <1>7, RestKeeps
<1> QED
  BY <1>2, <1>8

\* Nodes that a worker makes
LEMMA NodeTypes ==
    ASSUME WInv, NEW h \in Host, worker[h].task # 0
    PROVE  Node(h, worker[h].task) \in Task \X Host \X (1..MaxFaults + 1)
<1>0. Types /\ Bounded(h)
  BY Zenon DEF WInv, Local
<1>1. worker[h].task \in Task /\ worker[h].session \in Nat \ {0}
  BY Zenon, <1>0, TaskTypes, WorkerTypes
<1>2. worker[h].session <= faults + 1 /\ faults \in Nat /\ faults <= MaxFaults /\ MaxFaults \in Nat
  BY Zenon, <1>0, DDLConstants DEF Bounded, Types
<1>3. worker[h].session \in 1..MaxFaults + 1
  BY <1>1, <1>2
<1> QED
  BY Zenon, <1>1, <1>3 DEF Node

\* A run of the query of t by h
LEMMA RunFacts ==
    ASSUME Types, NEW h \in Host, NEW t \in Task, t <= enqueued, enqueued' = enqueued,
           runs' = [runs EXCEPT ![t][h] = @ + 1]
    PROVE  /\ runs' \in [Task -> [Host -> Nat]] /\ \A u \in Task, g \in Host : runs'[u][g] > 0 => u <= enqueued'
           /\ runs[t][h] \in Nat /\ runs'[t][h] = runs[t][h] + 1 /\ runs'[t][h] > 0
           /\ \A u \in Task, g \in Host : u # t \/ g # h => runs'[u][g] = runs[u][g]
           /\ \A u \in Task, g \in Host : runs[u][g] > 0 => runs'[u][g] > 0
<1>1. runs \in [Task -> [Host -> Nat]] /\ \A u \in Task, g \in Host : runs[u][g] > 0 => u <= enqueued
  BY Zenon DEF Types
<1>2. runs[t][h] \in Nat /\ runs'[t] = [runs[t] EXCEPT ![h] = @ + 1] /\ \A u \in Task \ {t} : runs'[u] = runs[u]
  BY Zenon, <1>1
<1>3. runs'[t][h] = runs[t][h] + 1 /\ \A g \in Host \ {h} : runs'[t][g] = runs[t][g]
  BY Zenon, <1>1, <1>2
<1>4. runs' \in [Task -> [Host -> Nat]]
  BY <1>1
<1>5. \A u \in Task, g \in Host : u # t \/ g # h => runs'[u][g] = runs[u][g]
  BY Zenon, <1>2, <1>3
<1>6. runs'[t][h] > 0
  BY <1>2, <1>3
<1>7. \A u \in Task, g \in Host : runs[u][g] > 0 => runs'[u][g] > 0
  BY Zenon, <1>5, <1>6
<1>8. \A u \in Task, g \in Host : runs'[u][g] > 0 => u <= enqueued'
  BY Zenon, <1>1, <1>5
<1> QED
  BY Zenon, <1>2, <1>3, <1>4, <1>5, <1>6, <1>7, <1>8

\* Runs do not take back what finished/ and executed say
LEMMA ResultsOfRuns ==
    ASSUME WInv, finished' = finished, executed' = executed,
           \A u \in Task, g \in Host : runs[u][g] > 0 => runs'[u][g] > 0
    PROVE  ExecutedRan' /\ SuccessMeansRun'
<1>1. Types /\ ExecutedRan /\ SuccessMeansRun
  BY Zenon DEF WInv
<1>2. executed \subseteq Task
  BY Zenon, <1>1, DDLConstants DEF Types, Task
<1>3. ExecutedRan'
  BY Zenon, <1>1, <1>2 DEF ExecutedRan
<1>4. \A n \in finished : n[1] \in Task
  BY Zenon, <1>1 DEF Types
<1>5. SuccessMeansRun'
  BY Zenon, <1>1, <1>4 DEF SuccessMeansRun
<1> QED
  BY Zenon, <1>3, <1>5

\* After the node in active/: the query is run, unless it has been, or is an ALTER
LEMMA AfterActiveKeeps ==
    ASSUME WInv, NEW h \in Host, AfterActive(h), worker[h].pc \in {"check", "again"},
           worker[h].task \in queue, ~Ends(worker[h].task, h),
           UNCHANGED <<enqueued, queue, finished, shard_lock, executed, unrecorded, faults>>
    PROVE  /\ worker' \in [Host -> Worker] /\ \A g \in Host : Local(g)'
           /\ runs' \in [Task -> [Host -> Nat]] /\ \A u \in Task, g \in Host : runs'[u][g] > 0 => u <= enqueued'
           /\ Once' /\ ExecutedRan' /\ SuccessMeansRun'
<1>0. Types /\ Bounded(h) /\ Ordered(h) /\ Doing(h) /\ Ran(h) /\ Once
  BY Zenon DEF WInv, Local
<1>1. worker[h] \in Worker /\ worker[h].was_executed \in BOOLEAN /\ worker[h].task # 0
  BY Zenon, <1>0, WorkerTypes DEF Ordered, Working, Running
<1>2. worker[h].task \in Task /\ worker[h].task <= enqueued
  BY Zenon, <1>0, <1>1, TaskTypes DEF Bounded
<1> DEFINE w == worker[h]
           now == ~w.was_executed /\ w.task \notin Alters
           v == [w EXCEPT !.pc = IF now \/ w.was_executed THEN "commit" ELSE "alter", !.was_executed = @ \/ now]
<1>3. worker' = [worker EXCEPT ![h] = v] /\ runs' = IF now THEN [runs EXCEPT ![w.task][h] = @ + 1] ELSE runs
  BY Zenon, <1>0 DEF AfterActive, Types
<1>4. /\ v \in Worker /\ v.session = w.session /\ v.last_processed = w.last_processed /\ v.task = w.task
      /\ v.was_executed = (w.was_executed \/ now) /\ v.ok = w.ok /\ v.todo = w.todo
      /\ v.pc \in {"commit", "alter"} /\ (v.pc = "commit" <=> v.was_executed)
  BY Zenon, <1>1 DEF Worker, Working, Running
<1> HIDE DEF v
<1>5. worker'[h] = v /\ worker' \in [Host -> Worker] /\ \A g \in Host \ {h} : worker'[g] = worker[g]
  BY Zenon, <1>0, <1>3, <1>4, Change
<1>6. /\ runs' \in [Task -> [Host -> Nat]] /\ \A u \in Task, g \in Host : runs'[u][g] > 0 => u <= enqueued'
      /\ \A u \in Task, g \in Host : u # w.task \/ g # h => runs'[u][g] = runs[u][g]
      /\ \A u \in Task, g \in Host : runs[u][g] > 0 => runs'[u][g] > 0
  <2>1. CASE now
    BY Zenon, <1>0, <1>2, <1>3, <2>1, RunFacts
  <2>2. CASE ~now
    BY Zenon, <1>0, <1>3, <2>2 DEF Types
  <2> QED
    BY Zenon, <2>1, <2>2
<1>7. now => runs'[w.task][h] = runs[w.task][h] + 1 /\ runs[w.task][h] \in Nat /\ runs'[w.task][h] > 0
  BY Zenon, <1>0, <1>2, <1>3, RunFacts
<1>8. \A u \in Task : u > w.task => runs[u][h] = 0
  BY Zenon, NoLaterRun
<1>9. ASSUME NEW g \in Host \ {h}
      PROVE  Local(g)'
  <2>1. \A t : Ends(t, g)' <=> Ends(t, g)
    BY Zenon DEF Ends
  <2>2. \A t \in Task : runs'[t][g] = runs[t][g]
    BY Zenon, <1>6
  <2>3. faults \in Nat
    BY Zenon, <1>0 DEF Types
  <2>4. Quiet(g)
    BY <1>6, <2>1, <2>2, <2>3 DEF Quiet
  <2> QED
    BY Zenon, <1>5, <2>4, OthersKeep
<1>10. \A t : Ends(t, h)' <=> Ends(t, h)
  BY Zenon DEF Ends
<1>11. Bounded(h)'
  BY Zenon, <1>0, <1>4, <1>5 DEF Bounded
<1>12. Ordered(h)'
  BY Zenon, <1>0, <1>4, <1>5, <1>10 DEF Ordered, Working, Running
<1>13. Doing(h)'
  <2>1. ~Ends(worker[h].task, h)'
    BY Zenon, <1>4, <1>5 DEF Ends
  <2>2. \A u \in Task : u > w.task => runs'[u][h] = 0
    <3>1. Task \subseteq Nat
      BY Zenon, <1>0, QueueTypes
    <3>2. ASSUME NEW u \in Task, u > w.task
          PROVE  u # w.task
      <4>1. u \in Nat /\ w.task \in Nat
        BY Zenon, <1>2, <3>1
      <4> HIDE DEF w
      <4> QED
        BY <3>2, <4>1
    <3> QED
      BY Zenon, <1>6, <1>8, <3>2
  <2>3. v.pc = "alter" => w.task \in Alters
    BY Zenon, <1>1, <1>4
  <2>4. v.was_executed /\ v.ok => \E g \in Host : runs'[w.task][g] > 0 /\ (w.task \notin Alters => g = h)
    <3>1. CASE now
      BY Zenon, <1>7, <3>1
    <3>2. CASE ~now
      BY Zenon, <1>0, <1>2, <1>4, <1>6, <3>2 DEF Doing
    <3> QED
      BY Zenon, <3>1, <3>2
  <2> QED
    BY Zenon, <1>1, <1>4, <1>5, <2>1, <2>2, <2>3, <2>4 DEF Doing, Working, Running
<1>14. Ran(h)'
  <2>1. ASSUME NEW u \in Task, runs'[u][h] > 0, NEW t \in queue, t < u
        PROVE  Ends(t, h)
    <3>1. CASE u = w.task
      BY Zenon, <1>1, <2>1, <3>1, EarlierEnds
    <3>2. CASE u # w.task
      BY Zenon, <1>0, <1>6, <2>1, <3>2 DEF Ran
    <3> QED
      BY Zenon, <3>1, <3>2
  <2>2. ASSUME NEW t \in queue \ unrecorded, runs'[t][h] > 0
        PROVE  IF t \in Alters THEN t \in executed ELSE (v.task = t /\ v.was_executed) \/ Ends(t, h)
    <3>1. CASE runs[t][h] > 0
      BY Zenon, <1>0, <1>1, <1>4, <2>2, <3>1 DEF Ran
    <3>2. CASE ~(runs[t][h] > 0)
      <4>1. t \in Task
        BY Zenon, <1>0, QueueTypes
      <4>2. t = w.task /\ now
        BY Zenon, <1>3, <1>6, <2>2, <3>2, <4>1
      <4> QED
        BY Zenon, <1>4, <4>2
    <3> QED
      BY Zenon, <3>1, <3>2
  <2> QED
    BY Zenon, <1>4, <1>5, <1>10, <2>1, <2>2 DEF Ran
<1>15. Once'
  <2>1. CASE now
    <3>1. \A t \in queue \ unrecorded : t # w.task => \A g \in Host : runs'[t][g] = runs[t][g]
      BY Zenon, <1>0, <1>6, QueueTypes
    <3>2. w.task \in queue \ unrecorded => runs[w.task][h] = 0
      BY <1>0, <1>7, <2>1 DEF Ran
    <3>3. w.task \in queue \ unrecorded => \A g \in Host : runs'[w.task][g] <= 1
      BY <1>0, <1>2, <1>6, <1>7, <2>1, <3>2 DEF Once
    <3> QED
      BY <1>0, <2>1, <3>1, <3>3 DEF Once
  <2>2. CASE ~now
    BY <1>0, <1>3, <2>2 DEF Once
  <2> QED
    BY Zenon, <2>1, <2>2
<1>16. ExecutedRan' /\ SuccessMeansRun'
  BY Zenon, <1>6, ResultsOfRuns
<1> QED
  BY Zenon, <1>5, <1>6, <1>9, <1>11, <1>12, <1>13, <1>14, <1>15, <1>16 DEF Local

LEMMA CreateActiveStep ==
    ASSUME WInv, NEW h \in Host, CreateActive(h)
    PROVE  WInv'
<1>0. Types /\ Bounded(h) /\ Ordered(h) /\ Doing(h) /\ Ran(h)
  BY Zenon DEF WInv, Local
<1> DEFINE w == worker[h]
           there == \E n \in Of(active, w.task) : n[2] = h
<1>1. /\ w.pc \in {"check", "again"} /\ (w.pc = "check" => ~AlreadyProcessed(h))
      /\ UNCHANGED <<enqueued, queue, status_dirs, finished, shard_lock, executed, unrecorded>>
  BY Zenon DEF CreateActive
<1>2. ~Ends(w.task, h)
  BY Zenon, <1>0, <1>1 DEF Doing, Working, Running, AlreadyProcessed, Ends
<1>3. w.task # 0 /\ w \in Worker /\ faults \in Nat
  BY Zenon, <1>0, <1>1, WorkerTypes DEF Ordered, Working, Running, Types
<1>4. there \/ w.task \in status_dirs => w.task \in queue
  BY Zenon, <1>0 DEF Types, Of
<1>5. CASE AfterActive(h) /\ UNCHANGED faults /\ w.task \in queue /\ (active' = active \/ active' = active \cup {Node(h, w.task)})
  <2>1. /\ worker' \in [Host -> Worker] /\ \A g \in Host : Local(g)'
        /\ runs' \in [Task -> [Host -> Nat]] /\ \A u \in Task, g \in Host : runs'[u][g] > 0 => u <= enqueued'
        /\ Once' /\ ExecutedRan' /\ SuccessMeansRun'
    BY Zenon, <1>1, <1>2, <1>5, AfterActiveKeeps
  <2>2. active' \subseteq Task \X Host \X (1..MaxFaults + 1) /\ \A n \in active' : n[1] \in queue
    BY <1>0, <1>3, <1>5, NodeTypes DEF Types, Node
  <2>3. Types'
    BY Zenon, <1>0, <1>1, <1>5, <2>1, <2>2 DEF Types
  <2> QED
    BY Zenon, <2>1, <2>3 DEF WInv
<1>6. CASE LoseAnswer(h) /\ UNCHANGED runs /\ active' = active \cup {Node(h, w.task)} /\ w.task \in queue
  <2>1. faults' = faults + 1
    BY Zenon, <1>6 DEF LoseAnswer
  <2>2. \A g \in Host : Quiet(g)
    BY <1>1, <1>3, <1>6, <2>1, QuietNodes
  <2>3. worker' \in [Host -> Worker] /\ faults' \in Nat /\ faults' <= MaxFaults /\ \A g \in Host : Local(g)'
    BY Zenon, <1>1, <1>6, <2>2, LoseAnswerKeeps
  <2>4. active' \subseteq Task \X Host \X (1..MaxFaults + 1) /\ \A n \in active' : n[1] \in queue
    BY <1>0, <1>3, <1>6, NodeTypes DEF Types, Node
  <2>5. Types'
    BY Zenon, <1>0, <1>1, <1>6, <2>3, <2>4 DEF Types
  <2>6. Once' /\ ExecutedRan' /\ SuccessMeansRun'
    BY Zenon, <1>1, <1>6, ResultsKeep
  <2> QED
    BY Zenon, <2>3, <2>5, <2>6 DEF WInv
<1>7. CASE /\ worker' = [worker EXCEPT ![h].pc = IF w.pc = "again" THEN "terminated" ELSE "dirs"]
           /\ UNCHANGED <<active, faults, runs>>
  <2>0. UNCHANGED <<enqueued, nodes, runs, unrecorded, faults>>
    BY Zenon, <1>1, <1>7 DEF nodes
  <2>1. CASE w.pc = "again"
    <3>1. worker' = [worker EXCEPT ![h] = [worker[h] EXCEPT !.pc = "terminated"]]
      BY Zenon, <1>0, <1>7, <2>1 DEF Types
    <3> QED
      BY Zenon, <2>0, <2>1, <3>1, Terminates
  <2>2. CASE w.pc = "check"
    <3> DEFINE v == [w EXCEPT !.pc = "dirs"]
    <3>1. worker' = [worker EXCEPT ![h] = v]
      BY Zenon, <1>0, <1>7, <2>2 DEF Types
    <3>2. /\ v \in Worker /\ v.pc = "dirs" /\ v.session = w.session /\ v.last_processed = w.last_processed
          /\ v.task = w.task /\ v.was_executed = w.was_executed /\ v.ok = w.ok /\ v.todo = w.todo
      BY Zenon, <1>3 DEF Worker, Working
    <3> HIDE DEF v
    <3>3. worker'[h] = v
      BY Zenon, <1>0, <3>1, Change
    <3>4. Bounded(h)'
      BY Zenon, <1>0, <1>1, <1>7, <3>2, <3>3 DEF Bounded
    <3>5. \A t : Ends(t, h)' <=> Ends(t, h)
      BY Zenon, <1>1 DEF Ends
    <3>6. Ordered(h)'
      BY Zenon, <1>0, <1>1, <2>2, <3>2, <3>3, <3>5 DEF Ordered, Working, Running
    <3>7. Doing(h)'
      <4>1. ~Ends(worker[h].task, h)'
        BY Zenon, <1>1, <1>2, <3>2, <3>3 DEF Ends
      <4> QED
        BY Zenon, <1>0, <1>7, <3>2, <3>3, <4>1 DEF Doing, Working, Running
    <3>8. Ran(h)'
      BY Zenon, <1>0, <1>1, <1>7, <2>2, <3>2, <3>3, <3>5 DEF Ran
    <3> QED
      BY Zenon, <2>0, <3>1, <3>2, <3>4, <3>6, <3>7, <3>8, WorkerOnly DEF Local
  <2> QED
    BY Zenon, <1>1, <2>1, <2>2
<1>8. \/ /\ w.task \in status_dirs /\ active' = active \cup {Node(h, w.task)}
         /\ (AfterActive(h) /\ UNCHANGED faults) \/ (LoseAnswer(h) /\ UNCHANGED runs)
      \/ /\ UNCHANGED <<active, faults>>
         /\ \/ there /\ AfterActive(h)
            \/ /\ worker' = [worker EXCEPT ![h].pc = IF w.pc = "again" THEN "terminated" ELSE "dirs"]
               /\ UNCHANGED runs
  BY Zenon DEF CreateActive
<1> QED
  BY Zenon, <1>4, <1>5, <1>6, <1>7, <1>8

LEMMA createStatusDirsStep ==
    ASSUME WInv, NEW h \in Host, createStatusDirs(h)
    PROVE  WInv'
<1>0. Types /\ Bounded(h) /\ Ordered(h) /\ Doing(h) /\ Ran(h)
  BY Zenon DEF WInv, Local
<1> DEFINE w == worker[h]
           v == [w EXCEPT !.pc = IF w.task \in queue THEN "again" ELSE "terminated"]
<1>1. /\ w.pc = "dirs" /\ status_dirs' = status_dirs \cup ({w.task} \cap queue)
      /\ UNCHANGED <<enqueued, queue, active, finished, shard_lock, executed, runs, unrecorded>>
      /\ Answer(h, v)
  BY Zenon DEF createStatusDirs
<1>2. w \in Worker /\ faults \in Nat
  BY Zenon, <1>0, WorkerTypes DEF Types
<1>3. Once' /\ ExecutedRan' /\ SuccessMeansRun'
  BY Zenon, <1>1, ResultsKeep
<1>4. status_dirs' \subseteq queue
  BY Zenon, <1>0, <1>1 DEF Types
<1>5. SUFFICES /\ worker' \in [Host -> Worker] /\ faults' \in Nat /\ faults' <= MaxFaults
               /\ \A g \in Host : Local(g)'
  <2>1. ASSUME worker' \in [Host -> Worker], faults' \in Nat, faults' <= MaxFaults
        PROVE  Types'
    BY Zenon, <1>0, <1>1, <1>4, <2>1 DEF Types
  <2> QED
    BY Zenon, <1>3, <2>1 DEF WInv
<1>6. CASE LoseAnswer(h)
  <2>1. faults' = faults + 1
    BY Zenon, <1>6 DEF LoseAnswer
  <2>2. \A g \in Host : Quiet(g)
    BY <1>1, <1>2, <2>1, QuietNodes
  <2> QED
    BY Zenon, <1>1, <1>6, <2>2, LoseAnswerKeeps
<1>7. CASE worker' = [worker EXCEPT ![h] = v] /\ UNCHANGED faults
  <2>1. /\ v \in Worker /\ v.session = w.session /\ v.last_processed = w.last_processed
        /\ v.task = w.task /\ v.was_executed = w.was_executed /\ v.ok = w.ok /\ v.todo = w.todo
        /\ v.pc = IF w.task \in queue THEN "again" ELSE "terminated"
    BY Zenon, <1>2 DEF Worker, Working, Running
  <2> HIDE DEF v
  <2>2. worker'[h] = v /\ worker' \in [Host -> Worker] /\ \A g \in Host \ {h} : worker'[g] = worker[g]
    BY Zenon, <1>0, <1>7, <2>1, Change
  <2>3. \A g \in Host : Quiet(g)
    BY <1>1, <1>2, <1>7, QuietNodes
  <2>4. \A g \in Host \ {h} : Local(g)'
    BY Zenon, <2>2, <2>3, OthersKeep
  <2>5. Local(h)'
    <3>1. CASE w.task \notin queue
      <4>1. Keeps(h)
        BY Zenon, <1>0, <1>1, <1>7, <2>1, <2>2, <3>1 DEF Keeps, Bounded
      <4> QED
        BY Zenon, <2>3, <4>1, LocalKeeps
    <3>2. CASE w.task \in queue
      <4>1. ~Ends(w.task, h)
        BY Zenon, <1>0, <1>1 DEF Doing, Working, Running
      <4>2. \A u \in Task : u > w.task => runs[u][h] = 0
        BY Zenon, <3>2, <4>1, NoLaterRun
      <4>3. \A t : Ends(t, h)' <=> Ends(t, h)
        BY Zenon, <1>1 DEF Ends
      <4>4. Bounded(h)'
        BY Zenon, <1>0, <1>1, <1>7, <2>1, <2>2 DEF Bounded
      <4>5. Ordered(h)'
        BY Zenon, <1>0, <1>1, <2>1, <2>2, <3>2, <4>3 DEF Ordered, Working, Running
      <4>6. Doing(h)'
        <5>1. ~Ends(worker[h].task, h)'
          BY Zenon, <1>1, <4>1, <2>1, <2>2 DEF Ends
        <5> QED
          BY Zenon, <1>0, <1>1, <2>1, <2>2, <3>2, <4>2, <5>1 DEF Doing, Working, Running
      <4>7. Ran(h)'
        BY Zenon, <1>0, <1>1, <2>1, <2>2, <4>3 DEF Ran
      <4> QED
        BY Zenon, <4>4, <4>5, <4>6, <4>7 DEF Local
    <3> QED
      BY Zenon, <3>1, <3>2
  <2>6. faults' \in Nat /\ faults' <= MaxFaults
    BY Zenon, <1>0, <1>7 DEF Types
  <2> QED
    BY Zenon, <2>2, <2>4, <2>5, <2>6
<1> QED
  BY Zenon, <1>1, <1>6, <1>7 DEF Answer

\* The lock is free, so no other worker has run the ALTER without a record of it
LEMMA TryLockStep ==
    ASSUME WInv, NEW h \in Host, TryLock(h)
    PROVE  WInv'
<1>0. Types /\ Bounded(h) /\ Ordered(h) /\ Doing(h) /\ Ran(h) /\ Once
  BY Zenon DEF WInv, Local
<1> DEFINE w == worker[h]
<1>1. /\ w.pc = "alter" /\ w.task \notin executed /\ Of(shard_lock, w.task) = {}
      /\ shard_lock' = shard_lock \cup {Node(h, w.task)}
      /\ UNCHANGED <<enqueued, queue, status_dirs, active, finished, executed, unrecorded>>
  BY Zenon DEF TryLock
<1>2. w \in Worker /\ faults \in Nat /\ w.task # 0 /\ w.task \in Alters
  BY Zenon, <1>0, <1>1, WorkerTypes DEF Types, Ordered, Doing, Working, Running
<1>3. w.task \in Task /\ w.task <= enqueued
  BY Zenon, <1>0, <1>2, TaskTypes DEF Bounded
<1>4. shard_lock' \subseteq Task \X Host \X (1..MaxFaults + 1)
  BY Zenon, <1>0, <1>1, <1>2, NodeTypes DEF Types
<1>5. CASE LoseAnswer(h) /\ UNCHANGED runs
  <2>1. faults' = faults + 1
    BY Zenon, <1>5 DEF LoseAnswer
  <2>2. \A g \in Host : Quiet(g)
    BY <1>1, <1>2, <1>5, <2>1, QuietNodes
  <2>3. worker' \in [Host -> Worker] /\ faults' \in Nat /\ faults' <= MaxFaults /\ \A g \in Host : Local(g)'
    BY Zenon, <1>1, <1>5, <2>2, LoseAnswerKeeps
  <2>4. Types'
    BY Zenon, <1>0, <1>1, <1>4, <1>5, <2>3 DEF Types
  <2>5. Once' /\ ExecutedRan' /\ SuccessMeansRun'
    BY Zenon, <1>1, <1>5, ResultsKeep
  <2> QED
    BY Zenon, <2>3, <2>4, <2>5 DEF WInv
<1>6. CASE /\ runs' = [runs EXCEPT ![w.task][h] = @ + 1]
           /\ worker' = [worker EXCEPT ![h].pc = "alter_executed"] /\ UNCHANGED faults
  <2> DEFINE v == [w EXCEPT !.pc = "alter_executed"]
  <2>1. worker' = [worker EXCEPT ![h] = v]
    BY Zenon, <1>0, <1>6 DEF Types
  <2>2. /\ v \in Worker /\ v.pc = "alter_executed" /\ v.session = w.session /\ v.last_processed = w.last_processed
        /\ v.task = w.task /\ v.was_executed = w.was_executed /\ v.ok = w.ok /\ v.todo = w.todo
    BY Zenon, <1>2 DEF Worker, Working, Running
  <2> HIDE DEF v
  <2>3. worker'[h] = v /\ worker' \in [Host -> Worker] /\ \A g \in Host \ {h} : worker'[g] = worker[g]
    BY Zenon, <1>0, <2>1, <2>2, Change
  <2>4. /\ runs' \in [Task -> [Host -> Nat]] /\ \A u \in Task, g \in Host : runs'[u][g] > 0 => u <= enqueued'
        /\ runs[w.task][h] \in Nat /\ runs'[w.task][h] = runs[w.task][h] + 1 /\ runs'[w.task][h] > 0
        /\ \A u \in Task, g \in Host : u # w.task \/ g # h => runs'[u][g] = runs[u][g]
        /\ \A u \in Task, g \in Host : runs[u][g] > 0 => runs'[u][g] > 0
    BY Zenon, <1>0, <1>1, <1>3, <1>6, RunFacts
  <2>5. ASSUME NEW g \in Host \ {h}
        PROVE  Local(g)'
    <3>1. \A t : Ends(t, g)' <=> Ends(t, g)
      BY Zenon, <1>1 DEF Ends
    <3>2. \A t \in Task : runs'[t][g] = runs[t][g]
      BY Zenon, <2>4
    <3>3. Quiet(g)
      BY <1>1, <1>2, <1>6, <2>4, <3>1, <3>2 DEF Quiet
    <3> QED
      BY Zenon, <2>3, <3>3, OthersKeep
  <2>6. \A t : Ends(t, h)' <=> Ends(t, h)
    BY Zenon, <1>1 DEF Ends
  <2>7. Bounded(h)'
    BY Zenon, <1>0, <1>1, <1>6, <2>2, <2>3 DEF Bounded
  <2>8. Ordered(h)'
    BY Zenon, <1>0, <1>1, <2>2, <2>3, <2>6 DEF Ordered, Working, Running
  <2>9. Doing(h)'
    <3>1. ~Ends(worker[h].task, h)'
      <4>1. ~Ends(w.task, h)
        BY Zenon, <1>0, <1>1 DEF Doing, Working, Running
      <4> QED
        BY Zenon, <1>1, <4>1, <2>2, <2>3 DEF Ends
    <3>2. \A u \in Task : u > w.task => runs'[u][h] = 0
      <4>1. Task \subseteq Nat
        BY Zenon, <1>0, QueueTypes
      <4>2. ASSUME NEW u \in Task, u > w.task
            PROVE  u # w.task
        <5>1. u \in Nat /\ w.task \in Nat
          BY Zenon, <1>3, <4>1
        <5> HIDE DEF w
        <5> QED
          BY <4>2, <5>1
      <4> QED
        BY Zenon, <1>0, <1>1, <2>4, <4>2 DEF Doing, Running
    <3>3. Node(h, worker[h].task)' \in shard_lock'
      BY Zenon, <1>1, <2>2, <2>3 DEF Node
    <3>4. w.was_executed /\ w.ok => \E g \in Host : runs'[w.task][g] > 0
      BY Zenon, <2>4
    <3> QED
      BY Zenon, <1>0, <1>2, <2>2, <2>3, <2>4, <3>1, <3>2, <3>3, <3>4 DEF Doing, Working, Running
  <2>10. Ran(h)'
    <3>1. ASSUME NEW u \in Task, runs'[u][h] > 0, NEW t \in queue, t < u
          PROVE  Ends(t, h)
      <4>1. CASE u = w.task
        BY Zenon, <1>2, <3>1, <4>1, EarlierEnds
      <4>2. CASE u # w.task
        BY Zenon, <1>0, <2>4, <3>1, <4>2 DEF Ran
      <4> QED
        BY Zenon, <4>1, <4>2
    <3>2. ASSUME NEW t \in queue \ unrecorded, runs'[t][h] > 0, t # w.task
          PROVE  IF t \in Alters THEN t \in executed ELSE (w.task = t /\ w.was_executed) \/ Ends(t, h)
      <4>1. runs[t][h] > 0
        BY Zenon, <1>0, <2>4, <3>2, QueueTypes
      <4> QED
        BY Zenon, <1>0, <1>1, <3>2, <4>1 DEF Ran
    <3> QED
      BY Zenon, <1>1, <1>2, <2>2, <2>3, <2>6, <3>1, <3>2 DEF Ran
  <2>11. Once'
    <3>1. \A t \in queue \ unrecorded : t # w.task => \A g \in Host : runs'[t][g] = runs[t][g]
      BY Zenon, <1>0, <2>4, QueueTypes
    <3>2. ASSUME w.task \in queue \ unrecorded, NEW g \in Host
          PROVE  runs[w.task][g] = 0
      <4>1. Ran(g) /\ Doing(g) /\ runs[w.task][g] \in Nat
        BY Zenon, <1>0, <1>3 DEF WInv, Local, Types
      <4>2. ~(worker[g].pc = "alter_executed" /\ worker[g].task = w.task)
        BY <1>1, <3>2, <4>1 DEF Doing, Of, Node
      <4> QED
        BY <1>1, <1>2, <3>2, <4>1, <4>2 DEF Ran
    <3>3. w.task \in queue \ unrecorded => runs'[w.task][h] = 1 /\ \A g \in Host \ {h} : runs'[w.task][g] = 0
      BY <1>3, <2>4, <3>2
    <3> QED
      BY <1>0, <1>1, <3>1, <3>3 DEF Once
  <2>12. ExecutedRan' /\ SuccessMeansRun'
    BY Zenon, <1>1, <2>4, ResultsOfRuns
  <2>13. Types'
    BY Zenon, <1>0, <1>1, <1>4, <1>6, <2>3, <2>4 DEF Types
  <2> QED
    BY Zenon, <2>5, <2>7, <2>8, <2>9, <2>10, <2>11, <2>12, <2>13 DEF WInv, Local
<1> QED
  BY Zenon, <1>5, <1>6 DEF TryLock

LEMMA CreateExecutedStep ==
    ASSUME WInv, NEW h \in Host, CreateExecuted(h)
    PROVE  WInv'
<1>0. Types /\ Bounded(h) /\ Ordered(h) /\ Doing(h) /\ Ran(h) /\ Once /\ ExecutedRan /\ SuccessMeansRun
  BY Zenon DEF WInv, Local
<1> DEFINE w == worker[h]
<1>1. /\ w.pc = "alter_executed" /\ executed' = executed \cup {w.task}
      /\ UNCHANGED <<enqueued, queue, status_dirs, active, finished, runs, unrecorded>>
  BY Zenon DEF CreateExecuted
<1>2. w \in Worker /\ faults \in Nat /\ w.task \in Alters /\ runs[w.task][h] > 0
  BY Zenon, <1>0, <1>1, WorkerTypes DEF Types, Doing
<1>3. Once' /\ SuccessMeansRun'
  BY Zenon, <1>0, <1>1 DEF Once, SuccessMeansRun
<1>4. ExecutedRan'
  BY Zenon, <1>0, <1>1, <1>2 DEF ExecutedRan
<1>5. executed' \subseteq Alters
  BY Zenon, <1>0, <1>1, <1>2 DEF Types
<1>6. shard_lock' \subseteq shard_lock
  BY Zenon DEF CreateExecuted
<1>7. SUFFICES /\ worker' \in [Host -> Worker] /\ faults' \in Nat /\ faults' <= MaxFaults
               /\ \A g \in Host : Local(g)'
  <2>1. ASSUME worker' \in [Host -> Worker], faults' \in Nat, faults' <= MaxFaults
        PROVE  Types'
    BY Zenon, <1>0, <1>1, <1>5, <1>6, <2>1 DEF Types
  <2> QED
    BY Zenon, <1>3, <1>4, <2>1 DEF WInv
<1>8. CASE LoseAnswer(h) /\ UNCHANGED shard_lock
  <2>1. faults' = faults + 1
    BY Zenon, <1>8 DEF LoseAnswer
  <2>2. \A g \in Host : Quiet(g)
    BY <1>1, <1>2, <1>8, <2>1, QuietNodes
  <2> QED
    BY Zenon, <1>1, <1>8, <2>2, LoseAnswerKeeps
<1>9. CASE /\ shard_lock' = shard_lock \ {Node(h, w.task)} /\ UNCHANGED faults
           /\ worker' = [worker EXCEPT ![h].pc = "terminated"]
  <2> DEFINE v == [w EXCEPT !.pc = "terminated"]
  <2>1. worker' = [worker EXCEPT ![h] = v]
    BY Zenon, <1>0, <1>9 DEF Types
  <2>2. /\ v \in Worker /\ v.pc = "terminated" /\ v.session = w.session /\ v.last_processed = w.last_processed
        /\ v.task = w.task /\ v.was_executed = w.was_executed /\ v.ok = w.ok /\ v.todo = w.todo
    BY Zenon, <1>2 DEF Worker
  <2> HIDE DEF v
  <2>3. worker'[h] = v
    BY Zenon, <1>0, <2>1, Change
  <2>4. ASSUME NEW g \in Host \ {h}
        PROVE  Quiet(g)
    BY <1>1, <1>2, <1>9, <2>4, QuietNodes DEF Node
  <2>5. Quiet(h)
    <3>1. \A t : Ends(t, h)' <=> Ends(t, h)
      BY Zenon, <1>1 DEF Ends
    <3>2. worker'[h].pc # worker[h].pc
      BY Zenon, <1>1, <2>2, <2>3
    <3> QED
      BY <1>1, <1>2, <1>9, <3>1, <3>2 DEF Quiet
  <2>6. v.session <= faults' + 1
    BY Zenon, <1>0, <1>9, <2>2 DEF Bounded
  <2>7. worker' \in [Host -> Worker] /\ \A g \in Host : Local(g)'
    BY Zenon, <1>1, <2>1, <2>2, <2>4, <2>5, <2>6, RestKeeps
  <2> QED
    BY Zenon, <1>0, <1>9, <2>7 DEF Types
<1>10. CASE shard_lock' = shard_lock \ {Node(h, w.task)} /\ UNCHANGED faults /\ AlterDone(h, TRUE)
  <2>1. Local(h)' /\ worker' \in [Host -> Worker] /\ \A g \in Host \ {h} : worker'[g] = worker[g]
    BY Zenon, <1>1, <1>2, <1>10, AlterDoneKeeps
  <2>2. ASSUME NEW g \in Host \ {h}
        PROVE  Quiet(g)
    BY <1>1, <1>2, <1>10, <2>2, QuietNodes DEF Node
  <2>3. \A g \in Host \ {h} : Local(g)'
    BY Zenon, <2>1, <2>2, OthersKeep
  <2> QED
    BY Zenon, <1>0, <1>10, <2>1, <2>3 DEF Types
<1> QED
  BY Zenon, <1>8, <1>9, <1>10 DEF CreateExecuted

LEMMA CommitStep ==
    ASSUME WInv, NEW h \in Host, Commit(h)
    PROVE  WInv'
<1>0. Types /\ Bounded(h) /\ Ordered(h) /\ Doing(h) /\ Ran(h) /\ Once /\ ExecutedRan /\ SuccessMeansRun
  BY Zenon DEF WInv, Local
<1> DEFINE w == worker[h]
           mine == {n \in Of(active, w.task) : n[2] = h}
<1>1. w.pc = "commit" /\ UNCHANGED <<enqueued, queue, status_dirs, shard_lock, executed, runs, unrecorded>>
  BY Zenon DEF Commit
<1>2. w \in Worker /\ faults \in Nat /\ w.was_executed /\ w.task # 0 /\ w.ok \in BOOLEAN
  BY Zenon, <1>0, <1>1, WorkerTypes DEF Types, Doing
<1>3. w.task \in Task
  BY Zenon, <1>0, <1>2, TaskTypes
<1>4. CASE worker' = [worker EXCEPT ![h].pc = "terminated"] /\ UNCHANGED <<active, finished, faults>>
  <2>1. worker' = [worker EXCEPT ![h] = [worker[h] EXCEPT !.pc = "terminated"]]
    BY Zenon, <1>0, <1>4 DEF Types
  <2>2. UNCHANGED <<enqueued, nodes, runs, unrecorded, faults>>
    BY Zenon, <1>1, <1>4 DEF nodes
  <2> QED
    BY Zenon, <1>1, <2>1, <2>2, Terminates
<1>5. CASE active' = active \ mine /\ finished' = finished \cup {<<w.task, h, w.ok>>} /\ Answer(h, Processed(w))
  <2>1. Once' /\ ExecutedRan'
    BY Zenon, <1>0, <1>1 DEF Once, ExecutedRan
  <2>2. SuccessMeansRun'
    <3>1. w.ok => \E g \in Host : runs[w.task][g] > 0 /\ (w.task \notin Alters => g = h)
      BY Zenon, <1>0, <1>2 DEF Doing
    <3> QED
      BY <1>0, <1>1, <1>5, <3>1 DEF SuccessMeansRun
  <2>3. finished' \subseteq Task \X Host \X BOOLEAN
    BY <1>0, <1>2, <1>3, <1>5 DEF Types
  <2>4. SUFFICES /\ worker' \in [Host -> Worker] /\ faults' \in Nat /\ faults' <= MaxFaults
                 /\ \A g \in Host : Local(g)'
    <3>1. ASSUME worker' \in [Host -> Worker], faults' \in Nat, faults' <= MaxFaults
          PROVE  Types'
      BY Zenon, <1>0, <1>1, <1>5, <2>3, <3>1 DEF Types
    <3> QED
      BY Zenon, <2>1, <2>2, <3>1 DEF WInv
  <2>5. ASSUME NEW g \in Host \ {h}, faults' \in {faults, faults + 1}
        PROVE  Quiet(g)
    <3>1. \A t : Ends(t, g)' <=> Ends(t, g)
      BY Zenon, <1>5 DEF Ends
    <3>2. faults' \in Nat /\ faults' >= faults
      BY <1>2, <2>5
    <3> QED
      BY Zenon, <1>1, <3>1, <3>2 DEF Quiet
  <2>6. CASE LoseAnswer(h)
    <3>1. faults' = faults + 1 /\ faults' >= faults /\ faults' \in Nat
      BY <1>2, <2>6 DEF LoseAnswer
    <3>2. worker'[h].pc = "list"
      BY Zenon, <1>0, <1>2, <2>6 DEF LoseAnswer, Recovering, Types, Worker
    <3>3. \A t : Ends(t, h) => Ends(t, h)'
      BY Zenon, <1>5 DEF Ends
    <3>4. Quiet(h)
      BY Zenon, <1>1, <3>1, <3>2, <3>3 DEF Quiet
    <3> QED
      BY Zenon, <1>1, <2>5, <2>6, <3>1, <3>4, LoseAnswerKeeps
  <2>7. CASE worker' = [worker EXCEPT ![h] = Processed(w)] /\ UNCHANGED faults
    <3>1. worker'[h] = Processed(w) /\ \A g \in Host \ {h} : worker'[g] = worker[g]
      BY Zenon, <1>0, <2>7, Change
    <3>2. (\E ok \in BOOLEAN : <<worker[h].task, h, ok>> \in finished') /\ finished \subseteq finished'
      BY Zenon, <1>2, <1>5
    <3>3. worker[h].pc \in Working \ {"alter_executed"}
      BY Zenon, <1>1 DEF Working, Running
    <3>4. Local(h)' /\ Processed(w) \in Worker
      BY Zenon, <1>1, <2>7, <3>1, <3>2, <3>3, ProcessedKeeps
    <3>5. worker' \in [Host -> Worker]
      BY Zenon, <1>0, <2>7, <3>4, Change
    <3>6. \A g \in Host \ {h} : Local(g)'
      BY Zenon, <2>5, <2>7, <3>1, OthersKeep
    <3> QED
      BY Zenon, <1>0, <2>7, <3>4, <3>5, <3>6 DEF Types
  <2> QED
    BY Zenon, <1>5, <2>6, <2>7 DEF Answer
<1> QED
  BY Zenon, <1>4, <1>5 DEF Commit

-----------------------------------------------------------------------------
\* Removal of entries, faults, and new entries

LEMMA NotifiedFields ==
    ASSUME worker \in [Host -> Worker]
    PROVE  /\ Notified(worker) \in [Host -> Worker]
           /\ \A g \in Host :
                 LET v == Notified(worker)[g] IN
                 /\ v.pc = worker[g].pc /\ v.session = worker[g].session
                 /\ v.last_processed = worker[g].last_processed /\ v.task = worker[g].task
                 /\ v.was_executed = worker[g].was_executed /\ v.ok = worker[g].ok /\ v.todo = worker[g].todo
<1> DEFINE N == Notified(worker)
<1>1. N = [h \in Host |-> [worker[h] EXCEPT !.event = TRUE]]
  BY Zenon DEF Notified
<1>2. ASSUME NEW g \in Host
      PROVE  /\ N[g] \in Worker /\ N[g].pc = worker[g].pc /\ N[g].session = worker[g].session
             /\ N[g].last_processed = worker[g].last_processed /\ N[g].task = worker[g].task
             /\ N[g].was_executed = worker[g].was_executed /\ N[g].ok = worker[g].ok /\ N[g].todo = worker[g].todo
  <2>1. N[g] = [worker[g] EXCEPT !.event = TRUE] /\ worker[g] \in Worker
    BY Zenon, <1>1
  <2> HIDE DEF N
  <2> QED
    BY Zenon, <2>1 DEF Worker
<1>3. N \in [Host -> Worker]
  <2> HIDE DEF N
  <2>1. \A g \in Host : [worker[g] EXCEPT !.event = TRUE] \in Worker
    BY Zenon, <1>1, <1>2
  <2> QED
    BY Zenon, <1>1, <2>1
<1> QED
  BY Zenon, <1>2, <1>3

LEMMA cleanupQueueStep ==
    ASSUME WInv, NEW h \in Host, cleanupQueue(h)
    PROVE  WInv'
<1>0. Types
  BY Zenon DEF WInv
<1> DEFINE gone == {t \in queue : Outdated(t) /\ Of(active, t) = {}}
           Kept(S) == {n \in S : n[1] \notin gone}
           woken == IF gone = {} THEN worker ELSE Notified(worker)
<1>1. /\ worker[h].pc = "idle" /\ queue' = queue \ gone /\ status_dirs' = status_dirs \ gone
      /\ executed' = executed \ gone /\ finished' = Kept(finished) /\ shard_lock' = Kept(shard_lock)
      /\ worker' = [woken EXCEPT ![h].pc = "list", ![h].event = (gone # {})]
      /\ UNCHANGED <<enqueued, active, runs, unrecorded, faults>>
  BY Zenon DEF cleanupQueue
<1>2. \A n \in active : n[1] \in queue \ gone
  BY Zenon, <1>0 DEF Types, Of
<1> HIDE DEF gone
<1>3. /\ woken \in [Host -> Worker]
      /\ \A g \in Host : /\ woken[g].pc = worker[g].pc /\ woken[g].session = worker[g].session
                         /\ woken[g].last_processed = worker[g].last_processed /\ woken[g].task = worker[g].task
                         /\ woken[g].was_executed = worker[g].was_executed /\ woken[g].ok = worker[g].ok
                         /\ woken[g].todo = worker[g].todo
  BY Zenon, <1>0, NotifiedFields DEF Types
<1> HIDE DEF woken
<1>4. /\ worker' \in [Host -> Worker] /\ worker'[h].pc = "list"
      /\ \A g \in Host \ {h} : worker'[g] = woken[g]
      /\ worker'[h].session = worker[h].session
      /\ worker'[h].last_processed = worker[h].last_processed /\ worker'[h].task = worker[h].task
      /\ worker'[h].was_executed = worker[h].was_executed /\ worker'[h].ok = worker[h].ok
      /\ worker'[h].todo = worker[h].todo
  <2> DEFINE v == [woken[h] EXCEPT !.pc = "list", !.event = (gone # {})]
  <2>1. worker' = [woken EXCEPT ![h] = v]
    BY Zenon, <1>1, <1>3
  <2>2. woken[h] \in Worker
    BY Zenon, <1>3
  <2>3. /\ v \in Worker /\ v.pc = "list" /\ v.session = woken[h].session
        /\ v.last_processed = woken[h].last_processed /\ v.task = woken[h].task
        /\ v.was_executed = woken[h].was_executed /\ v.ok = woken[h].ok /\ v.todo = woken[h].todo
    BY Zenon, <2>2 DEF Worker
  <2> HIDE DEF v
  <2>4. worker'[h] = v /\ worker' \in [Host -> Worker] /\ \A g \in Host \ {h} : worker'[g] = woken[g]
    BY Zenon, <1>3, <2>1, <2>3
  <2> QED
    BY Zenon, <1>3, <2>3, <2>4
<1>5. ASSUME NEW g \in Host
      PROVE  Local(g)'
  <2>1. Keeps(g)
    <3>1. Bounded(g) /\ faults' = faults
      BY Zenon, <1>1 DEF WInv, Local
    <3>2. CASE g = h
      BY Zenon, <1>1, <1>4, <3>1, <3>2 DEF Keeps, Bounded
    <3>3. CASE g # h
      BY <1>3, <1>4, <3>3 DEF Keeps
    <3> QED
      BY Zenon, <3>2, <3>3
  <2>2. \A t \in queue' : Ends(t, g) => Ends(t, g)'
    BY Zenon, <1>1 DEF Ends
  <2>3. \A t : Ends(t, g)' => Ends(t, g)
    BY Zenon, <1>1 DEF Ends
  <2>4. \A n \in shard_lock : n[1] \in queue' => n \in shard_lock'
    BY Zenon, <1>1
  <2>5. executed \cap queue' \subseteq executed' /\ queue' \subseteq queue /\ faults \in Nat /\ faults' = faults
    BY Zenon, <1>0, <1>1 DEF Types
  <2>6. Quiet(g)
    BY <1>1, <2>2, <2>3, <2>4, <2>5 DEF Quiet
  <2> QED
    BY Zenon, <2>1, <2>6, LocalKeeps
<1>6. Once' /\ ExecutedRan' /\ SuccessMeansRun'
  BY Zenon, <1>1, ResultsKeep
<1>7. Types'
  <2>1. /\ queue' \subseteq queue /\ status_dirs' \subseteq queue' /\ executed' \subseteq executed
        /\ finished' \subseteq finished /\ shard_lock' \subseteq shard_lock
    BY Zenon, <1>0, <1>1 DEF Types
  <2> QED
    BY Zenon, <1>0, <1>1, <1>2, <1>4, <2>1 DEF Types
<1> QED
  BY Zenon, <1>5, <1>6, <1>7 DEF WInv

LEMMA ConnectionLossStep ==
    ASSUME WInv, NEW h \in Host, ConnectionLoss(h)
    PROVE  WInv'
<1>0. Types /\ Bounded(h) /\ Ordered(h)
  BY Zenon DEF WInv, Local
<1>1. LoseAnswer(h) /\ UNCHANGED <<enqueued, nodes, runs>> /\ faults' = faults + 1 /\ faults \in Nat
  BY Zenon, <1>0 DEF ConnectionLoss, LoseAnswer, Types
<1>2. /\ unrecorded' = IF worker[h].pc = "alter_executed" THEN unrecorded \cup {worker[h].task} ELSE unrecorded
      /\ worker[h].pc = "alter_executed" => worker[h].task \in Task
  BY Zenon, <1>0, TaskTypes DEF ConnectionLoss, Ordered, Working, Running
<1>3. /\ queue' = queue /\ enqueued' = enqueued /\ finished' = finished /\ runs' = runs
      /\ executed' = executed /\ shard_lock' = shard_lock /\ status_dirs' = status_dirs /\ active' = active
  BY Zenon, <1>1 DEF nodes
<1>4. \A g \in Host : Quiet(g)
  BY <1>1, <1>2, <1>3, QuietNodes
<1>5. worker' \in [Host -> Worker] /\ faults' \in Nat /\ faults' <= MaxFaults /\ \A g \in Host : Local(g)'
  BY Zenon, <1>1, <1>2, <1>4, LoseAnswerKeeps
<1>6. Once' /\ ExecutedRan' /\ SuccessMeansRun'
  BY Zenon, <1>2, <1>3, ResultsKeep
<1>7. Types'
  BY Zenon, <1>0, <1>2, <1>3, <1>5 DEF Types
<1> QED
  BY Zenon, <1>5, <1>6, <1>7 DEF WInv

LEMMA SessionExpiresStep ==
    ASSUME WInv, NEW h \in Host, SessionExpires(h)
    PROVE  WInv'
<1>0. Types
  BY Zenon DEF WInv
<1>1. /\ active' \subseteq active /\ shard_lock' = {n \in shard_lock : n[2] = h => n[3] = worker[h].session}
      /\ UNCHANGED <<enqueued, queue, status_dirs, finished, executed, worker, runs, unrecorded, faults>>
      /\ faults \in Nat
  BY Zenon, <1>0 DEF SessionExpires, Types
<1>2. ASSUME NEW g \in Host
      PROVE  Local(g)'
  <2>1. Quiet(g)
    BY <1>1, QuietNodes
  <2>2. Keeps(g)
    BY Zenon, <1>1 DEF Keeps
  <2> QED
    BY Zenon, <2>1, <2>2, LocalKeeps
<1>3. Once' /\ ExecutedRan' /\ SuccessMeansRun'
  BY Zenon, <1>1, ResultsKeep
<1>4. Types'
  BY Zenon, <1>0, <1>1 DEF Types
<1> QED
  BY Zenon, <1>2, <1>3, <1>4 DEF WInv

\* A worker that starts knows nothing; what it had run and not recorded is unrecorded
LEMMA CrashStep ==
    ASSUME WInv, NEW h \in Host, Crash(h)
    PROVE  WInv'
<1>0. Types /\ Bounded(h) /\ Ordered(h) /\ Doing(h) /\ Ran(h)
  BY Zenon DEF WInv, Local
<1> DEFINE w == worker[h]
           s == NewSession(h)
           v == NewWorker(s)
<1>1. /\ faults < MaxFaults /\ faults' = faults + 1 /\ worker' = [worker EXCEPT ![h] = v]
      /\ unrecorded' = IF w.pc = "alter_executed" \/ (w.was_executed /\ w.task \notin Alters)
                       THEN unrecorded \cup {w.task} ELSE unrecorded
      /\ queue' = queue /\ enqueued' = enqueued /\ finished' = finished /\ runs' = runs
      /\ executed' = executed /\ shard_lock' = shard_lock /\ status_dirs' = status_dirs /\ active' = active
  BY Zenon DEF Crash, nodes
<1>2. w.session \in Nat \ {0} /\ faults \in Nat /\ MaxFaults \in Nat /\ w.session <= faults + 1
  BY Zenon, <1>0, WorkerTypes, DDLConstants DEF Types, Bounded
<1>3. s \in Nat \ {0} /\ s <= faults' + 1 /\ faults' \in Nat /\ faults' <= MaxFaults /\ faults' >= faults
  BY <1>1, <1>2 DEF NewSession
<1> HIDE DEF s
<1>4. /\ v \in Worker /\ v.pc = "list" /\ v.session = s /\ v.last_processed = 0 /\ v.task = 0
      /\ v.was_executed = FALSE /\ v.todo = {}
  BY Zenon, <1>3 DEF NewWorker, Worker
<1> HIDE DEF v
<1>5. worker'[h] = v /\ worker' \in [Host -> Worker] /\ \A g \in Host \ {h} : worker'[g] = worker[g]
  BY Zenon, <1>0, <1>1, <1>4, Change
<1>6. unrecorded \subseteq unrecorded' /\ unrecorded' \subseteq Task
  <2>1. w.pc = "alter_executed" \/ w.was_executed => w.task \in Task
    BY Zenon, <1>0, TaskTypes DEF Ordered, Doing, Working, Running
  <2> QED
    BY Zenon, <1>0, <1>1, <2>1 DEF Types
<1>7. \A g \in Host : Quiet(g)
  BY Zenon, <1>1, <1>3, <1>6, QuietNodes
<1>8. \A g \in Host \ {h} : Local(g)'
  BY Zenon, <1>5, <1>7, OthersKeep
<1>9. Local(h)'
  <2>1. Bounded(h)'
    BY <1>0, <1>1, <1>3, <1>4, <1>5 DEF Bounded, Types
  <2>2. Ordered(h)'
    <3>1. \A t \in queue : ~(t <= 0)
      BY <1>0, QueueTypes
    <3> QED
      BY Zenon, <1>1, <1>4, <1>5, <3>1 DEF Ordered, Working, Running
  <2>3. Doing(h)'
    BY Zenon, <1>4, <1>5 DEF Doing, Working, Running
  <2>4. Ran(h)'
    <3>1. \A t : Ends(t, h)' <=> Ends(t, h)
      BY Zenon, <1>1 DEF Ends
    <3>2. \A u \in Task : runs[u][h] > 0 => \A t \in queue : t < u => Ends(t, h)
      BY Zenon, <1>0 DEF Ran
    <3>3. ASSUME NEW t \in queue \ unrecorded', runs[t][h] > 0
          PROVE  IF t \in Alters THEN t \in executed ELSE Ends(t, h)
      BY Zenon, <1>0, <1>1, <1>6, <3>3 DEF Ran
    <3> QED
      BY Zenon, <1>1, <3>1, <3>2, <3>3 DEF Ran
  <2> QED
    BY Zenon, <2>1, <2>2, <2>3, <2>4 DEF Local
<1>10. Once' /\ ExecutedRan' /\ SuccessMeansRun'
  BY Zenon, <1>1, <1>6, ResultsKeep
<1>11. Types'
  BY Zenon, <1>0, <1>1, <1>3, <1>5, <1>6 DEF Types
<1> QED
  BY Zenon, <1>8, <1>9, <1>10, <1>11 DEF WInv

\* A new entry is after everything a worker has listed, taken or run
LEMMA enqueueQueryStep ==
    ASSUME WInv, enqueueQuery
    PROVE  WInv'
<1>0. Types /\ Once
  BY Zenon DEF WInv
<1> DEFINE e == enqueued + 1
<1>1. /\ enqueued < MaxTasks /\ enqueued' = e /\ queue' = queue \cup {e} /\ worker' = Notified(worker)
      /\ active' = active /\ finished' = finished /\ shard_lock' = shard_lock /\ executed' = executed
      /\ runs' = runs /\ unrecorded' = unrecorded
      /\ status_dirs' \subseteq status_dirs \cup {e}
      /\ faults' = faults \/ (faults < MaxFaults /\ faults' = faults + 1)
  BY Zenon DEF enqueueQuery
<1>2. enqueued \in Nat /\ MaxTasks \in Nat /\ faults \in Nat /\ MaxFaults \in Nat /\ faults <= MaxFaults
  BY Zenon, <1>0, DDLConstants DEF Types
<1>3. e \in Nat /\ e > enqueued /\ e <= MaxTasks /\ e >= 1 /\ e \in Task
  BY <1>1, <1>2 DEF Task
<1>4. faults' \in Nat /\ faults' <= MaxFaults /\ faults' >= faults
  BY <1>1, <1>2
<1> HIDE DEF e
<1>5. queue \subseteq Nat /\ queue \subseteq Task /\ Task \subseteq Nat /\ \A t \in queue : t > 0 /\ t <= enqueued
  BY Zenon, <1>0, QueueTypes
<1>6. \A u \in Task, h \in Host : u >= e => runs[u][h] = 0
  <2>1. \A u \in Task, h \in Host : runs[u][h] \in Nat /\ (runs[u][h] > 0 => u <= enqueued)
    BY Zenon, <1>0 DEF Types
  <2> QED
    BY <1>2, <1>3, <1>5, <2>1
<1>7. worker' \in [Host -> Worker]
  BY Zenon, <1>0, <1>1, NotifiedFields DEF Types
<1>8. ASSUME NEW g \in Host
      PROVE  Local(g)'
  <2>0. Bounded(g) /\ Ordered(g) /\ Doing(g) /\ Ran(g)
    BY Zenon DEF WInv, Local
  <2>1. /\ worker'[g].pc = worker[g].pc /\ worker'[g].session = worker[g].session
        /\ worker'[g].last_processed = worker[g].last_processed /\ worker'[g].task = worker[g].task
        /\ worker'[g].was_executed = worker[g].was_executed /\ worker'[g].ok = worker[g].ok
        /\ worker'[g].todo = worker[g].todo
    BY Zenon, <1>0, <1>1, NotifiedFields DEF Types
  <2>2. /\ worker[g].session \in Nat /\ worker[g].last_processed \in Nat /\ worker[g].task \in Nat
        /\ worker[g].todo \subseteq Nat
    BY Zenon, <1>0, WorkerTypes
  <2>3. \A t : Ends(t, g)' <=> Ends(t, g)
    BY Zenon, <1>1 DEF Ends
  <2>4. e > worker[g].last_processed /\ e > worker[g].task /\ \A t \in worker[g].todo : t < e
    BY <1>2, <1>3, <2>0, <2>2 DEF Bounded
  <2>5. Bounded(g)'
    BY <1>1, <1>2, <1>3, <1>4, <2>0, <2>1, <2>2 DEF Bounded
  <2>6. Ordered(g)'
    <3>1. \A t \in queue' : t <= worker[g].last_processed => Ends(t, g)'
      BY <1>1, <1>3, <2>0, <2>2, <2>3, <2>4 DEF Ordered
    <3>2. worker[g].task # 0 => \A t \in queue' : t > worker[g].last_processed => t >= worker[g].task
      BY <1>1, <1>3, <2>0, <2>2, <2>4 DEF Ordered
    <3>3. worker[g].pc \in Working \cup {"next"} =>
            \A t \in queue' : t > worker[g].last_processed =>
                t \in worker[g].todo \/ (worker[g].pc \in Working /\ t = worker[g].task)
                \/ \A u \in worker[g].todo : u < t
      BY Zenon, <1>1, <2>0, <2>4 DEF Ordered
    <3>4. worker[g].task \in queue' => worker[g].task \in queue
      BY <1>1, <1>3, <2>2, <2>4
    <3> QED
      BY Zenon, <2>0, <2>1, <3>1, <3>2, <3>3, <3>4 DEF Ordered
  <2>7. Doing(g)'
    <3>1. worker[g].task \in queue' => worker[g].task \in queue
      BY <1>1, <1>3, <2>2, <2>4
    <3>2. worker[g].pc \in Working \ {"check"} => ~Ends(worker[g].task, g)'
      BY Zenon, <1>1, <2>0, <2>1 DEF Doing, Ends
    <3>3. Node(g, worker[g].task)' = Node(g, worker[g].task)
      BY Zenon, <2>1 DEF Node
    <3> QED
      BY Zenon, <1>1, <2>0, <2>1, <3>1, <3>2, <3>3 DEF Doing
  <2>8. Ran(g)'
    <3>1. ASSUME NEW u \in Task, runs[u][g] > 0, NEW t \in queue', t < u
          PROVE  Ends(t, g)
      <4>1. t # e
        <5>1. SUFFICES ASSUME t = e
                       PROVE  FALSE
          OBVIOUS
        <5>2. u \in Nat /\ u >= e
          BY <1>3, <1>5, <3>1, <5>1
        <5> QED
          BY <1>6, <3>1, <5>2
      <4> QED
        BY Zenon, <1>1, <2>0, <3>1, <4>1 DEF Ran
    <3>2. ASSUME NEW t \in queue' \ unrecorded, runs[t][g] > 0
          PROVE  t \in queue
      BY <1>1, <1>3, <1>6, <3>2
    <3> QED
      BY Zenon, <1>1, <2>0, <2>1, <2>3, <3>1, <3>2 DEF Ran
  <2> QED
    BY Zenon, <2>5, <2>6, <2>7, <2>8 DEF Local
<1>9. Once'
  <2>1. \A h \in Host : runs[e][h] = 0
    BY <1>3, <1>6
  <2> QED
    BY <1>0, <1>1, <2>1 DEF Once
<1>10. ExecutedRan' /\ SuccessMeansRun'
  BY Zenon, <1>1, ResultsOfRuns
<1>11. Types'
  <2>1. queue' \subseteq 1..enqueued'
    BY <1>1, <1>2, <1>3, <1>5
  <2>2. status_dirs' \subseteq queue' /\ \A n \in active' : n[1] \in queue'
    BY Zenon, <1>0, <1>1 DEF Types
  <2>3. \A t \in Task, h \in Host : runs'[t][h] > 0 => t <= enqueued'
    <3>1. \A t \in Task, h \in Host : runs[t][h] > 0 => t <= enqueued
      BY Zenon, <1>0 DEF Types
    <3>2. \A t \in Task : t <= enqueued => t <= e
      BY <1>2, <1>3, <1>5
    <3> QED
      BY Zenon, <1>1, <3>1, <3>2
  <2> QED
    BY Zenon, <1>0, <1>1, <1>3, <1>4, <1>7, <2>1, <2>2, <2>3 DEF Types
<1> QED
  BY Zenon, <1>8, <1>9, <1>10, <1>11 DEF WInv

-----------------------------------------------------------------------------
\* What holds of every execution

LEMMA InitWInv == Init => WInv
<1> SUFFICES ASSUME Init
             PROVE  WInv
  OBVIOUS
<1>1. /\ enqueued = 0 /\ queue = {} /\ status_dirs = {} /\ active = {} /\ finished = {}
      /\ shard_lock = {} /\ executed = {} /\ unrecorded = {} /\ faults = 0
      /\ worker = [h \in Host |-> NewWorker(1)] /\ runs = [t \in Task |-> [h \in Host |-> 0]]
  BY Zenon DEF Init
<1>2. /\ NewWorker(1) \in Worker /\ NewWorker(1).pc = "list" /\ NewWorker(1).session = 1
      /\ NewWorker(1).last_processed = 0 /\ NewWorker(1).task = 0
      /\ NewWorker(1).was_executed = FALSE /\ NewWorker(1).todo = {}
  BY DEF NewWorker, Worker
<1>3. runs \in [Task -> [Host -> Nat]] /\ \A t \in Task, h \in Host : runs[t][h] = 0
  BY Zenon, <1>1
<1>4. Types
  BY <1>1, <1>2, <1>3, DDLConstants DEF Types
<1>5. ASSUME NEW h \in Host
      PROVE  Local(h)
  <2>1. worker[h] = NewWorker(1)
    BY Zenon, <1>1
  <2>2. Bounded(h) /\ Ordered(h) /\ Doing(h)
    BY <1>1, <1>2, <2>1 DEF Bounded, Ordered, Doing, Working, Running
  <2>3. Ran(h)
    BY Zenon, <1>1, <1>3 DEF Ran
  <2> QED
    BY Zenon, <2>2, <2>3 DEF Local
<1> QED
  BY Zenon, <1>1, <1>4, <1>5 DEF WInv, Once, ExecutedRan, SuccessMeansRun

LEMMA NextWInv == ASSUME Least, WInv, [Next]_vars PROVE WInv'
<1>1. CASE enqueueQuery
  BY Zenon, <1>1, enqueueQueryStep
<1>2. ASSUME NEW h \in Host, WorkerStep(h)
      PROVE  WInv'
  BY Zenon, <1>2, processTasksStep, NextTaskStep, CheckFinishedStep, CreateActiveStep, createStatusDirsStep,
     AlterDoneStep, TryLockStep, ShardGoneStep, CreateExecutedStep, CommitStep, cleanupQueueStep DEF WorkerStep
<1>3. ASSUME NEW h \in Host, ConnectionLoss(h) \/ SessionExpires(h) \/ Crash(h)
      PROVE  WInv'
  BY Zenon, <1>3, ConnectionLossStep, SessionExpiresStep, CrashStep
<1>4. CASE UNCHANGED vars
  <2>1. /\ queue' = queue /\ enqueued' = enqueued /\ finished' = finished /\ runs' = runs /\ worker' = worker
        /\ executed' = executed /\ shard_lock' = shard_lock /\ status_dirs' = status_dirs /\ active' = active
        /\ faults' = faults /\ unrecorded' = unrecorded
    BY Zenon, <1>4 DEF vars, nodes
  <2>2. Types /\ faults \in Nat
    BY Zenon DEF WInv, Types
  <2>3. \A g \in Host : Quiet(g)
    BY <2>1, <2>2, QuietNodes
  <2>4. \A g \in Host : Keeps(g)
    BY Zenon, <2>1 DEF Keeps
  <2>5. \A g \in Host : Local(g)'
    BY Zenon, <2>3, <2>4, LocalKeeps
  <2>6. Once' /\ ExecutedRan' /\ SuccessMeansRun'
    BY Zenon, <2>1, ResultsKeep
  <2>7. Types'
    BY Zenon, <2>1, <2>2 DEF Types
  <2> QED
    BY Zenon, <2>5, <2>6, <2>7 DEF WInv
<1> QED
  BY Zenon, <1>1, <1>2, <1>3, <1>4 DEF Next

\* A query is run only when the host has run none of the later entries
LEMMA RunInOrder ==
    ASSUME WInv, [Next]_vars, NEW t \in Task, NEW h \in Host, runs'[t][h] # runs[t][h]
    PROVE  \A u \in t + 1..MaxTasks : runs[u][h] = 0
<1>0. Types
  BY Zenon DEF WInv
<1>1. PICK g \in Host : CreateActive(g) \/ TryLock(g)
  BY Zenon DEF Next, vars, WorkerStep, enqueueQuery, processTasks, NextTask, CheckFinished, createStatusDirs,
         AlterExecuted, GiveUp, ShardGone, CreateExecuted, Commit, cleanupQueue, ConnectionLoss, SessionExpires, Crash
<1>2. Bounded(g) /\ Ordered(g) /\ Doing(g)
  BY Zenon DEF WInv, Local
<1>3. /\ worker[g].pc \in {"check", "again", "alter"}
      /\ runs' = runs \/ runs' = [runs EXCEPT ![worker[g].task][g] = @ + 1]
      /\ worker[g].pc = "check" => ~AlreadyProcessed(g)
  BY Zenon, <1>1 DEF CreateActive, AfterActive, TryLock
<1>4. worker[g].task \in Task /\ worker[g].task <= enqueued
  BY Zenon, <1>0, <1>2, <1>3, TaskTypes DEF Ordered, Bounded, Working, Running
<1>5. t = worker[g].task /\ h = g
  BY <1>0, <1>3, <1>4 DEF Types
<1>6. \A u \in Task : u > t => runs[u][h] = 0
  <2>1. CASE worker[g].pc = "alter"
    BY Zenon, <1>2, <1>5, <2>1 DEF Doing, Running
  <2>2. CASE worker[g].pc \in {"check", "again"}
    <3>1. ~Ends(worker[g].task, g)
      BY Zenon, <1>2, <1>3, <2>2 DEF Doing, Working, Running, AlreadyProcessed, Ends
    <3>2. CreateActive(g)
      BY Zenon, <1>1, <2>2 DEF TryLock
    <3>3. worker[g].task \in queue
      <4>1. worker[g].task \in status_dirs \/ Of(active, worker[g].task) # {}
        BY Zenon, <3>2 DEF CreateActive
      <4> QED
        BY Zenon, <1>0, <4>1 DEF Types, Of
    <3> QED
      BY Zenon, <1>5, <3>1, <3>3, NoLaterRun
  <2> QED
    BY Zenon, <1>3, <2>1, <2>2
<1>7. MaxTasks \in Nat /\ t \in Nat
  BY DDLConstants DEF Task
<1> QED
  BY <1>6, <1>7 DEF Task

WF == INSTANCE WellFoundedInduction

LEMMA LeastNumber == Least
<1> DEFINE R == {p \in Nat \X Nat : p[1] < p[2]}
<1>1. WF!IsWellFoundedOn(R, Nat)
  BY Zenon, WF!NatLessThanWellFounded DEF WF!OpToRel
<1>2. ASSUME NEW S \in SUBSET Nat, S # {}
      PROVE  \E m \in S : \A k \in S : m <= k
  <2>1. PICK m \in S : \A k \in S : ~(<<k, m>> \in R)
    BY Zenon, <1>1, <1>2, WF!WFMin
  <2>2. ASSUME NEW k \in S
        PROVE  m <= k
    <3>1. k \in Nat /\ m \in Nat /\ <<k, m>> \in Nat \X Nat
      OBVIOUS
    <3>2. ~(<<k, m>>[1] < <<k, m>>[2])
      BY Zenon, <2>1, <3>1
    <3>3. ~(k < m)
      BY Zenon, <3>2
    <3> QED
      BY <3>1, <3>3
  <2> QED
    BY Zenon, <2>2
<1> QED
  BY Zenon, <1>2 DEF Least

\* The queue, the nodes of every session and what each worker has read fit together in every
\* state, whatever crashes and lost connections there are between the requests
THEOREM WorkerInvariant == Spec => []WInv
<1>1. WInv /\ [Next]_vars => WInv'
  BY Zenon, LeastNumber, NextWInv
<1> QED
  BY <1>1, InitWInv, PTL DEF Spec

\* While an entry is in the queue, a host runs its query at most once and one replica runs an
\* ALTER, unless a worker crashed or lost the connection before it could take note of the run
THEOREM QueriesRunOnce == Spec => []RunOnce
<1>1. WInv => RunOnce
  <2> SUFFICES ASSUME WInv
               PROVE  RunOnce
    OBVIOUS
  <2>1. Types /\ Once
    BY Zenon DEF WInv
  <2>2. \A h \in Host : worker[h].last_processed \in 0..enqueued /\ worker[h].task \in 0..enqueued
    <3>1. ASSUME NEW h \in Host
          PROVE  worker[h].last_processed \in 0..enqueued /\ worker[h].task \in 0..enqueued
      <4>1. worker[h].last_processed \in Nat /\ worker[h].task \in Nat
        BY Zenon, <2>1, WorkerTypes
      <4>2. worker[h].last_processed <= enqueued /\ worker[h].task <= enqueued /\ enqueued \in Nat
        BY Zenon, <2>1 DEF WInv, Local, Bounded, Types
      <4> QED
        BY <4>1, <4>2
    <3> QED
      BY Zenon, <3>1
  <2>3. enqueued \in 0..MaxTasks /\ faults \in 0..MaxFaults
    BY <2>1, DDLConstants DEF Types
  <2>4. TypeOK
    BY Zenon, <2>1, <2>2, <2>3 DEF Types, TypeOK
  <2> QED
    BY Zenon, <2>1, <2>4 DEF RunOnce, Once
<1> QED
  BY <1>1, WorkerInvariant, PTL

\* A node in finished/ that reports success is there only after the host has run the query, or
\* for an ALTER one of the replicas
THEOREM SuccessIsReal == Spec => []SuccessMeansRun
<1>1. WInv => SuccessMeansRun
  BY Zenon DEF WInv
<1> QED
  BY <1>1, WorkerInvariant, PTL

\* A host never runs an entry after it has run a later one, also when it goes back to a task
\* that it kept from before a lost connection
THEOREM EntriesInOrder == Spec => InOrder
<1>1. WInv /\ [Next]_vars =>
        [\A t \in Task, h \in Host :
            runs'[t][h] # runs[t][h] => \A u \in t + 1..MaxTasks : runs[u][h] = 0]_vars
  BY Zenon, RunInOrder
<1> QED
  BY <1>1, WorkerInvariant, PTL DEF Spec, InOrder
=============================================================================
