----------------------------- MODULE RWLockFIFO -----------------------------
(***************************************************************************)
(* RWLockFIFO: shared locks with FIFO service.  The queue of a lock is a   *)
(* list of groups, several readers or one writer each; the first group     *)
(* holds the lock and the clients of the others wait on the condition      *)
(* variable of their group.  A thread that has a handler already, whether  *)
(* for reading or for writing, is found by its id (thread_to_handler); a   *)
(* thread has a handler exactly when it is a client of some group.         *)
(***************************************************************************)
EXTENDS Integers, Sequences, FiniteSets

CONSTANTS Thread, Lock

VARIABLES
    queue,      \* of each lock
    waiting     \* of each lock: the threads blocked in cv.wait

Group == [type : {"Read", "Write"}, clients : SUBSET Thread]

LocksInit ==
    /\ queue = [l \in Lock |-> <<>>]
    /\ waiting = [l \in Lock |-> {}]

\* thread_to_handler.find, and the group of the handler
HasHandler(l, t) == \E i \in DOMAIN queue[l] : t \in queue[l][i].clients
GroupOf(l, t)    == CHOOSE i \in DOMAIN queue[l] : t \in queue[l][i].clients

\* Defective variant: a thread that has the lock queues up again
Recursive_Never(l, t) == FALSE

\* A recursive call returns the handler the thread has, and only readers may make one
Recursive(l, t) == HasHandler(l, t)
Throws(l, t, type) ==
    Recursive(l, t) /\ ~(type = "Read" /\ queue[l][GroupOf(l, t)].type = "Read")

\* Defective variant: a reader joins the last group, whoever is in it
Enqueued_JoinsAny(l, t, type) ==
    LET q == queue[l]
    IN IF type = "Write" \/ q = <<>>
       THEN Append(q, [type |-> type, clients |-> {t}])
       ELSE [q EXCEPT ![Len(q)].clients = @ \cup {t}]

\* The queue when t has joined it: readers join a last group of readers
Enqueued(l, t, type) ==
    LET q == queue[l]
    IN IF type = "Write" \/ q = <<>> \/ q[Len(q)].type = "Write"
       THEN Append(q, [type |-> type, clients |-> {t}])
       ELSE [q EXCEPT ![Len(q)].clients = @ \cup {t}]

\* getLock up to the wait
getLock(l, t, type) ==
    /\ ~Throws(l, t, type)
    /\ IF Recursive(l, t)
       THEN UNCHANGED <<queue, waiting>>
       ELSE /\ queue' = [queue EXCEPT ![l] = Enqueued(l, t, type)]
            /\ waiting' = IF t \in queue'[l][1].clients THEN waiting
                          ELSE [waiting EXCEPT ![l] = @ \cup {t}]

\* getLock has returned
Granted(l, t) == HasHandler(l, t) /\ t \notin waiting[l]

\* The queue without its group i
Without(q, i) == [k \in 1..(Len(q) - 1) |-> IF k < i THEN q[k] ELSE q[k + 1]]

\* Defective variant: the next group is not notified
Notified_Nobody(l, q) == {}

\* notify_all on the condition variable of the group that is first now
Notified(l, q) == IF q = <<>> THEN {} ELSE q[1].clients

\* ~LockHandlerImpl: the last pointer to a handler is gone
Release(l, t) ==
    LET q == queue[l]
        i == GroupOf(l, t)
    IN IF q[i].clients = {t}
       THEN /\ queue' = [queue EXCEPT ![l] = Without(q, i)]
            /\ waiting' = [waiting EXCEPT ![l] = @ \ Notified(l, Without(q, i))]
       ELSE /\ queue' = [queue EXCEPT ![l] = [q EXCEPT ![i].clients = @ \ {t}]]
            /\ UNCHANGED waiting

\* What threads may do with the locks: ask for one when they wait for none, and drop a
\* handler they were given
lock_vars == <<queue, waiting>>
LockNext ==
    \E l \in Lock, t \in Thread :
        \/ /\ \A k \in Lock : t \notin waiting[k]
           /\ \E type \in {"Read", "Write"} : getLock(l, t, type)
        \/ Granted(l, t) /\ Release(l, t)
LockSpec == LocksInit /\ [][LockNext]_lock_vars

-----------------------------------------------------------------------------

LocksTypeOK ==
    /\ queue \in [Lock -> Seq(Group)]
    /\ waiting \in [Lock -> SUBSET Thread]

\* "a group could contain several readers, but only one writer": whoever getLock let
\* through is in the first group, and a writer is alone there
Exclusion ==
    \A l \in Lock : \A t \in Thread : Granted(l, t) =>
        /\ t \in queue[l][1].clients
        /\ queue[l][1].type = "Write" => \A u \in Thread \ {t} : ~Granted(l, u)

\* No notification is lost: the clients of the first group are awake
FirstGroupAwake ==
    \A l \in Lock : queue[l] # <<>> => queue[l][1].clients \cap waiting[l] = {}

\* FIFO service: nobody gets in front of a waiting thread, so neither readers nor writers starve
Ahead(l, t) == UNION {queue[l][i].clients : i \in 1..(GroupOf(l, t) - 1)}
NoOvertaking ==
    [][\A l \in Lock : \A t \in waiting[l] \cap waiting'[l] : Ahead(l, t)' \subseteq Ahead(l, t)]_lock_vars
=============================================================================
