----------------------- MODULE ConcurrentBoundedQueue -----------------------
(***************************************************************************)
(* ConcurrentBoundedQueue: a FIFO of at most max_fill items, guarded by a  *)
(* mutex and two semaphores.  push and pop are three steps each: wait on   *)
(* one semaphore, touch the queue under the mutex, set the other.  Whoever *)
(* uses the queue keeps the place its thread has reached in the call.      *)
(***************************************************************************)
EXTENDS Integers, Sequences

CONSTANT max_fill
VARIABLES queue, fill_count, empty_count

Init ==
    /\ queue = <<>>
    /\ fill_count = 0
    /\ empty_count = max_fill

\* Defective variant: a full queue does not stop the writer
PushWait_NoWait ==
    /\ empty_count' = IF empty_count > 0 THEN empty_count - 1 ELSE 0
    /\ UNCHANGED <<queue, fill_count>>

PushWait ==
    /\ empty_count > 0
    /\ empty_count' = empty_count - 1
    /\ UNCHANGED <<queue, fill_count>>

PushItem(x) ==
    /\ queue' = Append(queue, x)
    /\ UNCHANGED <<fill_count, empty_count>>

\* Poco::Semaphore::set throws when the count is at its maximum
PushSet ==
    /\ fill_count < max_fill
    /\ fill_count' = fill_count + 1
    /\ UNCHANGED <<queue, empty_count>>

PopWait ==
    /\ fill_count > 0
    /\ fill_count' = fill_count - 1
    /\ UNCHANGED <<queue, empty_count>>

PopItem ==
    /\ queue' = Tail(queue)
    /\ UNCHANGED <<fill_count, empty_count>>

PopSet ==
    /\ empty_count < max_fill
    /\ empty_count' = empty_count + 1
    /\ UNCHANGED <<queue, fill_count>>
=============================================================================
