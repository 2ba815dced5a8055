----------------------- MODULE UnionBlockInputStream -----------------------
(***************************************************************************)
(* UnionBlockInputStream: a ParallelInputsProcessor whose handler pushes   *)
(* blocks, exceptions and the end (an empty block) into a                  *)
(* ConcurrentBoundedQueue, and the thread of the query that pops them.     *)
(* The stream may be cancelled by another thread at any time and destroyed *)
(* by its own; its destructor drains the queue and joins the threads.      *)
(***************************************************************************)
EXTENDS ParallelInputsProcessor

VARIABLES
    queue, fill_count, empty_count,   \* output_queue
    handler,                          \* where a thread is in a handler's call
    canceller,                        \* who set is_cancelled
    main, payload,                    \* query thread: where it is, and what it popped
    started, all_read,
    raised,                           \* the exceptions the query thread was given
    destroying,                       \* finalize was called by the destructor
    delivered                         \* history: how often read() returned a block

output_queue == INSTANCE ConcurrentBoundedQueue WITH max_fill <- max_threads

queues  == <<queue, fill_count, empty_count>>
reader  == <<main, payload, started, all_read, raised, destroying, delivered>>
vars    == <<processor, queues, handler, canceller, reader>>

Nobody       == -1
QueryThread  == 0
Other        == max_threads + 1
is_cancelled == canceller # Nobody

Init ==
    /\ ProcessorInit
    /\ output_queue!Init
    /\ handler = [t \in Thread |-> "out"]
    /\ canceller = Nobody
    /\ main = "idle"
    /\ payload = EmptyBlock
    /\ started = FALSE /\ all_read = FALSE
    /\ raised = {} /\ destroying = FALSE
    /\ delivered = [b \in AllBlocks |-> 0]

\* UnionBlockInputStream::cancel: only the first caller goes on to processor.cancel
Cancel(who) == canceller' = IF is_cancelled THEN canceller ELSE who
Cancelling(who) == canceller = who /\ ~finish

ProcessorCancel ==
    /\ is_cancelled /\ ~finish
    /\ cancel
    /\ UNCHANGED <<queues, handler, canceller, reader>>

\* A thread that watches the query, ProcessList or the TCP handler, cancels it
CancelQuery ==
    /\ ~is_cancelled /\ main # "destroyed"
    /\ Cancel(Other)
    /\ UNCHANGED <<processor, queues, handler, reader>>

\* Handler

Return(t) ==
    /\ handler' = [handler EXCEPT ![t] = "out"]
    /\ Call(t, NoCall)
    /\ UNCHANGED <<unprepared_inputs, available_inputs, left, pc, input, exception,
                   active_threads, finish, throws>>

Push(t) ==
    /\ call[t] # NoCall
    /\ \/ /\ handler[t] = "out" /\ output_queue!PushWait
          /\ handler' = [handler EXCEPT ![t] = "push"]
          /\ UNCHANGED <<processor, canceller>>
       \/ /\ handler[t] = "push" /\ output_queue!PushItem(call[t])
          /\ handler' = [handler EXCEPT ![t] = "set"]
          /\ UNCHANGED <<processor, canceller>>
       \/ /\ handler[t] = "set" /\ output_queue!PushSet
          /\ IF call[t] \in Exceptions
             THEN handler' = [handler EXCEPT ![t] = "cancel"] /\ UNCHANGED processor
             ELSE Return(t)
          /\ UNCHANGED canceller
    /\ UNCHANGED reader

\* onException: cancel after the push
CancelOnException(t) ==
    /\ \/ /\ handler[t] = "cancel"
          /\ Cancel(t)
          /\ handler' = [handler EXCEPT ![t] = "cancelled"]
          /\ UNCHANGED processor
       \/ /\ handler[t] = "cancelled" /\ ~Cancelling(t)
          /\ Return(t)
          /\ UNCHANGED canceller
    /\ UNCHANGED <<queues, reader>>

\* Query thread

\* read -> readImpl: start the threads at the first call
ReadImpl ==
    /\ main = "idle" /\ ~is_cancelled /\ ~all_read
    /\ IF started THEN UNCHANGED processor ELSE process
    /\ started' = TRUE
    /\ main' = "read"
    /\ UNCHANGED <<queues, handler, canceller, payload, all_read, raised, delivered, destroying>>

\* output_queue.pop, up to its last step
Pop(wait, item, set) ==
    /\ \/ /\ main = wait /\ output_queue!PopWait
          /\ main' = item
          /\ UNCHANGED payload
       \/ /\ main = item /\ output_queue!PopItem
          /\ payload' = Head(queue)
          /\ main' = set
    /\ UNCHANGED <<processor, handler, canceller, started, all_read, raised, destroying, delivered>>

PopToRead  == Pop("read", "read pop", "read set")
PopToDrain == Pop("drain", "drain pop", "drain set")

\* The rest of readImpl and of IProfilingBlockInputStream::read: an exception is
\* rethrown, an empty block is the end and cancels the stream
Received ==
    /\ main = "read set" /\ output_queue!PopSet
    /\ main' = IF payload \in Exceptions THEN "failed" ELSE "idle"
    /\ raised' = IF payload \in Exceptions THEN raised \cup {payload} ELSE raised
    /\ all_read' = (payload = EmptyBlock)
    /\ IF payload = EmptyBlock THEN Cancel(QueryThread) ELSE UNCHANGED canceller
    /\ delivered' = [b \in AllBlocks |-> IF b = payload THEN delivered[b] + 1 ELSE delivered[b]]
    /\ payload' = EmptyBlock
    /\ UNCHANGED <<processor, handler, started, destroying>>

\* readSuffix after the end or after a cancel; the destructor at any time
ReadSuffix ==
    /\ main = "idle" /\ ~Cancelling(QueryThread)
    /\ all_read \/ is_cancelled
    /\ main' = "finalize"
    /\ UNCHANGED <<processor, queues, handler, canceller, payload, started, all_read, raised, delivered, destroying>>

Destroy ==
    /\ main \in {"idle", "failed", "finalized"} /\ ~Cancelling(QueryThread)
    /\ IF all_read THEN UNCHANGED canceller ELSE Cancel(QueryThread)
    /\ main' = "finalize"
    /\ destroying' = TRUE
    /\ UNCHANGED <<processor, queues, handler, payload, started, all_read, raised, delivered>>

\* Defective variant: finalize joins the threads without emptying the queue
Finalize_NoDrain ==
    /\ main = "finalize" /\ ~Cancelling(QueryThread)
    /\ started => Joinable
    /\ main' = IF destroying THEN "destroyed" ELSE "finalized"
    /\ UNCHANGED <<processor, queues, handler, canceller, payload, started, all_read, raised, delivered, destroying>>

\* finalize: pop up to the empty block, then join the threads
Finalize ==
    /\ main = "finalize" /\ ~Cancelling(QueryThread)
    /\ \/ /\ started /\ ~all_read
          /\ main' = "drain"
       \/ /\ started => all_read /\ Joinable
          /\ main' = IF destroying THEN "destroyed" ELSE "finalized"
    /\ UNCHANGED <<processor, queues, handler, canceller, payload, started, all_read, raised, delivered, destroying>>

Drained ==
    /\ main = "drain set" /\ output_queue!PopSet
    /\ raised' = IF payload \in Exceptions THEN raised \cup {payload} ELSE raised
    /\ all_read' = (payload = EmptyBlock)
    /\ main' = IF payload = EmptyBlock THEN "finalize" ELSE "drain"
    /\ payload' = EmptyBlock
    /\ UNCHANGED <<processor, handler, canceller, started, delivered, destroying>>

StreamStep == PopToRead \/ Received \/ PopToDrain \/ Drained \/ Finalize

Work(t) ==
    \/ ThreadStep(t) /\ UNCHANGED <<queues, handler, canceller, reader>>
    \/ Push(t)
    \/ CancelOnException(t)

Next ==
    \/ \E t \in Thread : Work(t)
    \/ ProcessorCancel \/ CancelQuery
    \/ ReadImpl \/ StreamStep \/ ReadSuffix \/ Destroy

\* The operating system runs every thread, and a source's read returns.  Nobody
\* has to call read or readSuffix, to cancel or to destroy the stream
Fairness ==
    /\ \A t \in Thread : WF_vars(Work(t))
    /\ WF_vars(ProcessorCancel)
    /\ WF_vars(StreamStep)

Spec == Init /\ [][Next]_vars /\ Fairness

-----------------------------------------------------------------------------

Payload == AllBlocks \cup Exceptions \cup {EmptyBlock}

\* Types of the variables; the queue never holds more than max_threads payloads
TypeOK ==
    /\ unprepared_inputs \in Seq(Input) /\ available_inputs \in Seq(Input)
    /\ left \in [Input \cup {0} -> Nat]
    /\ pc \in [Thread -> {"not started", "prepare", "prefix", "loop", "read", "caught", "end",
                          "additional", "finish", "done"}]
    /\ input \in [Thread -> Input \cup {0}]
    /\ exception \in [Thread -> 0..MaxThrows]
    /\ \A t \in Thread : call[t] \in Payload \cup {NoCall}
    /\ active_threads \in 0..max_threads /\ finish \in BOOLEAN /\ throws \in 0..MaxThrows
    /\ \A k \in DOMAIN queue : queue[k] \in Payload
    /\ Len(queue) <= max_threads
    /\ fill_count \in 0..max_threads /\ empty_count \in 0..max_threads
    /\ handler \in [Thread -> {"out", "push", "set", "cancel", "cancelled"}]
    /\ canceller \in {Nobody, QueryThread, Other} \cup Thread
    /\ payload \in Payload
    /\ {started, all_read, destroying} \subseteq BOOLEAN
    /\ raised \subseteq Exceptions /\ delivered \in [AllBlocks -> Nat]

\* The two semaphores and the places reached inside push and pop account for every slot
\* and every item, so neither count passes its maximum (Poco's set would throw) and pop
\* never takes from an empty queue
SlotsAccounted ==
    LET In(stage) == Cardinality({t \in Thread : handler[t] = stage})
        Popping == IF main \in {"read pop", "drain pop"} THEN 1 ELSE 0
        Popped  == IF main \in {"read set", "drain set"} THEN 1 ELSE 0
    IN /\ TypeOK
       /\ fill_count + empty_count + In("push") + In("set") + Popping + Popped = max_threads
       /\ Len(queue) = fill_count + In("set") + Popping

\* When read() reports the end of the data, nobody having cancelled the stream, it has
\* returned every block of every source once and no source threw
EndMeansComplete ==
    all_read /\ canceller = QueryThread /\ ~destroying =>
        throws = 0 /\ \A b \in AllBlocks : delivered[b] = 1

\* "... and the exception is lost": however the stream ends, the query thread has popped
\* every exception of a source before the empty block
ExceptionNotLost == all_read => raised = {Raise(e) : e \in 1..throws}

\* A read() of a live stream comes back with a block, the end or an exception
ReadReturns == main = "read" ~> main \in {"idle", "failed"}

\* The destructor ends: it neither waits for a thread blocked in push nor for an empty
\* block that never comes
DestructorEnds == destroying ~> main = "destroyed"
=============================================================================
