---------------------- MODULE ParallelInputsProcessor ----------------------
(***************************************************************************)
(* ParallelInputsProcessor: threads that pull blocks from several sources  *)
(* and pass each block to a handler.  A source waits in unprepared_inputs  *)
(* until a thread has called its readPrefix, then in available_inputs      *)
(* whenever no thread reads it.  The last thread to finish reads the       *)
(* additional source, if there is one, and tells the handler the end.      *)
(*                                                                         *)
(* A call of the handler is a request in `call`: a block for onBlock, an   *)
(* exception for onException, an empty block for onFinish.  The module of  *)
(* the handler (UnionBlockInputStream) carries it out and clears it, and   *)
(* the thread does not move before.                                        *)
(***************************************************************************)
EXTENDS Integers, Sequences, FiniteSets

CONSTANTS
    blocks_in,      \* blocks of each source; <<2, 1>> is two sources
    additional,     \* the additional source: {} or {n}, n its number of blocks
    max_threads_,   \* the constructor's argument
    MaxThrows       \* bound: exceptions of sources

ASSUME ProcessorConstants ==
    /\ blocks_in \in Seq(Nat) /\ blocks_in # <<>>
    /\ additional \subseteq Nat /\ \A m, n \in additional : m = n
    /\ max_threads_ \in Nat \ {0}
    /\ MaxThrows \in Nat

VARIABLES
    unprepared_inputs, available_inputs,
    left,                             \* blocks a source still has; source 0 is the additional one
    pc, input, exception,             \* of each thread
    call,                             \* of each thread: what it passes to the handler
    active_threads, finish,
    throws                            \* exceptions so far

processor == <<unprepared_inputs, available_inputs, left, pc, input, exception,
               call, active_threads, finish, throws>>

Input       == DOMAIN blocks_in
max_threads == IF Len(blocks_in) < max_threads_ THEN Len(blocks_in) ELSE max_threads_
Thread      == 1..max_threads
EmptyBlock  == <<>>                   \* Block(): a source has run out
NoCall      == <<0, 0, 0>>
Raise(e)    == <<e>>                  \* an exception_ptr; exceptions are numbered, and 0 is none
Exceptions  == {Raise(e) : e \in 1..MaxThrows}

\* The blocks of a source are numbered downwards by what is left of it
BlockOf(s) == <<s, left[s]>>
AllBlocks  == UNION ({{s} \X (1..blocks_in[s]) : s \in Input} \cup {{0} \X (1..n) : n \in additional})

ProcessorInit ==
    /\ unprepared_inputs = [s \in Input |-> s]
    /\ available_inputs = <<>>
    /\ left = [s \in Input \cup {0} |-> IF s # 0 THEN blocks_in[s]
                                         ELSE IF additional = {} THEN 0 ELSE CHOOSE n \in additional : TRUE]
    /\ pc = [t \in Thread |-> "not started"]
    /\ input = [t \in Thread |-> 0]
    /\ exception = [t \in Thread |-> 0]
    /\ call = [t \in Thread |-> NoCall]
    /\ active_threads = 0
    /\ finish = FALSE
    /\ throws = 0

At(t, label)   == pc[t] = label /\ call[t] = NoCall
GoTo(t, label) == pc' = [pc EXCEPT ![t] = label]
Call(t, what)  == call' = [call EXCEPT ![t] = what]

process ==
    /\ active_threads' = max_threads
    /\ pc' = [t \in Thread |-> "prepare"]
    /\ UNCHANGED <<unprepared_inputs, available_inputs, left, input, exception, call, finish, throws>>

\* A source throws: thread() leaves both loops
Throw(t) ==
    /\ throws < MaxThrows
    /\ throws' = throws + 1
    /\ exception' = [exception EXCEPT ![t] = throws']

\* Defective variant: reading starts as soon as one source is prepared
TakeUnprepared_Eager(t) ==
    /\ At(t, "prepare")
    /\ \/ /\ finish \/ unprepared_inputs = <<>> \/ available_inputs # <<>>
          /\ GoTo(t, "loop")
          /\ UNCHANGED <<unprepared_inputs, input>>
       \/ /\ ~finish /\ unprepared_inputs # <<>> /\ available_inputs = <<>>
          /\ input' = [input EXCEPT ![t] = Head(unprepared_inputs)]
          /\ unprepared_inputs' = Tail(unprepared_inputs)
          /\ GoTo(t, "prefix")
    /\ UNCHANGED <<available_inputs, left, exception, call, active_threads, finish, throws>>

\* Take a source that is not prepared yet, until there is none
TakeUnprepared(t) ==
    /\ At(t, "prepare")
    /\ \/ /\ finish \/ unprepared_inputs = <<>>
          /\ GoTo(t, "loop")
          /\ UNCHANGED <<unprepared_inputs, input>>
       \/ /\ ~finish /\ unprepared_inputs # <<>>
          /\ input' = [input EXCEPT ![t] = Head(unprepared_inputs)]
          /\ unprepared_inputs' = Tail(unprepared_inputs)
          /\ GoTo(t, "prefix")
    /\ UNCHANGED <<available_inputs, left, exception, call, active_threads, finish, throws>>

ReadPrefix(t) ==
    /\ At(t, "prefix")
    /\ \/ /\ available_inputs' = Append(available_inputs, input[t])
          /\ GoTo(t, "prepare")
          /\ UNCHANGED <<exception, throws>>
       \/ Throw(t) /\ GoTo(t, "caught") /\ UNCHANGED available_inputs
    /\ input' = [input EXCEPT ![t] = 0]
    /\ UNCHANGED <<unprepared_inputs, left, call, active_threads, finish>>

\* loop: select the next source
TakeAvailable(t) ==
    /\ At(t, "loop")
    /\ \/ /\ finish \/ available_inputs = <<>>
          /\ GoTo(t, "end")
          /\ UNCHANGED <<available_inputs, input>>
       \/ /\ ~finish /\ available_inputs # <<>>
          /\ input' = [input EXCEPT ![t] = Head(available_inputs)]
          /\ available_inputs' = Tail(available_inputs)
          /\ GoTo(t, "read")
    /\ UNCHANGED <<unprepared_inputs, left, exception, call, active_threads, finish, throws>>

\* Defective variant: a source that has run out is put back as well
Read_PutBackAlways(t) ==
    LET s == input[t] IN
    /\ At(t, "read")
    /\ \/ /\ finish
          /\ GoTo(t, "end")
          /\ UNCHANGED <<available_inputs, left, exception, call, throws>>
       \/ /\ ~finish /\ left[s] > 0
          /\ left' = [left EXCEPT ![s] = @ - 1]
          /\ available_inputs' = Append(available_inputs, s)
          /\ Call(t, BlockOf(s))
          /\ GoTo(t, "loop")
          /\ UNCHANGED <<exception, throws>>
       \/ /\ ~finish /\ left[s] = 0
          /\ GoTo(t, IF available_inputs = <<>> THEN "end" ELSE "loop")
          /\ UNCHANGED <<left, exception, call, throws>>
          /\ available_inputs' = Append(available_inputs, s)
       \/ Throw(t) /\ GoTo(t, "caught") /\ UNCHANGED <<available_inputs, left, call>>
    /\ input' = [input EXCEPT ![t] = 0]
    /\ UNCHANGED <<unprepared_inputs, active_threads, finish>>

\* loop: the read of a block ends.  A source that gave a block is available again
\* before the block is passed to handler.onBlock.  Both tests of finish are here:
\* after a stop nobody takes a source that was put back, and the block is dropped
Read(t) ==
    LET s == input[t] IN
    /\ At(t, "read")
    /\ \/ /\ finish
          /\ GoTo(t, "end")
          /\ UNCHANGED <<available_inputs, left, exception, call, throws>>
       \/ /\ ~finish /\ left[s] > 0
          /\ left' = [left EXCEPT ![s] = @ - 1]
          /\ available_inputs' = Append(available_inputs, s)
          /\ Call(t, BlockOf(s))
          /\ GoTo(t, "loop")
          /\ UNCHANGED <<exception, throws>>
       \/ /\ ~finish /\ left[s] = 0
          /\ GoTo(t, IF available_inputs = <<>> THEN "end" ELSE "loop")
          /\ UNCHANGED <<available_inputs, left, exception, call, throws>>
       \/ Throw(t) /\ GoTo(t, "caught") /\ UNCHANGED <<available_inputs, left, call>>
    /\ input' = [input EXCEPT ![t] = 0]
    /\ UNCHANGED <<unprepared_inputs, active_threads, finish>>

\* Defective variant: an exception met after a stop is dropped
Caught_IfRunning(t) ==
    /\ At(t, "caught")
    /\ Call(t, IF finish THEN NoCall ELSE Raise(exception[t]))
    /\ GoTo(t, "end")
    /\ UNCHANGED <<unprepared_inputs, available_inputs, left, input, exception, active_threads, finish, throws>>

Caught(t) ==
    /\ At(t, "caught")
    /\ Call(t, Raise(exception[t]))
    /\ GoTo(t, "end")
    /\ UNCHANGED <<unprepared_inputs, available_inputs, left, input, exception, active_threads, finish, throws>>

\* The last thread goes on with the additional source
FinishThread(t) ==
    /\ At(t, "end")
    /\ active_threads' = active_threads - 1
    /\ GoTo(t, IF active_threads' # 0 THEN "done" ELSE IF additional # {} THEN "additional" ELSE "finish")
    /\ UNCHANGED <<unprepared_inputs, available_inputs, left, input, exception, call, finish, throws>>

\* The additional source is read to its end whatever `finish` says, and an
\* exception this thread met before is passed on a second time
ReadAdditional(t) ==
    /\ At(t, "additional")
    /\ \/ /\ left[0] > 0
          /\ Call(t, BlockOf(0))
          /\ left' = [left EXCEPT ![0] = @ - 1]
          /\ UNCHANGED <<pc, exception, throws>>
       \/ /\ left[0] = 0
          /\ Call(t, IF exception[t] # 0 THEN Raise(exception[t]) ELSE NoCall)
          /\ GoTo(t, "finish")
          /\ UNCHANGED <<left, exception, throws>>
       \/ /\ Throw(t)
          /\ Call(t, Raise(exception'[t]))
          /\ GoTo(t, "finish")
          /\ UNCHANGED left
    /\ UNCHANGED <<unprepared_inputs, available_inputs, input, active_threads, finish>>

Finish(t) ==
    /\ At(t, "finish")
    /\ Call(t, EmptyBlock)
    /\ GoTo(t, "done")
    /\ UNCHANGED <<unprepared_inputs, available_inputs, left, input, exception, active_threads, finish, throws>>

\* cancel: stop the loops, and the sources
cancel ==
    /\ finish' = TRUE
    /\ UNCHANGED <<unprepared_inputs, available_inputs, left, pc, input, exception, call, active_threads, throws>>

\* wait: all threads can be joined
Joinable == \A t \in Thread : At(t, "done")

ThreadStep(t) ==
    \/ TakeUnprepared(t) \/ ReadPrefix(t)
    \/ TakeAvailable(t) \/ Read(t)
    \/ Caught(t) \/ FinishThread(t) \/ ReadAdditional(t) \/ Finish(t)
=============================================================================
