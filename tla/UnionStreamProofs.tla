------------------------- MODULE UnionStreamProofs -------------------------
(***************************************************************************)
(* The inductive invariant of UnionBlockInputStream, for any number of     *)
(* sources, blocks and threads, any exceptions and any moment of a cancel, *)
(* its proof for the steps of ParallelInputsProcessor's threads, of the    *)
(* handler, of the query thread and of a cancel, and the theorems.         *)
(***************************************************************************)
EXTENDS UnionBlockInputStream, TLAPS

Active   == {"prepare", "prefix", "loop", "read", "caught", "end"}
Busy     == {t \in Thread : pc[t] \in Active}
In(stage) == {t \in Thread : handler[t] = stage}
Popping  == IF main \in {"read pop", "drain pop"} THEN 1 ELSE 0
HasPopped == IF main \in {"read set", "drain set"} THEN 1 ELSE 0
Reading  == {"read", "read pop", "read set"}
Draining == {"drain", "drain pop", "drain set"}
Thrown   == {Raise(e) : e \in 1..throws}
Item     == AllBlocks \cup Thrown \cup {EmptyBlock}

Among(q, x) == \E k \in DOMAIN q : q[k] = x

\* What the proof uses of the cardinality of a set of threads (ThreadsCount proves it)
Counting ==
    /\ Cardinality(Thread) = max_threads
    /\ \A S \in SUBSET Thread : /\ Cardinality(S) \in Nat /\ Cardinality(S) <= max_threads
                                /\ Cardinality(S) = 0 <=> S = {}
                                /\ \A t \in Thread \ S : Cardinality(S \cup {t}) = Cardinality(S) + 1
                                /\ \A t \in S : Cardinality(S \ {t}) = Cardinality(S) - 1

\* Where an item is on its way to the query thread
Carried(t, x) == call[t] = x /\ handler[t] \in {"out", "push"}
Popped(x)     == main \in {"read set", "drain set"} /\ payload = x
OnTheWay(x)   == (\E t \in Thread : Carried(t, x)) \/ Among(queue, x) \/ Popped(x)

OthersDone(t) == \A u \in Thread \ {t} : pc[u] = "done" /\ call[u] = NoCall
Ended == \A t \in Thread : pc[t] = "done" /\ (call[t] = NoCall \/ (call[t] = EmptyBlock /\ handler[t] = "set"))

\* Nobody has cancelled the stream before its end
Healthy == canceller \in {Nobody, QueryThread} /\ ~destroying

ThreadTypes ==
    /\ unprepared_inputs \in Seq(Input) /\ available_inputs \in Seq(Input)
    /\ left \in [Input \cup {0} -> Nat]
    /\ pc \in [Thread -> Active \cup {"not started", "additional", "finish", "done"}]
    /\ input \in [Thread -> Input \cup {0}]
    /\ exception \in [Thread -> Nat]
    /\ active_threads \in Nat /\ finish \in BOOLEAN
    /\ throws \in Nat /\ throws <= MaxThrows

ItemTypes ==
    /\ call \in [Thread -> Item \cup {NoCall}]
    /\ queue \in Seq(Item)
    /\ payload \in Item /\ raised \subseteq Thrown

StreamTypes ==
    /\ fill_count \in Nat /\ empty_count \in Nat
    /\ handler \in [Thread -> {"out", "push", "set", "cancel", "cancelled"}]
    /\ canceller \in {Nobody, QueryThread, Other} \cup Thread
    /\ main \in Reading \cup Draining \cup {"idle", "failed", "finalize", "finalized", "destroyed"}
    /\ started \in BOOLEAN /\ all_read \in BOOLEAN /\ destroying \in BOOLEAN
    /\ delivered \in [AllBlocks -> {0, 1}]

Slots ==
    /\ fill_count + empty_count + Cardinality(In("push")) + Cardinality(In("set")) + Popping + HasPopped = max_threads
    /\ Len(queue) = fill_count + Cardinality(In("set")) + Popping

\* Where threads are
ThreadOK(t) ==
    /\ pc[t] = "not started" <=> ~started
    /\ pc[t] \in {"prefix", "read"} => input[t] \in Input
    /\ exception[t] <= throws /\ (pc[t] = "caught" => exception[t] > 0)
    /\ call[t] = NoCall => handler[t] = "out"
    /\ handler[t] \in {"cancel", "cancelled"} => call[t] \in Thrown
    /\ call[t] = EmptyBlock => pc[t] = "done" /\ OthersDone(t)
    /\ pc[t] = "done" => call[t] \in {NoCall, EmptyBlock}
    /\ pc[t] \in {"additional", "finish"} => OthersDone(t)

\* The empty block is the last thing pushed and popped
EndIsLast ==
    /\ \A k \in DOMAIN queue : queue[k] = EmptyBlock => k = Len(queue) /\ Ended
    /\ Popped(EmptyBlock) => Ended /\ queue = <<>>
    /\ all_read => Ended /\ queue = <<>> /\ main \in {"idle", "finalize", "finalized", "destroyed"}

\* An exception that was caught is on its way, or the query thread had it
ExceptionKept ==
    \A e \in 1..throws : OnTheWay(Raise(e)) \/ Raise(e) \in raised
                         \/ \E t \in Thread : pc[t] = "caught" /\ exception[t] = e

\* A block is in one place at a time
Taken(b) == left[b[1]] < b[2]
BlockOK(b) ==
    /\ OnTheWay(b) => Taken(b) /\ delivered[b] = 0
    /\ delivered[b] = 1 => Taken(b)
    /\ \A t, u \in Thread : Carried(t, b) /\ Carried(u, b) => t = u
    /\ \A j, k \in DOMAIN queue : queue[j] = b /\ queue[k] = b => j = k
    /\ (\E t \in Thread : Carried(t, b)) => ~Among(queue, b) /\ ~Popped(b)
    /\ Among(queue, b) => ~Popped(b)
    /\ Taken(b) /\ Healthy => OnTheWay(b) \/ delivered[b] = 1

\* A source with blocks left is waiting or with a thread, and threads are there for it
Held(s) ==
    \/ Among(unprepared_inputs, s) \/ Among(available_inputs, s)
    \/ \E t \in Thread : pc[t] \in {"prefix", "read"} /\ input[t] = s
SourcesOK ==
    /\ \A s \in Input : left[s] <= blocks_in[s]
    /\ left[0] > 0 => \E n \in additional : left[0] <= n
    /\ ~finish /\ throws = 0 =>
          /\ \A s \in Input : left[s] > 0 => Held(s)
          /\ started /\ unprepared_inputs # <<>> => \E t \in Thread : pc[t] \in {"prepare", "prefix"}
          /\ available_inputs # <<>> => \E t \in Thread : pc[t] \in {"prepare", "prefix", "loop", "read"}
    /\ throws = 0 /\ ((\E t \in Thread : pc[t] = "finish") \/ (\A t \in Thread : pc[t] = "done")) => left[0] = 0

\* Who has cancelled the stream, and what the query thread has seen
CancelOK ==
    /\ finish => canceller # Nobody
    /\ canceller = QueryThread /\ ~destroying => all_read
    /\ main \in Draining \/ (main \in {"finalize", "finalized"} /\ ~all_read) => ~Healthy
    /\ raised # {} => main = "failed" \/ ~Healthy
    /\ all_read /\ Healthy => throws = 0 /\ \A b \in AllBlocks : delivered[b] = 1

UInv ==
    /\ Counting
    /\ ThreadTypes /\ ItemTypes /\ StreamTypes /\ Slots /\ active_threads = Cardinality(Busy)
    /\ \A t \in Thread : ThreadOK(t)
    /\ EndIsLast /\ ExceptionKept /\ SourcesOK /\ CancelOK
    /\ \A b \in AllBlocks : BlockOK(b)

-----------------------------------------------------------------------------

LEMMA Constants ==
    /\ max_threads \in Nat /\ max_threads > 0 /\ Thread = 1..max_threads
    /\ Input = 1..Len(blocks_in) /\ Len(blocks_in) \in Nat /\ 0 \notin Input
    /\ \A s \in Input : blocks_in[s] \in Nat
<1>1. Input = 1..Len(blocks_in) /\ Len(blocks_in) \in Nat /\ Len(blocks_in) > 0 /\ 0 \notin Input
      /\ \A s \in Input : blocks_in[s] \in Nat
  BY ProcessorConstants DEF Input
<1>2. max_threads \in Nat /\ max_threads > 0
  BY <1>1, ProcessorConstants DEF max_threads
<1> QED
  BY Zenon, <1>1, <1>2 DEF Thread

\* What a block looks like
LEMMA BlockShape ==
    /\ \A b \in AllBlocks : /\ b = <<b[1], b[2]>> /\ b[2] \in Nat /\ b[2] > 0
                            /\ b[1] \in Input => b[2] <= blocks_in[b[1]]
                            /\ b[1] \in Input \/ (b[1] = 0 /\ \E n \in additional : b[2] <= n)
    /\ \A s \in Input, k \in Nat : 0 < k /\ k <= blocks_in[s] => <<s, k>> \in AllBlocks
    /\ \A n \in additional, k \in Nat : 0 < k /\ k <= n => <<0, k>> \in AllBlocks
<1>1. ASSUME NEW b \in AllBlocks
      PROVE  (\E s \in Input : b \in {s} \X (1..blocks_in[s])) \/ (\E n \in additional : b \in {0} \X (1..n))
  BY Zenon DEF AllBlocks
<1>2. ASSUME NEW b \in AllBlocks
      PROVE  /\ b = <<b[1], b[2]>> /\ b[2] \in Nat /\ b[2] > 0
             /\ b[1] \in Input => b[2] <= blocks_in[b[1]]
             /\ b[1] \in Input \/ (b[1] = 0 /\ \E n \in additional : b[2] <= n)
  <2>1. CASE \E s \in Input : b \in {s} \X (1..blocks_in[s])
    BY <2>1, Constants
  <2>2. CASE \E n \in additional : b \in {0} \X (1..n)
    BY <2>2, Constants, ProcessorConstants
  <2> QED
    BY Zenon, <1>1, <2>1, <2>2
<1>3. ASSUME NEW s \in Input, NEW k \in Nat, 0 < k, k <= blocks_in[s]
      PROVE  <<s, k>> \in AllBlocks
  <2>1. <<s, k>> \in {s} \X (1..blocks_in[s])
    BY <1>3, Constants
  <2> QED
    BY Zenon, <2>1 DEF AllBlocks
<1>4. ASSUME NEW n \in additional, NEW k \in Nat, 0 < k, k <= n
      PROVE  <<0, k>> \in AllBlocks
  <2>1. <<0, k>> \in {0} \X (1..n)
    BY <1>4, ProcessorConstants
  <2> QED
    BY Zenon, <2>1 DEF AllBlocks
<1> QED
  BY Zenon, <1>2, <1>3, <1>4

\* The kinds of items differ
LEMMA Distinct ==
    /\ EmptyBlock # NoCall
    /\ \A b \in AllBlocks : b # EmptyBlock /\ b # NoCall
    /\ \A e : Raise(e) # EmptyBlock /\ Raise(e) # NoCall
    /\ \A b \in AllBlocks : \A e : b # Raise(e)
    /\ \A d, e : Raise(d) = Raise(e) => d = e
<1>1. ASSUME NEW b \in AllBlocks
      PROVE  Len(b) = 2
  BY BlockShape
<1> QED
  BY <1>1 DEF EmptyBlock, NoCall, Raise

\* The items of a queue after a push and after a pop
LEMMA Pushed ==
    ASSUME NEW S, NEW q \in Seq(S), NEW x \in S
    PROVE  /\ Append(q, x) \in Seq(S) /\ Len(Append(q, x)) = Len(q) + 1 /\ Append(q, x) # <<>>
           /\ \A y : Among(Append(q, x), y) <=> Among(q, y) \/ y = x
           /\ Append(q, x)[Len(q) + 1] = x
           /\ \A k \in DOMAIN Append(q, x) : k # Len(q) + 1 => k \in DOMAIN q /\ Append(q, x)[k] = q[k]
<1> DEFINE n == Append(q, x)
<1>1. n \in Seq(S) /\ Len(n) = Len(q) + 1 /\ DOMAIN n = 1..(Len(q) + 1) /\ DOMAIN q = 1..Len(q) /\ Len(q) \in Nat
      /\ n[Len(q) + 1] = x /\ \A k \in 1..Len(q) : n[k] = q[k]
  OBVIOUS
<1>2. n # <<>>
  BY <1>1
<1> HIDE DEF n
<1>3. \A k \in DOMAIN n : k # Len(q) + 1 => k \in DOMAIN q /\ n[k] = q[k]
  BY <1>1
<1>4. ASSUME NEW y
      PROVE  Among(n, y) <=> Among(q, y) \/ y = x
  <2>1. Len(q) + 1 \in DOMAIN n /\ \A k \in DOMAIN q : k \in DOMAIN n /\ n[k] = q[k]
    BY <1>1
  <2> QED
    BY Zenon, <1>1, <1>3, <2>1 DEF Among
<1> QED
  BY Zenon, <1>1, <1>2, <1>3, <1>4 DEF n

LEMMA PoppedOff ==
    ASSUME NEW S, NEW q \in Seq(S), Len(q) > 0
    PROVE  /\ Tail(q) \in Seq(S) /\ Len(Tail(q)) = Len(q) - 1 /\ Head(q) \in S
           /\ Head(q) = q[1] /\ 1 \in DOMAIN q
           /\ \A y : Among(q, y) <=> Among(Tail(q), y) \/ y = Head(q)
           /\ \A k \in DOMAIN Tail(q) : k + 1 \in DOMAIN q /\ Tail(q)[k] = q[k + 1]
<1> DEFINE n == Tail(q)
<1>1. n \in Seq(S) /\ Len(n) = Len(q) - 1 /\ DOMAIN n = 1..(Len(q) - 1) /\ DOMAIN q = 1..Len(q) /\ Len(q) \in Nat
      /\ Head(q) = q[1] /\ \A k \in 1..(Len(q) - 1) : n[k] = q[k + 1]
  OBVIOUS
<1>2. 1 \in DOMAIN q /\ q[1] \in S
  BY <1>1
<1> HIDE DEF n
<1>3. \A k \in DOMAIN n : k + 1 \in DOMAIN q /\ n[k] = q[k + 1]
  BY <1>1
<1>4. ASSUME NEW k \in DOMAIN q
      PROVE  k = 1 \/ (k - 1 \in DOMAIN n /\ n[k - 1] = q[k])
  BY <1>1
<1>5. ASSUME NEW y
      PROVE  Among(q, y) <=> Among(n, y) \/ y = q[1]
  BY Zenon, <1>2, <1>3, <1>4 DEF Among
<1> QED
  BY Zenon, <1>1, <1>2, <1>3, <1>5 DEF n

-----------------------------------------------------------------------------
\* Steps of ParallelInputsProcessor::thread

Others == <<queues, handler, canceller, reader>>

\* What all its steps have in common
LEMMA ThreadSteps ==
    ASSUME UInv, NEW t \in Thread, ThreadStep(t), UNCHANGED Others
    PROVE  /\ pc[t] \in Active \cup {"additional", "finish"} /\ call[t] = NoCall /\ handler[t] = "out" /\ started
           /\ \A u \in Thread \ {t} : /\ pc'[u] = pc[u] /\ call'[u] = call[u]
                                      /\ input'[u] = input[u] /\ exception'[u] = exception[u]
           /\ finish' = finish
           /\ throws' = throws \/ throws' = throws + 1
           /\ \A u \in Thread \ {t} : ~OthersDone(u)
           /\ ~Ended /\ ~all_read
<1> USE DEF At, GoTo, Call, Throw
<1>0. ThreadTypes /\ ItemTypes /\ ThreadOK(t) /\ EndIsLast
  BY Zenon DEF UInv
<1>1. pc[t] \in Active \cup {"additional", "finish"} /\ call[t] = NoCall /\ handler[t] = "out" /\ started
  BY Zenon, <1>0 DEF ThreadStep, TakeUnprepared, ReadPrefix, TakeAvailable, Read, Caught, FinishThread, ReadAdditional,
              Finish, ThreadOK, Active
<1>2. \A u \in Thread \ {t} : pc'[u] = pc[u] /\ call'[u] = call[u]
  <2>0. pc \in [Thread -> Active \cup {"not started", "additional", "finish", "done"}]
        /\ call \in [Thread -> Item \cup {NoCall}]
    BY Zenon, <1>0 DEF ThreadTypes, ItemTypes
  <2>1. CASE TakeUnprepared(t)
    BY Zenon, <2>1, <2>0 DEF TakeUnprepared
  <2>2. CASE ReadPrefix(t)
    BY Zenon, <2>2, <2>0 DEF ReadPrefix
  <2>3. CASE TakeAvailable(t)
    BY Zenon, <2>3, <2>0 DEF TakeAvailable
  <2>4. CASE Read(t)
    BY Zenon, <2>4, <2>0 DEF Read
  <2>5. CASE Caught(t)
    BY Zenon, <2>5, <2>0 DEF Caught
  <2>6. CASE FinishThread(t)
    BY Zenon, <2>6, <2>0 DEF FinishThread
  <2>7. CASE ReadAdditional(t)
    BY Zenon, <2>7, <2>0 DEF ReadAdditional
  <2>8. CASE Finish(t)
    BY Zenon, <2>8, <2>0 DEF Finish
  <2> QED
    BY Zenon, <2>1, <2>2, <2>3, <2>4, <2>5, <2>6, <2>7, <2>8 DEF ThreadStep
<1>3. \A u \in Thread \ {t} : input'[u] = input[u] /\ exception'[u] = exception[u]
  <2>0. input \in [Thread -> Input \cup {0}] /\ exception \in [Thread -> Nat]
    BY Zenon, <1>0 DEF ThreadTypes
  <2>1. CASE TakeUnprepared(t)
    BY Zenon, <2>1, <2>0 DEF TakeUnprepared
  <2>2. CASE ReadPrefix(t)
    BY Zenon, <2>2, <2>0 DEF ReadPrefix
  <2>3. CASE TakeAvailable(t)
    BY Zenon, <2>3, <2>0 DEF TakeAvailable
  <2>4. CASE Read(t)
    BY Zenon, <2>4, <2>0 DEF Read
  <2>5. CASE Caught(t)
    BY Zenon, <2>5, <2>0 DEF Caught
  <2>6. CASE FinishThread(t)
    BY Zenon, <2>6, <2>0 DEF FinishThread
  <2>7. CASE ReadAdditional(t)
    BY Zenon, <2>7, <2>0 DEF ReadAdditional
  <2>8. CASE Finish(t)
    BY Zenon, <2>8, <2>0 DEF Finish
  <2> QED
    BY Zenon, <2>1, <2>2, <2>3, <2>4, <2>5, <2>6, <2>7, <2>8 DEF ThreadStep
<1>4. finish' = finish /\ (throws' = throws \/ throws' = throws + 1)
  BY Zenon DEF ThreadStep, TakeUnprepared, ReadPrefix, TakeAvailable, Read, Caught, FinishThread, ReadAdditional, Finish
<1>5. pc[t] # "done"
  BY Zenon, <1>1 DEF Active
<1>6. ~Ended /\ ~all_read /\ \A u \in Thread \ {t} : ~OthersDone(u)
  BY Zenon, <1>0, <1>5 DEF Ended, EndIsLast, OthersDone
<1> QED
  BY Zenon, <1>1, <1>2, <1>3, <1>4, <1>6

\* Exceptions stay exceptions
LEMMA ThrownGrows ==
    ASSUME throws \in Nat, throws' = throws \/ throws' = throws + 1
    PROVE  /\ Thrown \subseteq Thrown' /\ Item \subseteq Item' /\ AllBlocks \subseteq Item
           /\ EmptyBlock \in Item /\ EmptyBlock \in Item'
           /\ \A e \in 1..throws' : Raise(e) \in Thrown' /\ Raise(e) \in Item'
<1>1. 1..throws \subseteq 1..throws'
  OBVIOUS
<1>2. Thrown \subseteq Thrown'
  BY Zenon, <1>1 DEF Thrown, Raise
<1>3. \A e \in 1..throws' : Raise(e) \in Thrown'
  BY Zenon DEF Thrown, Raise
<1> QED
  BY Zenon, <1>2, <1>3 DEF Item

LEMMA ThreadStepTypes ==
    ASSUME UInv, NEW t \in Thread, ThreadStep(t), UNCHANGED Others
    PROVE  ThreadTypes' /\ ItemTypes' /\ StreamTypes'
<1> USE DEF At, GoTo, Call, Throw
<1>0. ThreadTypes /\ ItemTypes /\ StreamTypes /\ ThreadOK(t) /\ active_threads = Cardinality(Busy)
  BY Zenon DEF UInv
<1>t. throws \in Nat /\ throws' \in Nat /\ MaxThrows \in Nat
  <2>1. throws \in Nat /\ MaxThrows \in Nat
    BY Zenon, <1>0, ProcessorConstants DEF ThreadTypes
  <2>2. throws' = throws \/ throws' = throws + 1
    BY Zenon, ThreadSteps
  <2> QED
    BY <2>1, <2>2
<1>1. /\ Thrown \subseteq Thrown' /\ Item \subseteq Item' /\ AllBlocks \subseteq Item /\ AllBlocks \subseteq Item'
      /\ EmptyBlock \in Item /\ EmptyBlock \in Item'
      /\ \A e \in 1..throws' : Raise(e) \in Thrown' /\ Raise(e) \in Item'
  BY Zenon, <1>t, ThreadSteps, ThrownGrows
<1>2. StreamTypes'
  BY Zenon, <1>0 DEF StreamTypes, Others, queues, reader
<1>3. throws' <= MaxThrows
  <2>1. throws <= MaxThrows
    BY Zenon, <1>0 DEF ThreadTypes
  <2> QED
    BY <2>1, <1>t DEF ThreadStep, TakeUnprepared, ReadPrefix, TakeAvailable, Read, Caught, FinishThread,
                     ReadAdditional, Finish
<1>4. exception' \in [Thread -> Nat]
  <2>1. exception \in [Thread -> Nat]
    BY Zenon, <1>0 DEF ThreadTypes
  <2> QED
    BY Zenon, <2>1, <1>t DEF ThreadStep, TakeUnprepared, ReadPrefix, TakeAvailable, Read, Caught, FinishThread,
                      ReadAdditional, Finish
<1>5. pc' \in [Thread -> Active \cup {"not started", "additional", "finish", "done"}]
  <2>1. pc \in [Thread -> Active \cup {"not started", "additional", "finish", "done"}]
    BY Zenon, <1>0 DEF ThreadTypes
  <2> QED
    BY Zenon, <2>1 DEF ThreadStep, TakeUnprepared, ReadPrefix, TakeAvailable, Read, Caught, FinishThread,
                ReadAdditional, Finish, Active
<1>6. unprepared_inputs' \in Seq(Input) /\ available_inputs' \in Seq(Input) /\ input' \in [Thread -> Input \cup {0}]
  <2>1. unprepared_inputs \in Seq(Input) /\ available_inputs \in Seq(Input) /\ input \in [Thread -> Input \cup {0}]
        /\ (pc[t] \in {"prefix", "read"} => input[t] \in Input)
    BY Zenon, <1>0 DEF ThreadTypes, ThreadOK
  <2>2. ASSUME NEW q \in Seq(Input), q # <<>>
        PROVE  Head(q) \in Input /\ Tail(q) \in Seq(Input)
    BY <2>2
  <2>3. input[t] \in Input => Append(available_inputs, input[t]) \in Seq(Input)
    BY <2>1
  <2>31. CASE TakeUnprepared(t)
    BY Zenon, <2>31, <2>1, <2>2 DEF TakeUnprepared
  <2>32. CASE ReadPrefix(t)
    BY Zenon, <2>32, <2>1, <2>3 DEF ReadPrefix
  <2>33. CASE TakeAvailable(t)
    BY Zenon, <2>33, <2>1, <2>2 DEF TakeAvailable
  <2>34. CASE Read(t)
    BY Zenon, <2>34, <2>1, <2>3 DEF Read
  <2>35. CASE Caught(t)
    BY Zenon, <2>35, <2>1, <2>2 DEF Caught
  <2>36. CASE FinishThread(t)
    BY Zenon, <2>36, <2>1, <2>2 DEF FinishThread
  <2>37. CASE ReadAdditional(t)
    BY Zenon, <2>37, <2>1, <2>2 DEF ReadAdditional
  <2>38. CASE Finish(t)
    BY Zenon, <2>38, <2>1, <2>2 DEF Finish
  <2> QED
    BY Zenon, <2>31, <2>32, <2>33, <2>34, <2>35, <2>36, <2>37, <2>38 DEF ThreadStep
<1>7. left' \in [Input \cup {0} -> Nat]
  <2>1. left \in [Input \cup {0} -> Nat] /\ input[t] \in Input \cup {0}
    BY Zenon, <1>0 DEF ThreadTypes
  <2> QED
    BY <2>1 DEF ThreadStep, TakeUnprepared, ReadPrefix, TakeAvailable, Read, Caught, FinishThread,
              ReadAdditional, Finish
<1>8. call' \in [Thread -> Item' \cup {NoCall}]
  <2>1. call \in [Thread -> Item' \cup {NoCall}]
    BY Zenon, <1>0, <1>1 DEF ItemTypes
  <2>2. left \in [Input \cup {0} -> Nat] /\ exception[t] \in Nat /\ exception[t] <= throws
        /\ (pc[t] = "read" => input[t] \in Input) /\ (pc[t] = "caught" => exception[t] > 0)
    BY Zenon, <1>0 DEF ThreadTypes, ThreadOK
  <2>3. /\ \A s \in Input : left[s] <= blocks_in[s]
        /\ left[0] > 0 => \E n \in additional : left[0] <= n
    BY Zenon DEF UInv, SourcesOK
  <2>4. ASSUME NEW s \in Input, left[s] > 0
        PROVE  BlockOf(s) \in Item'
    BY Zenon, <1>1, <2>2, <2>3, <2>4, BlockShape DEF BlockOf
  <2>5. ASSUME left[0] > 0
        PROVE  BlockOf(0) \in Item'
    BY Zenon, <1>1, <2>2, <2>3, <2>5, BlockShape DEF BlockOf
  <2>6. exception[t] > 0 => Raise(exception[t]) \in Item'
    BY <2>2, <1>1, <1>t, ThreadSteps
  <2>7. throws' = throws + 1 => Raise(throws') \in Item'
    BY <1>1, <1>t
  <2>81. CASE TakeUnprepared(t)
    BY Zenon, <2>81, <2>1 DEF TakeUnprepared
  <2>82. CASE ReadPrefix(t)
    BY Zenon, <2>82, <2>1 DEF ReadPrefix
  <2>83. CASE TakeAvailable(t)
    BY Zenon, <2>83, <2>1 DEF TakeAvailable
  <2>84. CASE Read(t)
    BY Zenon, <2>84, <2>1, <2>2, <2>4 DEF Read
  <2>85. CASE Caught(t)
    BY Zenon, <2>85, <2>1, <2>2, <2>6 DEF Caught
  <2>86. CASE FinishThread(t)
    BY Zenon, <2>86, <2>1 DEF FinishThread
  <2>87. CASE ReadAdditional(t)
    <3>1. Throw(t) => exception'[t] = throws'
      BY Zenon, <1>0 DEF ThreadTypes
    <3> QED
      BY <2>87, <2>1, <2>2, <2>5, <2>6, <2>7, <3>1 DEF ReadAdditional
  <2>88. CASE Finish(t)
    BY Zenon, <2>88, <2>1, <1>1 DEF Finish
  <2> QED
    BY Zenon, <2>81, <2>82, <2>83, <2>84, <2>85, <2>86, <2>87, <2>88 DEF ThreadStep
<1>9. active_threads' \in Nat
  <2>1. active_threads \in Nat
    BY Zenon, <1>0 DEF ThreadTypes
  <2>2. CASE FinishThread(t)
    <3>1. t \in Busy /\ Busy \in SUBSET Thread
      BY Zenon, <2>2 DEF FinishThread, Busy, Active
    <3>2. Cardinality(Busy) # 0
      BY Zenon, <3>1 DEF UInv, Counting
    <3>3. active_threads # 0
      BY Zenon, <3>2 DEF UInv
    <3> QED
      BY <2>1, <2>2, <3>3 DEF FinishThread
  <2>3. CASE ~FinishThread(t)
    BY Zenon, <2>1, <2>3 DEF ThreadStep, TakeUnprepared, ReadPrefix, TakeAvailable, Read, Caught, ReadAdditional, Finish
  <2> QED
    BY Zenon, <2>2, <2>3
<1>10. queue' \in Seq(Item') /\ payload' \in Item' /\ raised' \subseteq Thrown'
  <2>1. queue \in Seq(Item) /\ payload \in Item /\ raised \subseteq Thrown
    BY Zenon, <1>0 DEF ItemTypes
  <2>2. queue' = queue /\ payload' = payload /\ raised' = raised
    BY Zenon DEF Others, queues, reader
  <2> HIDE DEF Item, Thrown
  <2>3. queue \in Seq(Item')
    BY <2>1, <1>1
  <2> QED
    BY Zenon, <2>1, <2>2, <2>3, <1>1
<1>11. finish' \in BOOLEAN
  BY Zenon, <1>0, ThreadSteps DEF ThreadTypes
<1>12. ThreadTypes'
  BY Zenon, <1>t, <1>3, <1>4, <1>5, <1>6, <1>7, <1>9, <1>11 DEF ThreadTypes
<1>13. ItemTypes'
  BY Zenon, <1>8, <1>10 DEF ItemTypes
<1> QED
  BY Zenon, <1>2, <1>12, <1>13

LEMMA ThreadStepActive ==
    ASSUME UInv, NEW t \in Thread, ThreadStep(t), UNCHANGED Others
    PROVE  active_threads' = Cardinality(Busy')
<1> USE DEF At, GoTo
<1>0. ThreadTypes /\ active_threads = Cardinality(Busy) /\ Busy \in SUBSET Thread
  BY Zenon DEF UInv, Busy
<1>p. pc \in [Thread -> Active \cup {"not started", "additional", "finish", "done"}]
  BY Zenon, <1>0 DEF ThreadTypes
<1>1. CASE FinishThread(t)
  <2>1. t \in Busy /\ Busy' = Busy \ {t}
    BY Zenon, <1>1, <1>p DEF FinishThread, Busy, Active
  <2>2. Cardinality(Busy') = Cardinality(Busy) - 1
    BY Zenon, <1>0, <2>1 DEF UInv, Counting
  <2> QED
    BY Zenon, <1>0, <1>1, <2>2 DEF FinishThread
<1>2. CASE ReadAdditional(t) \/ Finish(t)
  <2>1. Busy' = Busy /\ active_threads' = active_threads
    BY Zenon, <1>2, <1>p DEF ReadAdditional, Finish, Busy, Active
  <2> QED
    BY Zenon, <1>0, <2>1
<1>3. CASE TakeUnprepared(t) \/ ReadPrefix(t) \/ TakeAvailable(t) \/ Read(t) \/ Caught(t)
  <2>1. active_threads' = active_threads
    BY Zenon, <1>3 DEF TakeUnprepared, ReadPrefix, TakeAvailable, Read, Caught
  <2>2. pc[t] \in Active /\ pc'[t] \in Active
    BY Zenon, <1>3, <1>p DEF TakeUnprepared, ReadPrefix, TakeAvailable, Read, Caught, Active
  <2>3. \A u \in Thread : pc'[u] \in Active <=> pc[u] \in Active
    BY Zenon, <2>2, ThreadSteps
  <2>4. Busy' = Busy
    BY Zenon, <2>3 DEF Busy
  <2> QED
    BY Zenon, <1>0, <2>1, <2>4
<1> QED
  BY Zenon, <1>1, <1>2, <1>3 DEF ThreadStep

\* The last thread finds the others done
LEMMA LastThread ==
    ASSUME UInv, NEW t \in Thread, FinishThread(t), active_threads' = 0
    PROVE  OthersDone(t)
<1>1. pc[t] = "end" /\ call[t] = NoCall /\ active_threads - 1 = 0 /\ active_threads \in Nat
  BY Zenon DEF FinishThread, At, UInv, ThreadTypes
<1>2. Busy \in SUBSET Thread /\ Busy \ {t} \in SUBSET Thread /\ Cardinality(Busy) = 1 /\ t \in Busy
  BY <1>1 DEF UInv, Busy, Active
<1>3. Cardinality(Busy \ {t}) = 0
  BY <1>2 DEF UInv, Counting
<1>4. Busy \ {t} = {}
  BY Zenon, <1>2, <1>3 DEF UInv, Counting
<1>5. ASSUME NEW u \in Thread \ {t}
      PROVE  pc[u] = "done" /\ call[u] = NoCall
  <2>1. ThreadOK(u) /\ ThreadOK(t)
    BY Zenon DEF UInv
  <2>2. ~OthersDone(u)
    BY Zenon, <1>1 DEF OthersDone
  <2>3. pc[u] \in Active \cup {"not started", "additional", "finish", "done"} /\ pc[u] \notin Active
    BY Zenon, <1>4 DEF UInv, ThreadTypes, Busy
  <2>4. pc[u] # "not started"
    BY Zenon, <1>1, <2>1 DEF ThreadOK
  <2>5. pc[u] = "done"
    BY Zenon, <2>1, <2>2, <2>3, <2>4 DEF ThreadOK
  <2> QED
    BY Zenon, <2>1, <2>2, <2>5 DEF ThreadOK
<1> QED
  BY Zenon, <1>5 DEF OthersDone

LEMMA ThreadStepThreads ==
    ASSUME UInv, NEW t \in Thread, ThreadStep(t), UNCHANGED Others
    PROVE  \A u \in Thread : ThreadOK(u)'
<1>0. ThreadTypes /\ ItemTypes /\ throws \in Nat
  BY Zenon DEF UInv, ThreadTypes
<1>1. Thrown \subseteq Thrown' /\ throws' \in Nat /\ throws <= throws'
  BY <1>0, ThreadSteps, ThrownGrows
<1>2. handler' = handler /\ started' = started
  BY Zenon DEF Others, reader
<1>3. OthersDone(t)' <=> OthersDone(t)
  BY ThreadSteps DEF OthersDone
<1>4. ASSUME NEW u \in Thread, u # t
      PROVE  ThreadOK(u)'
  <2>1. ThreadOK(u) /\ ~OthersDone(u) /\ exception[u] \in Nat
    BY Zenon, <1>0, <1>4, ThreadSteps DEF UInv, ThreadTypes
  <2>2. pc'[u] = pc[u] /\ call'[u] = call[u] /\ input'[u] = input[u] /\ exception'[u] = exception[u]
    BY Zenon, <1>4, ThreadSteps
  <2>3. exception[u] <= throws' /\ (pc[u] = "caught" => exception[u] > 0)
    <3>1. exception[u] <= throws /\ (pc[u] = "caught" => exception[u] > 0)
      BY Zenon, <2>1 DEF ThreadOK
    <3> QED
      BY <3>1, <1>0, <1>1, <2>1
  <2> QED
    BY Zenon, <1>1, <1>2, <2>1, <2>2, <2>3 DEF ThreadOK
<1>5. ThreadOK(t)'
  <2>0. ThreadOK(t) /\ handler'[t] = "out" /\ started' /\ exception[t] \in Nat /\ exception[t] <= throws
    BY Zenon, <1>0, <1>2, ThreadSteps DEF UInv, ThreadTypes, ThreadOK
  <2>p. pc \in [Thread -> Active \cup {"not started", "additional", "finish", "done"}]
        /\ input \in [Thread -> Input \cup {0}] /\ call \in [Thread -> Item \cup {NoCall}]
        /\ exception \in [Thread -> Nat]
    BY Zenon, <1>0 DEF ThreadTypes, ItemTypes
  <2>1. exception'[t] <= throws' /\ (pc'[t] = "caught" => exception'[t] > 0)
    <3>1. (exception'[t] = exception[t] /\ pc'[t] # "caught") \/ (exception'[t] = throws' /\ throws' = throws + 1)
      <4>1. CASE TakeUnprepared(t) \/ TakeAvailable(t)
        BY Zenon, <4>1, <2>p DEF TakeUnprepared, TakeAvailable, At, GoTo, Throw
      <4>2. CASE ReadPrefix(t)
        BY Zenon, <4>2, <2>p DEF ReadPrefix, At, GoTo, Throw
      <4>3. CASE Read(t)
        BY Zenon, <4>3, <2>p DEF Read, At, GoTo, Throw
      <4>4. CASE Caught(t) \/ FinishThread(t) \/ Finish(t)
        BY Zenon, <4>4, <2>p DEF Caught, FinishThread, Finish, At, GoTo, Throw
      <4>5. CASE ReadAdditional(t)
        BY Zenon, <4>5, <2>p DEF ReadAdditional, At, GoTo, Throw
      <4> QED
        BY Zenon, <4>1, <4>2, <4>3, <4>4, <4>5 DEF ThreadStep
    <3> QED
      BY <3>1, <1>0, <1>1, <2>0
  <2>2. pc'[t] \in {"prefix", "read"} => input'[t] \in Input
    <3>0. unprepared_inputs \in Seq(Input) /\ available_inputs \in Seq(Input)
      BY Zenon, <1>0 DEF ThreadTypes
    <3>h. \A q \in Seq(Input) : q # <<>> => Head(q) \in Input
      OBVIOUS
    <3>1. CASE TakeUnprepared(t) \/ TakeAvailable(t)
      BY Zenon, <3>1, <2>p, <3>0, <3>h DEF TakeUnprepared, TakeAvailable, At, GoTo
    <3>2. CASE ReadPrefix(t) \/ Read(t)
      BY Zenon, <3>2, <2>p DEF ReadPrefix, Read, At, GoTo, Call, Throw
    <3>3. CASE Caught(t) \/ FinishThread(t) \/ Finish(t)
      BY Zenon, <3>3, <2>p DEF Caught, FinishThread, Finish, At, GoTo, Call, Throw
    <3>4. CASE ReadAdditional(t)
      BY Zenon, <3>4, <2>p DEF ReadAdditional, At, GoTo, Call, Throw
    <3> QED
      BY Zenon, <3>1, <3>2, <3>3, <3>4 DEF ThreadStep
  <2>3. pc'[t] # "not started"
    BY Zenon, <2>0, <2>p DEF ThreadStep, TakeUnprepared, ReadPrefix, TakeAvailable, Read, Caught, FinishThread, ReadAdditional,
                      Finish, At, GoTo, ThreadOK
  <2>4. call'[t] = EmptyBlock => pc'[t] = "done" /\ OthersDone(t)
    <3>0. \A s : BlockOf(s) # EmptyBlock
      BY Zenon DEF BlockOf, EmptyBlock
    <3>1. CASE TakeUnprepared(t) \/ ReadPrefix(t) \/ TakeAvailable(t) \/ FinishThread(t)
      BY Zenon, <3>1, <2>p, Distinct DEF TakeUnprepared, ReadPrefix, TakeAvailable, FinishThread, At, GoTo, Call, Throw
    <3>2. CASE Read(t) \/ Caught(t) \/ ReadAdditional(t)
      <4>1. call'[t] # EmptyBlock
        <5>0. NoCall # EmptyBlock /\ \A e : Raise(e) # EmptyBlock
          BY Zenon, Distinct
        <5>1. CASE Read(t)
          BY <5>0, <5>1, <2>p, <3>0 DEF Read, At, Call
        <5>2. CASE Caught(t)
          BY Zenon, <5>0, <5>2, <2>p DEF Caught, Call
        <5>3. CASE ReadAdditional(t)
          <6>1. call'[t] \in {BlockOf(0), Raise(exception[t]), Raise(exception'[t]), NoCall}
            BY Zenon, <5>3, <2>p DEF ReadAdditional, Call
          <6> QED
            BY Zenon, <5>0, <6>1, <3>0
        <5> QED
          BY Zenon, <3>2, <5>1, <5>2, <5>3
      <4> QED
        BY Zenon, <4>1
    <3>3. CASE Finish(t)
      BY Zenon, <3>3, <2>p, <2>0 DEF Finish, At, GoTo, Call, Throw, ThreadOK
    <3> QED
      BY Zenon, <3>1, <3>2, <3>3 DEF ThreadStep
  <2>5. pc'[t] = "done" => call'[t] \in {NoCall, EmptyBlock}
    BY Zenon, <2>0, <2>p DEF ThreadStep, TakeUnprepared, ReadPrefix, TakeAvailable, Read, Caught, FinishThread, ReadAdditional,
                      Finish, At, GoTo, Call
  <2>6. pc'[t] \in {"additional", "finish"} => OthersDone(t)
    <3>1. CASE TakeUnprepared(t) \/ ReadPrefix(t) \/ TakeAvailable(t) \/ Read(t)
      BY Zenon, <3>1, <2>p DEF TakeUnprepared, ReadPrefix, TakeAvailable, Read, At, GoTo, Call, Throw
    <3>2. CASE Caught(t) \/ ReadAdditional(t) \/ Finish(t)
      BY Zenon, <3>2, <2>p, <2>0 DEF Caught, ReadAdditional, Finish, At, GoTo, Call, Throw, ThreadOK
    <3>3. CASE FinishThread(t)
      BY Zenon, <3>3, <2>p, LastThread DEF FinishThread, At, GoTo, Call, Throw
    <3> QED
      BY Zenon, <3>1, <3>2, <3>3 DEF ThreadStep
  <2> QED
    BY Zenon, <1>3, <2>0, <2>1, <2>2, <2>3, <2>4, <2>5, <2>6 DEF ThreadOK
<1> QED
  BY Zenon, <1>4, <1>5

LEMMA ThreadStepRest ==
    ASSUME UInv, NEW t \in Thread, ThreadStep(t), UNCHANGED Others
    PROVE  Slots' /\ EndIsLast' /\ CancelOK'
<1>0. Slots /\ EndIsLast /\ CancelOK /\ ~all_read /\ ~Ended /\ finish' = finish
  BY Zenon, ThreadSteps DEF UInv
<1>1. /\ queue' = queue /\ fill_count' = fill_count /\ empty_count' = empty_count /\ handler' = handler
      /\ main' = main /\ payload' = payload /\ raised' = raised /\ all_read' = all_read
      /\ canceller' = canceller /\ destroying' = destroying
  BY Zenon DEF Others, queues, reader
<1>2. Slots'
  <2>1. In("push")' = In("push") /\ In("set")' = In("set")
    BY Zenon, <1>1 DEF In
  <2>2. Popping' = Popping /\ HasPopped' = HasPopped
    BY Zenon, <1>1 DEF Popping, HasPopped
  <2> QED
    BY Zenon, <1>0, <1>1, <2>1, <2>2 DEF Slots
<1>3. EndIsLast'
  <2>1. /\ \A k \in DOMAIN queue : queue[k] # EmptyBlock
        /\ ~Popped(EmptyBlock)
    BY Zenon, <1>0 DEF EndIsLast
  <2>2. ~Popped(EmptyBlock)'
    BY Zenon, <1>1, <2>1 DEF Popped
  <2> QED
    BY Zenon, <1>0, <1>1, <2>1, <2>2 DEF EndIsLast
<1>4. CancelOK'
  <2>1. Healthy' <=> Healthy
    BY Zenon, <1>1 DEF Healthy, Nobody, QueryThread
  <2> QED
    BY Zenon, <1>0, <1>1, <2>1 DEF CancelOK
<1> QED
  BY Zenon, <1>2, <1>3, <1>4

\* An exception met by the thread is kept
LEMMA ThreadStepExceptions ==
    ASSUME UInv, NEW t \in Thread, ThreadStep(t), UNCHANGED Others
    PROVE  ExceptionKept'
<1>0. ExceptionKept /\ ThreadTypes /\ ItemTypes /\ throws \in Nat
  BY Zenon DEF UInv, ThreadTypes
<1>1. queue' = queue /\ handler' = handler /\ main' = main /\ payload' = payload /\ raised' = raised
  BY Zenon DEF Others, queues, reader
<1>p. pc \in [Thread -> Active \cup {"not started", "additional", "finish", "done"}]
      /\ call \in [Thread -> Item \cup {NoCall}] /\ exception \in [Thread -> Nat]
  BY Zenon, <1>0 DEF ThreadTypes, ItemTypes
<1>t. handler[t] = "out" /\ handler'[t] = "out" /\ call[t] = NoCall
  BY Zenon, <1>1, ThreadSteps
<1>2. ASSUME NEW e, OnTheWay(Raise(e))
      PROVE  OnTheWay(Raise(e))'
  <2>1. Among(queue, Raise(e))' <=> Among(queue, Raise(e))
    BY Zenon, <1>1 DEF Among
  <2>2. Popped(Raise(e))' <=> Popped(Raise(e))
    BY Zenon, <1>1 DEF Popped
  <2>3. \A u \in Thread : Carried(u, Raise(e)) => Carried(u, Raise(e))'
    BY <1>1, <1>t, ThreadSteps, Distinct DEF Carried
  <2> QED
    BY Zenon, <1>2, <2>1, <2>2, <2>3 DEF OnTheWay
<1>3. ASSUME NEW e, call'[t] = Raise(e)
      PROVE  OnTheWay(Raise(e))'
  BY Zenon, <1>3, <1>t DEF OnTheWay, Carried
<1>4. ASSUME NEW e \in 1..throws
      PROVE  (OnTheWay(Raise(e)) \/ Raise(e) \in raised \/ \E u \in Thread : pc[u] = "caught" /\ exception[u] = e)'
  <2>1. CASE OnTheWay(Raise(e)) \/ Raise(e) \in raised
    BY Zenon, <2>1, <1>2, <1>1
  <2>2. CASE \E u \in Thread : pc[u] = "caught" /\ exception[u] = e
    <3>1. PICK u \in Thread : pc[u] = "caught" /\ exception[u] = e
      BY Zenon, <2>2
    <3>2. CASE u # t
      BY Zenon, <3>1, <3>2, ThreadSteps
    <3>3. CASE u = t
      <4>1. Caught(t)
        BY Zenon, <3>1, <3>3 DEF ThreadStep, TakeUnprepared, ReadPrefix, TakeAvailable, Read, FinishThread,
                          ReadAdditional, Finish, At
      <4>2. call'[t] = Raise(e)
        BY Zenon, <4>1, <3>1, <3>3, <1>p DEF Caught, Call
      <4> QED
        BY Zenon, <4>2, <1>3
    <3> QED
      BY Zenon, <3>2, <3>3
  <2> QED
    BY Zenon, <2>1, <2>2, <1>0 DEF ExceptionKept
<1>5. ASSUME throws' = throws + 1
      PROVE  (OnTheWay(Raise(throws)) \/ \E u \in Thread : pc[u] = "caught" /\ exception[u] = throws)'
  <2>1. exception'[t] = throws' /\ (pc'[t] = "caught" \/ call'[t] = Raise(throws'))
    <3>0. throws' # throws
      BY <1>0, <1>5
    <3>1. CASE ReadPrefix(t)
      BY Zenon, <3>0, <3>1, <1>p DEF ReadPrefix, Throw, GoTo
    <3>2. CASE Read(t)
      BY Zenon, <3>0, <3>2, <1>p DEF Read, Throw, GoTo
    <3>3. CASE ReadAdditional(t)
      BY Zenon, <3>0, <3>3, <1>p DEF ReadAdditional, Throw, Call
    <3> QED
      BY Zenon, <3>0, <3>1, <3>2, <3>3 DEF ThreadStep, TakeUnprepared, TakeAvailable, Caught, FinishThread, Finish
  <2> QED
    BY Zenon, <2>1, <1>3
<1>6. \A e \in 1..throws' : e \in 1..throws \/ (throws' = throws + 1 /\ e = throws')
  BY <1>0, ThreadSteps
<1> QED
  BY Zenon, <1>4, <1>5, <1>6 DEF ExceptionKept

\* Sources are not forgotten
LEMMA ThreadStepSources ==
    ASSUME UInv, NEW t \in Thread, ThreadStep(t), UNCHANGED Others
    PROVE  SourcesOK'
<1> USE DEF At, GoTo
<1>0. SourcesOK /\ ThreadTypes /\ ThreadOK(t) /\ throws \in Nat
  BY Zenon DEF UInv, ThreadTypes
<1>p. pc \in [Thread -> Active \cup {"not started", "additional", "finish", "done"}]
      /\ input \in [Thread -> Input \cup {0}] /\ left \in [Input \cup {0} -> Nat]
      /\ unprepared_inputs \in Seq(Input) /\ available_inputs \in Seq(Input)
      /\ 0 \notin Input /\ (pc[t] \in {"prefix", "read"} => input[t] \in Input)
  BY Zenon, <1>0, Constants DEF ThreadTypes, ThreadOK
<1>l. pc \in [Thread -> Active \cup {"not started", "additional", "finish", "done"}]
  BY Zenon, <1>p
<1>a. ASSUME NEW q \in Seq(Input), NEW x \in Input, NEW s
      PROVE  Among(Append(q, x), s) <=> Among(q, s) \/ s = x
  <2>1. \A y : Among(Append(q, x), y) <=> Among(q, y) \/ y = x
    BY Pushed
  <2> QED
    BY Zenon, <2>1
<1>b. ASSUME NEW q \in Seq(Input), q # <<>>, NEW s
      PROVE  Among(q, s) => Among(Tail(q), s) \/ s = Head(q)
  <2>1. Len(q) > 0
    BY <1>b
  <2> QED
    BY Zenon, <2>1, PoppedOff
<1>1. left' = left \/ (\E s \in Input \cup {0} : left[s] > 0 /\ left' = [left EXCEPT ![s] = @ - 1])
  BY Zenon, <1>p DEF ThreadStep, TakeUnprepared, ReadPrefix, TakeAvailable, Read, Caught, FinishThread, ReadAdditional,
              Finish
<1>2. left' \in [Input \cup {0} -> Nat] /\ \A s \in Input \cup {0} : left'[s] <= left[s]
  <2>1. ASSUME NEW s \in Input \cup {0}
        PROVE  left'[s] <= left[s]
    <3>1. left \in [Input \cup {0} -> Nat]
      BY Zenon, <1>p
    <3> QED
      BY <1>1, <3>1
  <2> QED
    BY Zenon, <2>1, ThreadStepTypes DEF ThreadTypes
<1>3. ASSUME NEW s \in Input
      PROVE  left'[s] <= blocks_in[s]
  <2>1. left[s] <= blocks_in[s] /\ left'[s] <= left[s] /\ left'[s] \in Nat /\ left[s] \in Nat /\ blocks_in[s] \in Nat
    BY Zenon, <1>0, <1>2, <1>p, Constants DEF SourcesOK
  <2> QED
    BY <2>1
<1>4. ASSUME left'[0] > 0
      PROVE  \E n \in additional : left'[0] <= n
  <2>0. left'[0] <= left[0] /\ left'[0] \in Nat /\ left[0] \in Nat
    BY Zenon, <1>2, <1>p
  <2>1. PICK n \in additional : left[0] <= n
    BY <1>0, <1>4, <2>0 DEF SourcesOK
  <2>2. left'[0] <= n
    BY <2>0, <2>1, ProcessorConstants
  <2> QED
    BY Zenon, <2>2
<1>5. throws' = 0 => throws = 0 /\ ~Throw(t)
  BY <1>0, ThreadSteps DEF Throw
<1>6. ASSUME ~finish', throws' = 0
      PROVE  /\ (\A s \in Input : left[s] > 0 => Held(s))'
             /\ (unprepared_inputs # <<>> => \E u \in Thread : pc[u] \in {"prepare", "prefix"})'
             /\ (available_inputs # <<>> => \E u \in Thread : pc[u] \in {"prepare", "prefix", "loop", "read"})'
  <2>0. /\ ~finish /\ ~Throw(t) /\ throws = 0
        /\ \A s \in Input : left[s] > 0 => Held(s)
        /\ unprepared_inputs # <<>> => \E u \in Thread : pc[u] \in {"prepare", "prefix"}
        /\ available_inputs # <<>> => \E u \in Thread : pc[u] \in {"prepare", "prefix", "loop", "read"}
    BY Zenon, <1>0, <1>5, <1>6, ThreadSteps DEF SourcesOK
  <2>h. \A u \in Thread \ {t} : pc'[u] = pc[u] /\ input'[u] = input[u]
    BY Zenon, ThreadSteps
  <2>s. \A s \in Input : left'[s] > 0 => left[s] > 0
    <3>1. ASSUME NEW s \in Input
          PROVE  left'[s] <= left[s] /\ left'[s] \in Nat /\ left[s] \in Nat
      BY Zenon, <1>2, <1>p
    <3> QED
      BY <3>1
  <2>1. CASE TakeUnprepared(t)
    <3>1. CASE unprepared_inputs = <<>>
      <4>1. pc'[t] = "loop" /\ unprepared_inputs' = <<>> /\ available_inputs' = available_inputs
        BY Zenon, <2>0, <2>1, <3>1, <1>p DEF TakeUnprepared
      <4>2. pc[t] = "prepare"
        BY Zenon, <2>1 DEF TakeUnprepared
      <4>3. \A s : Held(s) => Held(s)'
        BY Zenon, <3>1, <4>1, <4>2, <2>h DEF Held
      <4> QED
        BY Zenon, <4>1, <4>3, <2>0, <2>s
    <3>2. CASE unprepared_inputs # <<>>
      <4>1. pc'[t] = "prefix" /\ input'[t] = Head(unprepared_inputs) /\ unprepared_inputs' = Tail(unprepared_inputs)
            /\ available_inputs' = available_inputs /\ pc[t] = "prepare"
        BY Zenon, <2>0, <2>1, <3>2, <1>p DEF TakeUnprepared
      <4>2. \A s : Among(unprepared_inputs, s) => Among(unprepared_inputs', s) \/ s = Head(unprepared_inputs)
        BY Zenon, <1>p, <1>b, <3>2, <4>1
      <4>3. \A s : Held(s) => Held(s)'
        BY Zenon, <4>1, <4>2, <2>h DEF Held
      <4> QED
        BY Zenon, <4>1, <4>3, <2>0, <2>s
    <3> QED
      BY Zenon, <3>1, <3>2
  <2>2. CASE ReadPrefix(t)
    <3>1. pc[t] = "prefix" /\ pc'[t] = "prepare" /\ unprepared_inputs' = unprepared_inputs
          /\ available_inputs' = Append(available_inputs, input[t])
      BY Zenon, <2>0, <2>2, <1>p DEF ReadPrefix
    <3>2. \A s : Among(available_inputs', s) <=> Among(available_inputs, s) \/ s = input[t]
      BY Zenon, <1>p, <1>a, <3>1
    <3>3. \A s : Held(s) => Held(s)'
      BY Zenon, <3>1, <3>2, <2>h DEF Held
    <3> QED
      BY Zenon, <3>1, <3>3, <2>0, <2>s
  <2>3. CASE TakeAvailable(t)
    <3>1. CASE available_inputs = <<>>
      <4>1. pc'[t] = "end" /\ unprepared_inputs' = unprepared_inputs /\ available_inputs' = <<>> /\ pc[t] = "loop"
        BY Zenon, <2>0, <2>3, <3>1, <1>p DEF TakeAvailable
      <4>2. \A s : Held(s) => Held(s)'
        BY Zenon, <3>1, <4>1, <2>h DEF Held
      <4>3. \A u \in Thread : pc[u] \in {"prepare", "prefix"} => pc'[u] = pc[u]
        BY Zenon, <4>1, <2>h
      <4> QED
        BY Zenon, <4>1, <4>2, <4>3, <2>0, <2>s
    <3>2. CASE available_inputs # <<>>
      <4>1. pc'[t] = "read" /\ input'[t] = Head(available_inputs) /\ available_inputs' = Tail(available_inputs)
            /\ unprepared_inputs' = unprepared_inputs /\ pc[t] = "loop"
        BY Zenon, <2>0, <2>3, <3>2, <1>p DEF TakeAvailable
      <4>2. \A s : Among(available_inputs, s) => Among(available_inputs', s) \/ s = Head(available_inputs)
        BY Zenon, <1>p, <1>b, <3>2, <4>1
      <4>3. \A s : Held(s) => Held(s)'
        BY Zenon, <4>1, <4>2, <2>h DEF Held
      <4>4. \A u \in Thread : pc[u] \in {"prepare", "prefix"} => pc'[u] = pc[u]
        BY Zenon, <4>1, <2>h
      <4> QED
        BY Zenon, <4>1, <4>3, <4>4, <2>0, <2>s
    <3> QED
      BY Zenon, <3>1, <3>2
  <2>4. CASE Read(t)
    <3>1. pc[t] = "read" /\ unprepared_inputs' = unprepared_inputs
      BY Zenon, <2>4 DEF Read
    <3>0. left[input[t]] \in Nat
      BY Zenon, <1>p
    <3>2. \A u \in Thread : pc[u] \in {"prepare", "prefix"} => pc'[u] = pc[u]
      BY Zenon, <3>1, <2>h
    <3>3. CASE left[input[t]] > 0
      <4>1. pc'[t] = "loop" /\ available_inputs' = Append(available_inputs, input[t])
        <5>1. ~(left[input[t]] = 0)
          BY <3>0, <3>3
        <5>2. pc' = [pc EXCEPT ![t] = "loop"] /\ available_inputs' = Append(available_inputs, input[t])
          BY Zenon, <2>0, <2>4, <3>3, <5>1 DEF Read
        <5> QED
          BY Zenon, <5>2, <1>l
      <4>2. \A s : Among(available_inputs', s) <=> Among(available_inputs, s) \/ s = input[t]
        BY Zenon, <1>p, <1>a, <3>1, <4>1
      <4>3. \A s : Held(s) => Held(s)'
        BY Zenon, <3>1, <4>1, <4>2, <2>h DEF Held
      <4> QED
        BY Zenon, <3>1, <3>2, <4>1, <4>3, <2>0, <2>s
    <3>4. CASE left[input[t]] = 0
      <4>1. pc'[t] = (IF available_inputs = <<>> THEN "end" ELSE "loop") /\ available_inputs' = available_inputs
        <5>1. ~(left[input[t]] > 0)
          BY <3>0, <3>4
        <5>2. pc' = [pc EXCEPT ![t] = IF available_inputs = <<>> THEN "end" ELSE "loop"]
              /\ available_inputs' = available_inputs
          BY Zenon, <2>0, <2>4, <3>4, <5>1 DEF Read
        <5> QED
          BY Zenon, <5>2, <1>l
      <4>2. \A s : Held(s) /\ s # input[t] => Held(s)'
        BY Zenon, <3>1, <4>1, <2>h DEF Held
      <4>3. \A s \in Input : left'[s] > 0 => s # input[t]
        BY <2>s, <3>4
      <4> QED
        BY Zenon, <3>1, <3>2, <4>1, <4>2, <4>3, <2>0, <2>s
    <3> QED
      BY <3>0, <3>3, <3>4
  <2>5. CASE Caught(t) \/ FinishThread(t) \/ ReadAdditional(t) \/ Finish(t)
    <3>1. pc[t] \notin {"prepare", "prefix", "loop", "read"} /\ unprepared_inputs' = unprepared_inputs
          /\ available_inputs' = available_inputs
      BY Zenon, <2>5 DEF Caught, FinishThread, ReadAdditional, Finish
    <3>2. \A s : Held(s) => Held(s)'
      BY Zenon, <3>1, <2>h DEF Held
    <3>3. \A u \in Thread : pc[u] \in {"prepare", "prefix", "loop", "read"} => pc'[u] = pc[u]
      BY Zenon, <3>1, <2>h
    <3> QED
      BY Zenon, <3>1, <3>2, <3>3, <2>0, <2>s
  <2> QED
    BY Zenon, <2>1, <2>2, <2>3, <2>4, <2>5 DEF ThreadStep
<1>7. ASSUME throws' = 0, (\E u \in Thread : pc'[u] = "finish") \/ (\A u \in Thread : pc'[u] = "done")
      PROVE  left'[0] = 0
  <2>0. /\ ~Throw(t) /\ throws = 0
        /\ left[0] > 0 => \E n \in additional : left[0] <= n
        /\ (\E u \in Thread : pc[u] = "finish") => left[0] = 0
    BY Zenon, <1>0, <1>5, <1>7 DEF SourcesOK
  <2>1. left[0] \in Nat /\ (left[0] = 0 => left'[0] = 0)
    <3>1. left'[0] <= left[0] /\ left'[0] \in Nat /\ left[0] \in Nat
      BY Zenon, <1>2, <1>p
    <3> QED
      BY <3>1
  <2>2. \A u \in Thread \ {t} : pc'[u] = pc[u] /\ (pc[u] = "finish" => OthersDone(u)) /\ ~OthersDone(u)
    BY Zenon, ThreadSteps DEF UInv, ThreadOK
  <2>3. pc'[t] \in {"finish", "done"}
    BY Zenon, <1>7, <2>2
  <2>4. CASE ReadAdditional(t)
    BY Zenon, <2>0, <2>3, <2>4, <1>p DEF ReadAdditional
  <2>5. CASE Finish(t)
    BY Zenon, <2>0, <2>1, <2>5 DEF Finish
  <2>6. CASE FinishThread(t)
    <3>1. CASE active_threads' # 0
      <4>1. Busy' # {}
        <5>1. {} \in SUBSET Thread /\ Cardinality({}) = 0
          BY Zenon DEF UInv, Counting
        <5> QED
          BY Zenon, <3>1, <5>1, ThreadStepActive
      <4>2. PICK u \in Thread : pc'[u] \in Active
        BY Zenon, <4>1 DEF Busy
      <4>3. pc'[t] = "done"
        BY Zenon, <2>6, <3>1, <1>p DEF FinishThread
      <4> QED
        BY Zenon, <1>7, <2>2, <4>2, <4>3 DEF Active
    <3>2. CASE active_threads' = 0
      <4>1. additional = {}
        BY Zenon, <2>3, <2>6, <3>2, <1>p DEF FinishThread
      <4>2. left[0] = 0
        BY <2>0, <2>1, <4>1
      <4> QED
        BY Zenon, <4>2, <2>1
    <3> QED
      BY Zenon, <3>1, <3>2
  <2>7. CASE TakeUnprepared(t) \/ ReadPrefix(t) \/ TakeAvailable(t) \/ Read(t) \/ Caught(t)
    BY Zenon, <2>3, <2>7, <1>p DEF TakeUnprepared, ReadPrefix, TakeAvailable, Read, Caught
  <2> QED
    BY Zenon, <2>4, <2>5, <2>6, <2>7 DEF ThreadStep
<1> QED
  BY Zenon, <1>3, <1>4, <1>6, <1>7 DEF SourcesOK

\* A block taken from a source was nowhere before
LEMMA ThreadStepBlocks ==
    ASSUME UInv, NEW t \in Thread, ThreadStep(t), UNCHANGED Others, NEW b \in AllBlocks
    PROVE  BlockOK(b)'
<1>0. BlockOK(b) /\ ThreadTypes /\ ItemTypes /\ call[t] = NoCall /\ handler[t] = "out"
  BY Zenon, ThreadSteps DEF UInv
<1>l. left \in [Input \cup {0} -> Nat] /\ call \in [Thread -> Item \cup {NoCall}] /\ input[t] \in Input \cup {0}
  BY Zenon, <1>0 DEF ThreadTypes, ItemTypes
<1>b. b = <<b[1], b[2]>> /\ b[2] \in Nat /\ b[2] > 0 /\ b[1] \in Input \cup {0} /\ left[b[1]] \in Nat
      /\ b # NoCall /\ b # EmptyBlock /\ \A e : b # Raise(e)
  BY Zenon, <1>l, BlockShape, Distinct
<1>1. /\ queue' = queue /\ handler' = handler /\ main' = main /\ payload' = payload /\ delivered' = delivered
      /\ canceller' = canceller /\ destroying' = destroying
  BY Zenon DEF Others, queues, reader
<1>2. (Among(queue, b)' <=> Among(queue, b)) /\ (Popped(b)' <=> Popped(b)) /\ (Healthy' <=> Healthy)
  BY Zenon, <1>1 DEF Among, Popped, Healthy, Nobody, QueryThread
<1>3. \A u \in Thread \ {t} : Carried(u, b)' <=> Carried(u, b)
  BY Zenon, <1>1, ThreadSteps DEF Carried
<1>4. ~Carried(t, b) /\ (Carried(t, b)' <=> call'[t] = b)
  BY Zenon, <1>0, <1>1, <1>b DEF Carried
<1>5. \/ left' = left /\ call'[t] # b
      \/ \E s \in Input \cup {0} : left[s] > 0 /\ left' = [left EXCEPT ![s] = @ - 1] /\ call'[t] = <<s, left[s]>>
  <2>1. CASE Read(t)
    BY Zenon, <2>1, <1>0, <1>l, <1>b DEF Read, Call, BlockOf
  <2>2. CASE ReadAdditional(t)
    <3>1. CASE left[0] > 0 /\ Call(t, BlockOf(0)) /\ left' = [left EXCEPT ![0] = @ - 1]
      BY Zenon, <3>1, <1>l DEF Call, BlockOf
    <3>2. CASE left' = left /\ \/ Call(t, IF exception[t] # 0 THEN Raise(exception[t]) ELSE NoCall)
                                \/ Call(t, Raise(exception'[t]))
      <4>1. call'[t] \in {Raise(exception[t]), Raise(exception'[t]), NoCall}
        BY Zenon, <3>2, <1>l DEF Call
      <4> QED
        BY Zenon, <3>2, <4>1, <1>b
    <3> QED
      BY Zenon, <2>2, <3>1, <3>2 DEF ReadAdditional
  <2>3. CASE ~Read(t) /\ ~ReadAdditional(t)
    BY <2>3, <1>0, <1>l, <1>b DEF ThreadStep, TakeUnprepared, ReadPrefix, TakeAvailable, Caught, FinishThread, Finish, Call
  <2> QED
    BY Zenon, <2>1, <2>2, <2>3
<1>6. CASE left' = left /\ call'[t] # b
  <2>1. \A u \in Thread : Carried(u, b)' <=> Carried(u, b)
    BY Zenon, <1>3, <1>4, <1>6
  <2>2. (OnTheWay(b)' <=> OnTheWay(b)) /\ (Taken(b)' <=> Taken(b))
    BY Zenon, <1>2, <1>6, <2>1 DEF OnTheWay, Taken
  <2> QED
    BY Zenon, <1>0, <1>1, <1>2, <2>1, <2>2 DEF BlockOK
<1>7. CASE \E s \in Input \cup {0} : left[s] > 0 /\ left' = [left EXCEPT ![s] = @ - 1] /\ call'[t] = <<s, left[s]>>
  <2>1. PICK s \in Input \cup {0} : left[s] > 0 /\ left' = [left EXCEPT ![s] = @ - 1] /\ call'[t] = <<s, left[s]>>
    BY Zenon, <1>7
  <2>2. CASE b # <<s, left[s]>>
    <3>1. \A u \in Thread : Carried(u, b)' <=> Carried(u, b)
      BY Zenon, <1>3, <1>4, <2>1, <2>2
    <3>2. Taken(b)' <=> Taken(b)
      <4>1. CASE b[1] # s
        BY Zenon, <4>1, <2>1, <1>l, <1>b DEF Taken
      <4>2. CASE b[1] = s
        <5>1. b[2] # left[s]
          BY Zenon, <4>2, <2>2, <1>b
        <5>2. left'[b[1]] = left[s] - 1 /\ left[s] \in Nat
          BY Zenon, <4>2, <2>1, <1>l, <1>b
        <5> QED
          BY <4>2, <5>1, <5>2, <1>b DEF Taken
      <4> QED
        BY Zenon, <4>1, <4>2
    <3>3. OnTheWay(b)' <=> OnTheWay(b)
      BY Zenon, <1>2, <3>1 DEF OnTheWay
    <3> QED
      BY Zenon, <1>0, <1>1, <1>2, <3>1, <3>2, <3>3 DEF BlockOK
  <2>3. CASE b = <<s, left[s]>>
    <3>1. b[1] = s /\ b[2] = left[s] /\ left[s] \in Nat /\ left'[s] = left[s] - 1
      BY Zenon, <2>1, <2>3, <1>l
    <3>2. ~Taken(b) /\ Taken(b)'
      BY <3>1 DEF Taken
    <3>3. ~OnTheWay(b) /\ delivered[b] # 1 /\ delivered[b] \in {0, 1}
      BY Zenon, <3>2, <1>0 DEF BlockOK, UInv, StreamTypes
    <3>4. \A u \in Thread : Carried(u, b)' <=> u = t
      BY Zenon, <3>3, <1>3, <1>4, <2>1, <2>3 DEF OnTheWay
    <3>5. ~Among(queue, b) /\ ~Popped(b)
      BY Zenon, <3>3 DEF OnTheWay
    <3>6. OnTheWay(b)'
      BY Zenon, <3>4 DEF OnTheWay
    <3>7. \A k \in DOMAIN queue : queue[k] # b
      BY Zenon, <3>5 DEF Among
    <3> QED
      BY Zenon, <1>1, <1>2, <3>2, <3>3, <3>4, <3>5, <3>6, <3>7 DEF BlockOK
  <2> QED
    BY Zenon, <2>2, <2>3
<1> QED
  BY Zenon, <1>5, <1>6, <1>7

LEMMA ThreadStepKeeps ==
    ASSUME UInv, NEW t \in Thread, ThreadStep(t), UNCHANGED Others
    PROVE  UInv'
<1>1. \A b \in AllBlocks : BlockOK(b)'
  BY Zenon, ThreadStepBlocks
<1> QED
  BY Zenon, <1>1, ThreadStepTypes, ThreadStepActive, ThreadStepThreads, ThreadStepRest, ThreadStepExceptions, ThreadStepSources
  DEF UInv
-----------------------------------------------------------------------------
\* Steps of the handler

HandlerStep(t) == Push(t) \/ CancelOnException(t)

\* The six steps of a call of the handler
Waits(t)   == /\ handler[t] = "out" /\ handler'[t] = "push" /\ empty_count > 0 /\ empty_count' = empty_count - 1
              /\ UNCHANGED <<queue, fill_count, call, canceller>>
Puts(t)    == /\ handler[t] = "push" /\ handler'[t] = "set" /\ queue' = Append(queue, call[t])
              /\ UNCHANGED <<fill_count, empty_count, call, canceller>>
Raises(t)  == /\ handler[t] = "set" /\ handler'[t] = "cancel" /\ fill_count' = fill_count + 1
              /\ call[t] \in Exceptions /\ UNCHANGED <<queue, empty_count, call, canceller>>
Returns(t) == /\ handler[t] = "set" /\ handler'[t] = "out" /\ fill_count' = fill_count + 1
              /\ call'[t] = NoCall /\ UNCHANGED <<queue, empty_count, canceller>>
Cancels(t) == /\ handler[t] = "cancel" /\ handler'[t] = "cancelled" /\ UNCHANGED <<queue, fill_count, empty_count, call>>
              /\ canceller' = IF is_cancelled THEN canceller ELSE t
Leaves(t)  == /\ handler[t] = "cancelled" /\ handler'[t] = "out" /\ call'[t] = NoCall
              /\ UNCHANGED <<queue, fill_count, empty_count, canceller>>

LEMMA HandlerSteps ==
    ASSUME UInv, NEW t \in Thread, HandlerStep(t)
    PROVE  /\ UNCHANGED <<unprepared_inputs, available_inputs, left, pc, input, exception, active_threads, finish,
                          throws, main, payload, started, all_read, raised, destroying, delivered>>
           /\ call[t] # NoCall
           /\ \A u \in Thread \ {t} : call'[u] = call[u] /\ handler'[u] = handler[u]
           /\ Waits(t) \/ Puts(t) \/ Raises(t) \/ Returns(t) \/ Cancels(t) \/ Leaves(t)
           /\ handler' \in [Thread -> {"out", "push", "set", "cancel", "cancelled"}]
           /\ call' \in [Thread -> Item \cup {NoCall}]
<1>0. handler \in [Thread -> {"out", "push", "set", "cancel", "cancelled"}] /\ ThreadOK(t)
      /\ call \in [Thread -> Item \cup {NoCall}]
  BY Zenon DEF UInv, ItemTypes, StreamTypes
<1>1. CASE Push(t) /\ handler[t] = "out"
  BY Zenon, <1>0, <1>1 DEF Push, output_queue!PushWait, Waits, processor, reader, queues
<1>2. CASE Push(t) /\ handler[t] = "push"
  BY Zenon, <1>0, <1>2 DEF Push, output_queue!PushItem, Puts, processor, reader, queues
<1>3. CASE Push(t) /\ handler[t] = "set"
  <2>1. CASE call[t] \in Exceptions
    BY Zenon, <1>0, <1>3, <2>1 DEF Push, output_queue!PushSet, Raises, processor, reader, queues
  <2>2. CASE call[t] \notin Exceptions
    BY Zenon, <1>0, <1>3, <2>2 DEF Push, output_queue!PushSet, Returns, Return, Call, processor, reader, queues
  <2> QED
    BY Zenon, <2>1, <2>2
<1>4. CASE CancelOnException(t)
  <2>0. handler[t] \in {"cancel", "cancelled"}
    BY Zenon, <1>4 DEF CancelOnException
  <2>1. call[t] # NoCall
    BY Zenon, <1>0, <2>0 DEF ThreadOK
  <2>2. CASE handler[t] = "cancel"
    BY Zenon, <1>0, <1>4, <2>1, <2>2 DEF CancelOnException, Cancel, Cancels, queues, processor, reader
  <2>3. CASE handler[t] = "cancelled"
    BY Zenon, <1>0, <1>4, <2>1, <2>3 DEF CancelOnException, Leaves, queues, Return, Call, processor, reader
  <2> QED
    BY Zenon, <2>0, <2>2, <2>3
<1> QED
  BY Zenon, <1>1, <1>2, <1>3, <1>4 DEF HandlerStep, Push

LEMMA HandlerTypes ==
    ASSUME UInv, NEW t \in Thread, HandlerStep(t)
    PROVE  ThreadTypes' /\ ItemTypes' /\ StreamTypes' /\ SourcesOK' /\ active_threads' = Cardinality(Busy')
<1>0. ThreadTypes /\ ItemTypes /\ StreamTypes /\ SourcesOK /\ active_threads = Cardinality(Busy)
  BY Zenon DEF UInv
<1>1. /\ UNCHANGED <<unprepared_inputs, available_inputs, left, pc, input, exception, active_threads, finish,
                     throws, main, payload, started, all_read, raised, destroying, delivered>>
      /\ Waits(t) \/ Puts(t) \/ Raises(t) \/ Returns(t) \/ Cancels(t) \/ Leaves(t)
      /\ handler' \in [Thread -> {"out", "push", "set", "cancel", "cancelled"}]
      /\ call' \in [Thread -> Item \cup {NoCall}]
      /\ call[t] # NoCall
  BY Zenon, HandlerSteps
<1>2. ThreadTypes' /\ active_threads' = Cardinality(Busy')
  BY Zenon, <1>0, <1>1 DEF ThreadTypes, Busy
<1>3. SourcesOK'
  BY Zenon, <1>0, <1>1 DEF SourcesOK, Held, Among
<1>4. Item' = Item /\ Thrown' = Thrown
  BY Zenon, <1>1 DEF Item, Thrown
<1>5. queue' \in Seq(Item)
  <2>1. queue \in Seq(Item) /\ call[t] \in Item
    BY Zenon, <1>0, <1>1 DEF ItemTypes
  <2>2. Append(queue, call[t]) \in Seq(Item)
    BY <2>1
  <2> QED
    BY Zenon, <1>1, <2>1, <2>2 DEF Waits, Puts, Raises, Returns, Cancels, Leaves
<1>6. ItemTypes'
  BY Zenon, <1>0, <1>1, <1>4, <1>5 DEF ItemTypes
<1>7. fill_count' \in Nat /\ empty_count' \in Nat
  <2>1. fill_count \in Nat /\ empty_count \in Nat
    BY Zenon, <1>0 DEF StreamTypes
  <2> QED
    BY <1>1, <2>1 DEF Waits, Puts, Raises, Returns, Cancels, Leaves
<1>8. canceller' \in {Nobody, QueryThread, Other} \cup Thread
  <2>1. canceller \in {Nobody, QueryThread, Other} \cup Thread
    BY Zenon, <1>0 DEF StreamTypes
  <2> QED
    BY Zenon, <1>1, <2>1 DEF Waits, Puts, Raises, Returns, Cancels, Leaves
<1>9. StreamTypes'
  BY Zenon, <1>0, <1>1, <1>7, <1>8 DEF StreamTypes
<1> QED
  BY Zenon, <1>2, <1>3, <1>6, <1>9

LEMMA InCounts ==
    ASSUME UInv
    PROVE  \A stage : In(stage) \in SUBSET Thread /\ Cardinality(In(stage)) \in Nat
<1>1. \A stage : In(stage) \in SUBSET Thread
  BY Zenon DEF In
<1> QED
  BY Zenon, <1>1 DEF UInv, Counting

LEMMA HandlerSlots ==
    ASSUME UInv, NEW t \in Thread, HandlerStep(t)
    PROVE  Slots'
<1>0. Slots /\ fill_count \in Nat /\ empty_count \in Nat /\ max_threads \in Nat
  BY Zenon, Constants DEF UInv, StreamTypes
<1>1. /\ main' = main
      /\ \A u \in Thread \ {t} : handler'[u] = handler[u]
      /\ Waits(t) \/ Puts(t) \/ Raises(t) \/ Returns(t) \/ Cancels(t) \/ Leaves(t)
  BY Zenon, HandlerSteps
<1>2. Popping' = Popping /\ HasPopped' = HasPopped /\ Popping \in Nat /\ HasPopped \in Nat
  BY Zenon, <1>1 DEF Popping, HasPopped
<1>3. ASSUME NEW stage, handler[t] # stage, handler'[t] = stage
      PROVE  Cardinality(In(stage)') = Cardinality(In(stage)) + 1
  <2>1. In(stage)' = In(stage) \cup {t} /\ t \notin In(stage)
    BY Zenon, <1>1, <1>3 DEF In
  <2> QED
    BY Zenon, <2>1, InCounts DEF UInv, Counting
<1>4. ASSUME NEW stage, handler[t] = stage, handler'[t] # stage
      PROVE  Cardinality(In(stage)') = Cardinality(In(stage)) - 1
  <2>1. In(stage)' = In(stage) \ {t} /\ t \in In(stage)
    BY <1>1, <1>4 DEF In
  <2> QED
    BY Zenon, <2>1, InCounts DEF UInv, Counting
<1>5. ASSUME NEW stage, handler[t] # stage, handler'[t] # stage
      PROVE  Cardinality(In(stage)') = Cardinality(In(stage))
  <2>1. In(stage)' = In(stage)
    BY Zenon, <1>1, <1>5 DEF In
  <2> QED
    BY Zenon, <2>1
<1>6. Cardinality(In("push")) \in Nat /\ Cardinality(In("set")) \in Nat
  BY Zenon, InCounts
<1>7. CASE Waits(t)
  <2>1. Cardinality(In("push")') = Cardinality(In("push")) + 1 /\ Cardinality(In("set")') = Cardinality(In("set"))
    BY Zenon, <1>3, <1>5, <1>7 DEF Waits
  <2>2. queue' = queue /\ fill_count' = fill_count /\ empty_count' = empty_count - 1 /\ empty_count > 0
    BY Zenon, <1>7 DEF Waits
  <2>3. fill_count + (empty_count - 1) + (Cardinality(In("push")) + 1) + Cardinality(In("set")) + Popping + HasPopped
            = max_threads
    BY <1>0, <1>2, <1>6 DEF Slots
  <2>4. Len(queue) = fill_count + Cardinality(In("set")) + Popping
    BY Zenon, <1>0, <1>2, <1>6 DEF Slots
  <2> QED
    BY Zenon, <1>2, <2>1, <2>2, <2>3, <2>4 DEF Slots
<1>8. CASE Puts(t)
  <2>1. Cardinality(In("push")') = Cardinality(In("push")) - 1 /\ Cardinality(In("set")') = Cardinality(In("set")) + 1
    BY Zenon, <1>3, <1>4, <1>8 DEF Puts
  <2>2. Len(queue') = Len(queue) + 1 /\ Len(queue) \in Nat /\ fill_count' = fill_count /\ empty_count' = empty_count
    <3>1. call[t] \in Item /\ queue \in Seq(Item)
      BY Zenon, HandlerSteps DEF UInv, ItemTypes
    <3> QED
      BY <1>0, <1>8, <3>1, Pushed DEF Puts
  <2>3. fill_count + empty_count + (Cardinality(In("push")) - 1) + (Cardinality(In("set")) + 1) + Popping + HasPopped
            = max_threads
    BY <1>0, <1>2, <1>6 DEF Slots
  <2>4. Len(queue) + 1 = fill_count + (Cardinality(In("set")) + 1) + Popping
    BY <1>0, <1>2, <1>6 DEF Slots
  <2> QED
    BY Zenon, <1>2, <2>1, <2>2, <2>3, <2>4 DEF Slots
<1>9. CASE Raises(t) \/ Returns(t)
  <2>1. Cardinality(In("push")') = Cardinality(In("push")) /\ Cardinality(In("set")') = Cardinality(In("set")) - 1
    BY Zenon, <1>4, <1>5, <1>9 DEF Raises, Returns
  <2>2. queue' = queue /\ fill_count' = fill_count + 1 /\ empty_count' = empty_count
    BY Zenon, <1>9 DEF Raises, Returns
  <2>3. (fill_count + 1) + empty_count + Cardinality(In("push")) + (Cardinality(In("set")) - 1) + Popping + HasPopped
            = max_threads
    BY <1>0, <1>2, <1>6 DEF Slots
  <2>4. Len(queue) = (fill_count + 1) + (Cardinality(In("set")) - 1) + Popping
    BY <1>0, <1>2, <1>6 DEF Slots
  <2> QED
    BY Zenon, <1>2, <2>1, <2>2, <2>3, <2>4 DEF Slots
<1>10. CASE Cancels(t) \/ Leaves(t)
  <2>1. Cardinality(In("push")') = Cardinality(In("push")) /\ Cardinality(In("set")') = Cardinality(In("set"))
    BY Zenon, <1>5, <1>10 DEF Cancels, Leaves
  <2>2. queue' = queue /\ fill_count' = fill_count /\ empty_count' = empty_count
    BY Zenon, <1>10 DEF Cancels, Leaves
  <2> QED
    BY Zenon, <1>0, <1>2, <1>6, <2>1, <2>2 DEF Slots
<1> QED
  BY Zenon, <1>1, <1>7, <1>8, <1>9, <1>10

LEMMA HandlerThreads ==
    ASSUME UInv, NEW t \in Thread, HandlerStep(t), NEW u \in Thread
    PROVE  ThreadOK(u)'
<1>0. ThreadOK(u) /\ ItemTypes
  BY Zenon DEF UInv
<1>1. /\ pc' = pc /\ input' = input /\ exception' = exception /\ started' = started /\ throws' = throws
      /\ call[t] # NoCall
      /\ \A v \in Thread \ {t} : call'[v] = call[v] /\ handler'[v] = handler[v]
      /\ Waits(t) \/ Puts(t) \/ Raises(t) \/ Returns(t) \/ Cancels(t) \/ Leaves(t)
  BY Zenon, HandlerSteps
<1>2. Thrown' = Thrown
  BY Zenon, <1>1 DEF Thrown
<1>3. CASE u # t
  <2>1. ~OthersDone(u)
    BY Zenon, <1>1, <1>3 DEF OthersDone
  <2> QED
    BY Zenon, <1>0, <1>1, <1>2, <1>3, <2>1 DEF ThreadOK
<1>4. CASE u = t
  <2>1. OthersDone(u)' <=> OthersDone(u)
    BY Zenon, <1>1, <1>4 DEF OthersDone
  <2>2. call[t] \in Exceptions => call[t] \in Thrown
    BY Zenon, <1>0, <1>1, Distinct DEF ItemTypes, Item, Exceptions
  <2>3. (call'[t] = call[t] /\ handler'[t] \in {"push", "set", "cancelled"} /\ handler[t] # "cancelled"
             /\ (handler'[t] = "cancelled" => handler[t] = "cancel"))
        \/ (call'[t] = call[t] /\ handler'[t] = "cancel" /\ call[t] \in Thrown)
        \/ (call'[t] = NoCall /\ handler'[t] = "out")
    BY Zenon, <1>1, <2>2 DEF Waits, Puts, Raises, Returns, Cancels, Leaves
  <2>4. NoCall # EmptyBlock
    BY Zenon, Distinct
  <2> QED
    BY Zenon, <1>0, <1>1, <1>2, <1>4, <2>1, <2>3, <2>4 DEF ThreadOK
<1> QED
  BY Zenon, <1>3, <1>4

\* After the end only its own call is left
LEMMA HandlerEnd ==
    ASSUME UInv, NEW t \in Thread, HandlerStep(t)
    PROVE  EndIsLast'
<1>0. EndIsLast /\ ThreadOK(t) /\ queue \in Seq(Item) /\ call[t] \in Item
  BY Zenon, HandlerSteps DEF UInv, ItemTypes
<1>1. /\ pc' = pc /\ main' = main /\ payload' = payload /\ all_read' = all_read
      /\ call[t] # NoCall
      /\ \A v \in Thread \ {t} : call'[v] = call[v] /\ handler'[v] = handler[v]
      /\ Waits(t) \/ Puts(t) \/ Raises(t) \/ Returns(t) \/ Cancels(t) \/ Leaves(t)
  BY Zenon, HandlerSteps
<1>2. Popped(EmptyBlock)' <=> Popped(EmptyBlock)
  BY Zenon, <1>1 DEF Popped
<1>3. CASE Ended
  <2>1. call[t] = EmptyBlock /\ handler[t] = "set"
    BY Zenon, <1>1, <1>3 DEF Ended
  <2>2. Returns(t)
    BY Zenon, <1>1, <2>1, Distinct DEF Waits, Puts, Raises, Cancels, Leaves, Exceptions
  <2>3. Ended' /\ queue' = queue
    BY Zenon, <1>1, <1>3, <2>2 DEF Ended, Returns
  <2> QED
    BY Zenon, <1>0, <1>1, <1>2, <2>3 DEF EndIsLast
<1>4. CASE ~Ended
  <2>1. (\A k \in DOMAIN queue : queue[k] # EmptyBlock) /\ ~Popped(EmptyBlock) /\ ~all_read
    BY Zenon, <1>0, <1>4 DEF EndIsLast
  <2>2. CASE ~Puts(t)
    <3>1. queue' = queue
      BY Zenon, <1>1, <2>2 DEF Waits, Raises, Returns, Cancels, Leaves
    <3> QED
      BY Zenon, <3>1, <2>1, <1>1, <1>2 DEF EndIsLast
  <2>3. CASE Puts(t)
    <3>1. queue' = Append(queue, call[t]) /\ call'[t] = call[t] /\ handler'[t] = "set"
      BY Zenon, <2>3 DEF Puts
    <3>2. /\ Len(queue') = Len(queue) + 1
          /\ \A k \in DOMAIN queue' : k # Len(queue) + 1 => k \in DOMAIN queue /\ queue'[k] = queue[k]
          /\ queue'[Len(queue) + 1] = call[t]
      BY <1>0, <3>1, Pushed
    <3>3. ASSUME NEW k \in DOMAIN queue', queue'[k] = EmptyBlock
          PROVE  k = Len(queue') /\ Ended'
      <4>0. k = Len(queue) + 1
        BY Zenon, <2>1, <3>2, <3>3, Zenon
      <4>1. k = Len(queue) + 1 /\ call[t] = EmptyBlock
        BY Zenon, <4>0, <3>2, <3>3
      <4>2. pc[t] = "done" /\ OthersDone(t)
        BY Zenon, <1>0, <4>1 DEF ThreadOK
      <4> QED
        BY Zenon, <1>1, <3>1, <3>2, <4>1, <4>2 DEF OthersDone, Ended
    <3> QED
      BY Zenon, <3>3, <2>1, <1>1, <1>2 DEF EndIsLast
  <2> QED
    BY Zenon, <2>2, <2>3
<1> QED
  BY Zenon, <1>3, <1>4

\* An item goes from the call into the queue
LEMMA HandlerItems ==
    ASSUME UInv, NEW t \in Thread, HandlerStep(t), NEW x, x # NoCall
    PROVE  /\ \A u \in Thread \ {t} : Carried(u, x)' <=> Carried(u, x)
           /\ Popped(x)' <=> Popped(x)
           /\ \/ (Carried(t, x)' <=> Carried(t, x)) /\ (Among(queue, x)' <=> Among(queue, x)) /\ (queue' = queue \/ x # call[t])
              \/ Carried(t, x) /\ ~Carried(t, x)' /\ Among(queue, x)' /\ x = call[t]
           /\ OnTheWay(x)' <=> OnTheWay(x)
<1>1. /\ main' = main /\ payload' = payload
      /\ \A v \in Thread \ {t} : call'[v] = call[v] /\ handler'[v] = handler[v]
      /\ Waits(t) \/ Puts(t) \/ Raises(t) \/ Returns(t) \/ Cancels(t) \/ Leaves(t)
  BY Zenon, HandlerSteps
<1>2. (\A u \in Thread \ {t} : Carried(u, x)' <=> Carried(u, x)) /\ (Popped(x)' <=> Popped(x))
  BY Zenon, <1>1 DEF Carried, Popped
<1>3. \/ (Carried(t, x)' <=> Carried(t, x)) /\ (Among(queue, x)' <=> Among(queue, x)) /\ (queue' = queue \/ x # call[t])
      \/ Carried(t, x) /\ ~Carried(t, x)' /\ Among(queue, x)' /\ x = call[t]
  <2>1. CASE Puts(t)
    <3>1. Among(queue, x)' <=> Among(queue, x) \/ x = call[t]
      <4>1. queue \in Seq(Item) /\ call[t] \in Item /\ queue' = Append(queue, call[t])
        BY Zenon, <2>1, HandlerSteps DEF UInv, ItemTypes, Puts
      <4>2. Among(Append(queue, call[t]), x) <=> Among(queue, x) \/ x = call[t]
        BY <4>1, Pushed
      <4> QED
        BY Zenon, <4>1, <4>2 DEF Among
    <3> QED
      BY Zenon, <2>1, <3>1 DEF Puts, Carried
  <2>2. CASE ~Puts(t)
    <3>1. queue' = queue
      BY Zenon, <1>1, <2>2 DEF Waits, Raises, Returns, Cancels, Leaves
    <3>2. Carried(t, x)' <=> Carried(t, x)
      BY Zenon, <1>1, <2>2 DEF Waits, Raises, Returns, Cancels, Leaves, Carried
    <3> QED
      BY Zenon, <3>1, <3>2 DEF Among
  <2> QED
    BY Zenon, <2>1, <2>2
<1> QED
  BY Zenon, <1>2, <1>3 DEF OnTheWay

LEMMA HandlerCancel ==
    ASSUME UInv, NEW t \in Thread, HandlerStep(t)
    PROVE  CancelOK' /\ (Healthy' => Healthy)
<1>0. CancelOK /\ canceller \in {Nobody, QueryThread, Other} \cup Thread
  BY Zenon DEF UInv, StreamTypes
<1>1. /\ finish' = finish /\ main' = main /\ all_read' = all_read /\ raised' = raised /\ throws' = throws
      /\ destroying' = destroying /\ delivered' = delivered
      /\ Waits(t) \/ Puts(t) \/ Raises(t) \/ Returns(t) \/ Cancels(t) \/ Leaves(t)
  BY Zenon, HandlerSteps
<1>2. canceller' = canceller \/ (canceller = Nobody /\ canceller' = t)
  BY Zenon, <1>1 DEF Waits, Puts, Raises, Returns, Cancels, Leaves, is_cancelled
<1>3. t # Nobody /\ t # QueryThread
  BY Constants DEF Nobody, QueryThread
<1>4. (Healthy' => Healthy /\ canceller' = canceller) /\ (canceller' = QueryThread => canceller = QueryThread)
  BY Zenon, <1>1, <1>2, <1>3 DEF Healthy
<1> QED
  BY Zenon, <1>0, <1>1, <1>2, <1>3, <1>4 DEF CancelOK

LEMMA HandlerExceptions ==
    ASSUME UInv, NEW t \in Thread, HandlerStep(t)
    PROVE  ExceptionKept'
<1>1. throws' = throws /\ pc' = pc /\ exception' = exception /\ raised' = raised
  BY Zenon, HandlerSteps
<1>2. \A e : OnTheWay(Raise(e))' <=> OnTheWay(Raise(e))
  BY Zenon, HandlerItems, Distinct
<1> QED
  BY Zenon, <1>1, <1>2 DEF UInv, ExceptionKept

LEMMA HandlerBlocks ==
    ASSUME UInv, NEW t \in Thread, HandlerStep(t), NEW b \in AllBlocks
    PROVE  BlockOK(b)'
<1>0. BlockOK(b) /\ queue \in Seq(Item) /\ call[t] \in Item
  BY Zenon, HandlerSteps DEF UInv, ItemTypes
<1>1. /\ left' = left /\ delivered' = delivered /\ (Healthy' => Healthy)
      /\ Waits(t) \/ Puts(t) \/ Raises(t) \/ Returns(t) \/ Cancels(t) \/ Leaves(t)
  BY Zenon, HandlerSteps, HandlerCancel
<1>2. Taken(b)' <=> Taken(b)
  BY Zenon, <1>1 DEF Taken
<1>3. /\ \A u \in Thread \ {t} : Carried(u, b)' <=> Carried(u, b)
      /\ Popped(b)' <=> Popped(b)
      /\ \/ (Carried(t, b)' <=> Carried(t, b)) /\ (Among(queue, b)' <=> Among(queue, b)) /\ (queue' = queue \/ b # call[t])
         \/ Carried(t, b) /\ ~Carried(t, b)' /\ Among(queue, b)' /\ b = call[t]
      /\ OnTheWay(b)' <=> OnTheWay(b)
  BY Zenon, HandlerItems, Distinct
<1>4. \A u \in Thread : Carried(u, b)' => Carried(u, b)
  BY Zenon, <1>3
<1>5. \A u, v \in Thread : Carried(u, b)' /\ Carried(v, b)' => u = v
  BY Zenon, <1>0, <1>4 DEF BlockOK
<1>6. ASSUME NEW j \in DOMAIN queue', NEW k \in DOMAIN queue', queue'[j] = b, queue'[k] = b
      PROVE  j = k
  <2>1. CASE queue' = queue
    BY Zenon, <1>0, <1>6, <2>1 DEF BlockOK
  <2>2. CASE queue' # queue
    <3>1. queue' = Append(queue, call[t])
      BY Zenon, <1>1, <2>2 DEF Waits, Puts, Raises, Returns, Cancels, Leaves
    <3>2. /\ queue'[Len(queue) + 1] = call[t]
          /\ \A i \in DOMAIN queue' : i # Len(queue) + 1 => i \in DOMAIN queue /\ queue'[i] = queue[i]
      BY <1>0, <3>1, Pushed
    <3>3. CASE b = call[t]
      <4>1. ~Among(queue, b)
        BY Zenon, <1>0, <1>3, <2>2, <3>3 DEF BlockOK
      <4>2. \A i \in DOMAIN queue' : queue'[i] = b => i = Len(queue) + 1
        BY Zenon, <3>2, <4>1 DEF Among
      <4> QED
        BY Zenon, <1>6, <4>2
    <3>4. CASE b # call[t]
      BY Zenon, <1>0, <1>6, <3>2, <3>4 DEF BlockOK
    <3> QED
      BY Zenon, <3>3, <3>4
  <2> QED
    BY Zenon, <2>1, <2>2
<1>7. (\E u \in Thread : Carried(u, b)') => ~Among(queue, b)' /\ ~Popped(b)'
  BY Zenon, <1>0, <1>3, <1>4, <1>5 DEF BlockOK
<1>8. Among(queue, b)' => ~Popped(b)'
  BY Zenon, <1>0, <1>3 DEF BlockOK
<1> QED
  BY Zenon, <1>0, <1>1, <1>2, <1>3, <1>5, <1>6, <1>7, <1>8 DEF BlockOK

LEMMA HandlerStepKeeps ==
    ASSUME UInv, NEW t \in Thread, HandlerStep(t)
    PROVE  UInv'
BY Zenon, HandlerTypes, HandlerSlots, HandlerThreads, HandlerEnd, HandlerCancel, HandlerExceptions, HandlerBlocks DEF UInv

-----------------------------------------------------------------------------
\* Steps that neither push nor pop

ControlStep == ProcessorCancel \/ CancelQuery \/ ReadImpl \/ ReadSuffix \/ Destroy \/ Finalize

LEMMA ControlSteps ==
    ASSUME UInv, ControlStep
    PROVE  /\ UNCHANGED <<unprepared_inputs, available_inputs, left, input, exception, call, throws,
                          queue, fill_count, empty_count, handler, payload, raised, all_read, delivered>>
           /\ main' = main \/ {main, main'} \subseteq {"idle", "read", "failed", "finalize", "finalized", "drain", "destroyed"}
           /\ \/ UNCHANGED <<pc, active_threads, started>>
              \/ ~started /\ started' /\ pc' = [t \in Thread |-> "prepare"] /\ active_threads' = max_threads
           /\ all_read => main' = main \/ main' \in {"finalize", "finalized", "destroyed"}
<1> USE DEF processor, queues, reader
<1>1. CASE ProcessorCancel
  BY Zenon, <1>1 DEF ProcessorCancel, cancel
<1>2. CASE CancelQuery
  BY Zenon, <1>2 DEF CancelQuery
<1>3. CASE ReadImpl
  <2>1. started \in BOOLEAN
    BY Zenon DEF UInv, StreamTypes
  <2> QED
    BY Zenon, <1>3, <2>1 DEF ReadImpl, process
<1>4. CASE ReadSuffix
  BY Zenon, <1>4 DEF ReadSuffix
<1>5. CASE Destroy
  BY Zenon, <1>5 DEF Destroy
<1>6. CASE Finalize
  <2>1. main' \in {"drain", "finalized", "destroyed"} /\ main = "finalize" /\ (all_read => main' # "drain")
    BY Zenon, <1>6 DEF Finalize
  <2> QED
    BY Zenon, <1>6, <2>1 DEF Finalize
<1> QED
  BY Zenon, <1>1, <1>2, <1>3, <1>4, <1>5, <1>6 DEF ControlStep

LEMMA ControlItems ==
    ASSUME UInv, ControlStep, NEW x
    PROVE  /\ OnTheWay(x)' <=> OnTheWay(x)
           /\ Popped(x)' <=> Popped(x)
           /\ \A t \in Thread : Carried(t, x)' <=> Carried(t, x)
<1>1. call' = call /\ handler' = handler /\ queue' = queue /\ payload' = payload
      /\ (main' = main \/ {main, main'} \subseteq {"idle", "read", "failed", "finalize", "finalized", "drain", "destroyed"})
  BY Zenon, ControlSteps
<1>2. (Popped(x)' <=> Popped(x)) /\ (Among(queue, x)' <=> Among(queue, x))
  BY Zenon, <1>1 DEF Popped, Among
<1>3. \A t \in Thread : Carried(t, x)' <=> Carried(t, x)
  BY Zenon, <1>1 DEF Carried
<1> QED
  BY Zenon, <1>2, <1>3 DEF OnTheWay

\* Who cancels, and when
LEMMA ControlCancel ==
    ASSUME UInv, ControlStep
    PROVE  CancelOK' /\ (Healthy' => Healthy) /\ canceller' \in {Nobody, QueryThread, Other} \cup Thread
           /\ finish' \in BOOLEAN /\ destroying' \in BOOLEAN /\ (finish => finish')
<1> USE DEF processor, queues, reader
<1>0. CancelOK /\ canceller \in {Nobody, QueryThread, Other} \cup Thread /\ finish \in BOOLEAN /\ destroying \in BOOLEAN
  BY Zenon DEF UInv, StreamTypes, ThreadTypes
<1>o. Other # Nobody /\ Other # QueryThread /\ Nobody # QueryThread
  BY Constants DEF Other, Nobody, QueryThread
<1>c. all_read' = all_read /\ raised' = raised /\ throws' = throws /\ delivered' = delivered
  BY Zenon, ControlSteps
<1>1. CASE ProcessorCancel
  <2>1. finish' = TRUE /\ canceller # Nobody /\ UNCHANGED <<canceller, main, destroying>>
    BY Zenon, <1>1 DEF ProcessorCancel, cancel, is_cancelled
  <2>2. Healthy' <=> Healthy
    BY Zenon, <2>1 DEF Healthy
  <2> QED
    BY Zenon, <1>0, <1>c, <2>1, <2>2 DEF CancelOK
<1>2. CASE CancelQuery
  <2>1. canceller' = Other /\ UNCHANGED <<finish, main, destroying>>
    BY Zenon, <1>2 DEF CancelQuery, Cancel, is_cancelled
  <2>2. ~Healthy'
    BY Zenon, <1>o, <2>1 DEF Healthy
  <2> QED
    BY Zenon, <1>0, <1>c, <1>o, <2>1, <2>2 DEF CancelOK
<1>3. CASE ReadImpl
  <2>1. main = "idle" /\ main' = "read" /\ UNCHANGED <<finish, canceller, destroying>>
    BY Zenon, <1>3 DEF ReadImpl, process
  <2>2. Healthy' <=> Healthy
    BY Zenon, <2>1 DEF Healthy
  <2> QED
    BY Zenon, <1>0, <1>c, <2>1, <2>2 DEF CancelOK, Draining
<1>4. CASE ReadSuffix
  <2>1. main = "idle" /\ main' = "finalize" /\ UNCHANGED <<finish, canceller, destroying>>
        /\ (all_read \/ canceller # Nobody)
    BY Zenon, <1>4 DEF ReadSuffix, is_cancelled
  <2>2. Healthy' <=> Healthy
    BY Zenon, <2>1 DEF Healthy
  <2>3. all_read \/ ~Healthy
    BY Zenon, <1>0, <2>1 DEF CancelOK, Healthy
  <2> QED
    BY Zenon, <1>0, <1>c, <2>1, <2>2, <2>3 DEF CancelOK, Draining
<1>5. CASE Destroy
  <2>1. main' = "finalize" /\ destroying' = TRUE /\ UNCHANGED finish
        /\ canceller' \in {canceller, QueryThread}
    BY Zenon, <1>5 DEF Destroy, Cancel
  <2>2. ~Healthy'
    BY Zenon, <2>1 DEF Healthy
  <2> QED
    BY Zenon, <1>0, <1>c, <1>o, <2>1, <2>2 DEF CancelOK
<1>6. CASE Finalize
  <2>1. main = "finalize" /\ UNCHANGED <<finish, canceller, destroying>>
        /\ (main' = "drain" => ~all_read) /\ main' \in {"drain", "finalized", "destroyed"}
    BY Zenon, <1>6 DEF Finalize
  <2>2. Healthy' <=> Healthy
    BY Zenon, <2>1 DEF Healthy
  <2> QED
    BY Zenon, <1>0, <1>c, <2>1, <2>2 DEF CancelOK, Draining
<1> QED
  BY Zenon, <1>1, <1>2, <1>3, <1>4, <1>5, <1>6 DEF ControlStep

LEMMA ControlThreads ==
    ASSUME UInv, ControlStep
    PROVE  /\ ThreadTypes' /\ active_threads' = Cardinality(Busy')
           /\ \A t \in Thread : ThreadOK(t)'
           /\ SourcesOK' /\ ExceptionKept' /\ EndIsLast'
<1>0. /\ ThreadTypes /\ active_threads = Cardinality(Busy) /\ \A t \in Thread : ThreadOK(t)
      /\ SourcesOK /\ ExceptionKept /\ EndIsLast /\ throws \in Nat
  BY Zenon DEF UInv, ThreadTypes
<1>1. UNCHANGED <<unprepared_inputs, available_inputs, left, input, exception, call, throws, queue, handler, payload,
                  raised, all_read>>
  BY Zenon, ControlSteps
<1>2. finish' \in BOOLEAN /\ (finish => finish')
  BY Zenon, ControlCancel
<1>3. Thrown' = Thrown /\ \A s : Among(unprepared_inputs, s)' <=> Among(unprepared_inputs, s)
  BY Zenon, <1>1 DEF Thrown, Among
<1>i. \A x : (OnTheWay(x)' <=> OnTheWay(x)) /\ (Popped(x)' <=> Popped(x))
  BY Zenon, ControlItems
<1>m. all_read => main' \in {"idle", "finalize", "finalized", "destroyed"}
  BY Zenon, <1>0, ControlSteps DEF EndIsLast
<1>4. CASE UNCHANGED <<pc, active_threads, started>>
  <2>1. ThreadTypes' /\ active_threads' = Cardinality(Busy')
    BY Zenon, <1>0, <1>1, <1>2, <1>4 DEF ThreadTypes, Busy
  <2>2. \A t \in Thread : ThreadOK(t)'
    BY Zenon, <1>0, <1>1, <1>3, <1>4 DEF ThreadOK, OthersDone
  <2>3. SourcesOK'
    BY Zenon, <1>0, <1>1, <1>2, <1>4 DEF SourcesOK, Held, Among
  <2>4. ExceptionKept'
    BY Zenon, <1>0, <1>1, <1>4, <1>i DEF ExceptionKept
  <2>5. Ended' <=> Ended
    BY Zenon, <1>1, <1>4 DEF Ended
  <2>6. EndIsLast'
    BY Zenon, <1>0, <1>1, <1>i, <1>m, <2>5 DEF EndIsLast
  <2> QED
    BY Zenon, <2>1, <2>2, <2>3, <2>4, <2>6
<1>5. CASE ~started /\ started' /\ pc' = [t \in Thread |-> "prepare"] /\ active_threads' = max_threads
  <2>0. 1 \in Thread /\ max_threads \in Nat /\ Cardinality(Thread) = max_threads
    BY Constants DEF UInv, Counting
  <2>1. \A t \in Thread : pc[t] = "not started" /\ pc'[t] = "prepare"
    BY Zenon, <1>0, <1>5 DEF ThreadOK
  <2>2. ThreadTypes'
    BY Zenon, <1>0, <1>1, <1>2, <1>5, <2>0 DEF ThreadTypes, Active
  <2>3. Busy' = Thread
    BY Zenon, <2>1 DEF Busy, Active
  <2>4. ASSUME NEW t \in Thread
        PROVE  ThreadOK(t)'
    <3>1. ThreadOK(t) /\ pc[t] = "not started" /\ pc'[t] = "prepare"
      BY Zenon, <1>0, <2>1
    <3> QED
      BY Zenon, <1>1, <1>3, <1>5, <3>1 DEF ThreadOK
  <2>5. \A s : Held(s) => Held(s)'
    BY Zenon, <1>1, <2>1 DEF Held, Among
  <2>6. SourcesOK'
    BY Zenon, <1>0, <1>1, <1>2, <2>0, <2>1, <2>5 DEF SourcesOK
  <2>7. ExceptionKept'
    BY Zenon, <1>0, <1>1, <1>i, <2>1 DEF ExceptionKept
  <2>8. ~Ended
    BY Zenon, <2>0, <2>1 DEF Ended
  <2>9. EndIsLast'
    BY Zenon, <1>0, <1>1, <1>i, <1>m, <2>8 DEF EndIsLast
  <2> QED
    BY Zenon, <1>5, <2>0, <2>2, <2>3, <2>4, <2>6, <2>7, <2>9
<1> QED
  BY Zenon, <1>4, <1>5, ControlSteps

LEMMA ControlStepKeeps ==
    ASSUME UInv, ControlStep
    PROVE  UInv'
<1>0. ItemTypes /\ StreamTypes /\ Slots /\ \A b \in AllBlocks : BlockOK(b)
  BY Zenon DEF UInv
<1>1. /\ UNCHANGED <<left, call, throws, queue, fill_count, empty_count, handler, payload, raised, all_read, delivered>>
      /\ main' = main \/ {main, main'} \subseteq {"idle", "read", "failed", "finalize", "finalized", "drain", "destroyed"}
      /\ started' \in BOOLEAN
  BY Zenon, <1>0, ControlSteps DEF StreamTypes
<1>2. ItemTypes'
  BY Zenon, <1>0, <1>1 DEF ItemTypes, Item, Thrown
<1>3. StreamTypes'
  BY Zenon, <1>0, <1>1, ControlCancel DEF StreamTypes, Reading, Draining
<1>4. Slots'
  <2>1. Popping' = Popping /\ HasPopped' = HasPopped
    BY Zenon, <1>1 DEF Popping, HasPopped
  <2>2. In("push")' = In("push") /\ In("set")' = In("set")
    BY Zenon, <1>1 DEF In
  <2> QED
    BY Zenon, <1>0, <1>1, <2>1, <2>2 DEF Slots
<1>5. ASSUME NEW b \in AllBlocks
      PROVE  BlockOK(b)'
  <2>1. (OnTheWay(b)' <=> OnTheWay(b)) /\ (Popped(b)' <=> Popped(b)) /\ (\A t \in Thread : Carried(t, b)' <=> Carried(t, b))
    BY Zenon, ControlItems
  <2>2. (Taken(b)' <=> Taken(b)) /\ (Healthy' => Healthy) /\ (Among(queue, b)' <=> Among(queue, b))
    BY Zenon, <1>1, ControlCancel DEF Taken, Among
  <2>3. BlockOK(b)
    BY Zenon, <1>0
  <2> QED
    BY Zenon, <1>1, <2>1, <2>2, <2>3 DEF BlockOK
<1> QED
  BY Zenon, <1>2, <1>3, <1>4, <1>5, ControlThreads, ControlCancel DEF UInv

-----------------------------------------------------------------------------
\* Steps of the query thread in pop

\* Nothing of the threads moves in them
Alone == UNCHANGED <<unprepared_inputs, available_inputs, left, pc, input, exception, call, active_threads, finish,
                     throws, handler, started>>

LEMMA AloneKeeps ==
    ASSUME UInv, Alone
    PROVE  /\ ThreadTypes' /\ active_threads' = Cardinality(Busy')
           /\ \A t \in Thread : ThreadOK(t)'
           /\ SourcesOK' /\ (Ended' <=> Ended) /\ Item' = Item /\ Thrown' = Thrown
           /\ In("push")' = In("push") /\ In("set")' = In("set")
           /\ \A x : \A t \in Thread : Carried(t, x)' <=> Carried(t, x)
           /\ \A b : Taken(b)' <=> Taken(b)
<1> USE DEF Alone
<1>1. ThreadTypes' /\ active_threads' = Cardinality(Busy')
  BY Zenon DEF UInv, ThreadTypes, Busy
<1>2. Item' = Item /\ Thrown' = Thrown
  BY Zenon DEF Item, Thrown
<1>3. \A t \in Thread : ThreadOK(t)'
  BY Zenon, <1>2 DEF UInv, ThreadOK, OthersDone
<1>4. SourcesOK'
  BY Zenon DEF UInv, SourcesOK, Held, Among
<1>5. (Ended' <=> Ended) /\ In("push")' = In("push") /\ In("set")' = In("set")
  BY Zenon DEF Ended, In
<1> QED
  BY Zenon, <1>1, <1>2, <1>3, <1>4, <1>5 DEF Carried, Taken

\* The first step of pop
PopsWait == /\ main \in {"read", "drain"} /\ main' = IF main = "read" THEN "read pop" ELSE "drain pop"
            /\ fill_count > 0 /\ fill_count' = fill_count - 1
            /\ UNCHANGED <<queue, empty_count, canceller, payload, all_read, raised, destroying, delivered>>

LEMMA PopsWaitKeeps ==
    ASSUME UInv, Alone, PopsWait
    PROVE  UInv'
<1>0. ItemTypes /\ StreamTypes /\ Slots /\ EndIsLast /\ ExceptionKept /\ CancelOK /\ \A b \in AllBlocks : BlockOK(b)
  BY Zenon DEF UInv
<1>1. ItemTypes'
  BY Zenon, <1>0, AloneKeeps DEF ItemTypes, Alone, PopsWait
<1>2. StreamTypes'
  <2>1. fill_count' \in Nat /\ empty_count' \in Nat
    <3>1. fill_count \in Nat /\ empty_count \in Nat
      BY Zenon, <1>0 DEF StreamTypes
    <3>2. fill_count > 0 /\ fill_count' = fill_count - 1 /\ empty_count' = empty_count
      BY Zenon DEF PopsWait
    <3> QED
      BY <3>1, <3>2
  <2>2. main' \in Reading \cup Draining
    BY Zenon DEF Reading, Draining, PopsWait
  <2> QED
    BY Zenon, <1>0, <2>1, <2>2 DEF StreamTypes, Alone, PopsWait
<1>3. Slots'
  <2>1. Popping = 0 /\ Popping' = 1 /\ HasPopped = 0 /\ HasPopped' = 0
    BY Zenon DEF Popping, HasPopped, PopsWait
  <2>2. fill_count \in Nat /\ empty_count \in Nat /\ max_threads \in Nat
        /\ Cardinality(In("push")) \in Nat /\ Cardinality(In("set")) \in Nat
    BY Zenon, <1>0, Constants, InCounts DEF StreamTypes
  <2>3. (fill_count - 1) + empty_count + Cardinality(In("push")) + Cardinality(In("set")) + 1 + 0 = max_threads
    BY <1>0, <2>1, <2>2 DEF Slots
  <2>4. Len(queue) = (fill_count - 1) + Cardinality(In("set")) + 1
    BY <1>0, <2>1, <2>2 DEF Slots
  <2> QED
    BY Zenon, <2>1, <2>3, <2>4, AloneKeeps DEF Slots, PopsWait
<1>4. \A x : ~Popped(x) /\ ~Popped(x)'
  BY Zenon DEF Popped, PopsWait
<1>5. \A x : (Among(queue, x)' <=> Among(queue, x)) /\ (OnTheWay(x)' <=> OnTheWay(x))
  BY Zenon, <1>4, AloneKeeps DEF Among, OnTheWay, PopsWait
<1>6. EndIsLast'
  BY Zenon, <1>0, <1>4, AloneKeeps DEF EndIsLast, PopsWait
<1>7. ExceptionKept'
  BY Zenon, <1>0, <1>5 DEF ExceptionKept, Alone, PopsWait
<1>8. Healthy' <=> Healthy
  BY Zenon DEF Healthy, PopsWait
<1>9. CancelOK'
  BY Zenon, <1>0, <1>8 DEF CancelOK, Alone, Draining, PopsWait
<1>10. ASSUME NEW b \in AllBlocks
       PROVE  BlockOK(b)'
  <2>1. BlockOK(b)
    BY Zenon, <1>0
  <2> QED
    BY Zenon, <2>1, <1>4, <1>5, <1>8, AloneKeeps DEF BlockOK, PopsWait
<1> QED
  BY Zenon, <1>1, <1>2, <1>3, <1>6, <1>7, <1>9, <1>10, AloneKeeps DEF UInv

\* The second step: the item leaves the queue
PopsItem == /\ main \in {"read pop", "drain pop"} /\ main' = IF main = "read pop" THEN "read set" ELSE "drain set"
            /\ queue' = Tail(queue) /\ payload' = Head(queue)
            /\ UNCHANGED <<fill_count, empty_count, canceller, all_read, raised, destroying, delivered>>

LEMMA PopsItemKeeps ==
    ASSUME UInv, Alone, PopsItem
    PROVE  UInv'
<1>0. ItemTypes /\ StreamTypes /\ Slots /\ EndIsLast /\ ExceptionKept /\ CancelOK /\ \A b \in AllBlocks : BlockOK(b)
  BY Zenon DEF UInv
<1>n. Popping = 1 /\ Popping' = 0 /\ HasPopped = 0 /\ HasPopped' = 1
  BY Zenon DEF Popping, HasPopped, PopsItem
<1>c. fill_count \in Nat /\ empty_count \in Nat /\ max_threads \in Nat
      /\ Cardinality(In("push")) \in Nat /\ Cardinality(In("set")) \in Nat
  BY Zenon, <1>0, Constants, InCounts DEF StreamTypes
<1>1. queue \in Seq(Item) /\ Len(queue) > 0
  BY <1>0, <1>c, <1>n DEF Slots, ItemTypes
<1>2. /\ queue' \in Seq(Item) /\ Len(queue') = Len(queue) - 1 /\ payload' \in Item
      /\ payload' = queue[1] /\ 1 \in DOMAIN queue
      /\ \A y : Among(queue, y) <=> Among(queue', y) \/ y = payload'
      /\ \A k \in DOMAIN queue' : k + 1 \in DOMAIN queue /\ queue'[k] = queue[k + 1]
  BY <1>1, PoppedOff DEF PopsItem
<1>e. queue' \in Seq(Item) /\ Len(queue') = Len(queue) - 1
  BY Zenon, <1>2
<1>3. ItemTypes'
  BY Zenon, <1>0, <1>2, AloneKeeps DEF ItemTypes, Alone, PopsItem
<1>4. StreamTypes'
  BY Zenon, <1>0 DEF StreamTypes, Alone, PopsItem, Reading, Draining
<1>5. Slots'
  <2>1. fill_count' = fill_count /\ empty_count' = empty_count
    BY Zenon DEF PopsItem
  <2>2. fill_count + empty_count + Cardinality(In("push")) + Cardinality(In("set")) + 0 + 1 = max_threads
        /\ Len(queue) - 1 = fill_count + Cardinality(In("set")) + 0
    BY <1>0, <1>c, <1>n DEF Slots
  <2> QED
    BY Zenon, <1>2, <1>n, <2>1, <2>2, AloneKeeps DEF Slots
<1>6. \A x : ~Popped(x) /\ (Popped(x)' <=> x = payload')
  BY Zenon DEF Popped, PopsItem
<1>7. \A x : Among(queue, x)' <=> Among(queue', x)
  BY Zenon DEF Among
<1>8. \A x : OnTheWay(x)' <=> OnTheWay(x)
  BY Zenon, <1>2, <1>6, <1>7, AloneKeeps DEF OnTheWay
<1>9. EndIsLast'
  <2>1. ASSUME NEW k \in DOMAIN queue', queue'[k] = EmptyBlock
        PROVE  k = Len(queue') /\ Ended'
    <3>1. k + 1 \in DOMAIN queue /\ queue[k + 1] = EmptyBlock
      BY Zenon, <1>2, <2>1
    <3>2. k + 1 = Len(queue) /\ Ended
      BY Zenon, <1>0, <3>1 DEF EndIsLast
    <3>3. k \in Nat /\ Len(queue) \in Nat
      BY <1>1, <1>2
    <3> QED
      BY <1>2, <3>2, <3>3, AloneKeeps
  <2>2. ASSUME Popped(EmptyBlock)'
        PROVE  Ended' /\ queue' = <<>>
    <3>1. queue[1] = EmptyBlock
      BY Zenon, <1>2, <1>6, <2>2
    <3>2. 1 = Len(queue) /\ Ended
      BY Zenon, <1>0, <1>2, <3>1 DEF EndIsLast
    <3>3. queue' = <<>>
      <4>0. Len(queue) = 1
        BY Zenon, <3>2
      <4>1. queue' \in Seq(Item) /\ Len(queue') = 0
        BY <1>e, <4>0
      <4> QED
        BY <4>1
    <3> QED
      BY Zenon, <3>2, <3>3, AloneKeeps
  <2>3. ~all_read'
    BY Zenon, <1>0 DEF EndIsLast, PopsItem
  <2> QED
    BY Zenon, <2>1, <2>2, <2>3 DEF EndIsLast
<1>10. ExceptionKept'
  BY Zenon, <1>0, <1>8 DEF ExceptionKept, Alone, PopsItem
<1>11. Healthy' <=> Healthy
  BY Zenon DEF Healthy, PopsItem
<1>12. CancelOK'
  BY Zenon, <1>0, <1>11 DEF CancelOK, Alone, Draining, PopsItem
<1>13. ASSUME NEW b \in AllBlocks
       PROVE  BlockOK(b)'
  <2>0. BlockOK(b) /\ delivered' = delivered
    BY Zenon, <1>0 DEF PopsItem
  <2>1. ASSUME NEW j \in DOMAIN queue', NEW k \in DOMAIN queue', queue'[j] = b, queue'[k] = b
        PROVE  j = k
    <3>1. j + 1 \in DOMAIN queue /\ k + 1 \in DOMAIN queue /\ queue[j + 1] = b /\ queue[k + 1] = b
      BY Zenon, <1>2, <2>1
    <3>2. j + 1 = k + 1
      BY Zenon, <2>0, <3>1 DEF BlockOK
    <3>3. j \in Nat /\ k \in Nat
      BY <1>2
    <3> QED
      BY <3>2, <3>3
  <2>2. ASSUME Among(queue', b)
        PROVE  b # payload'
    <3>1. PICK k \in DOMAIN queue' : queue'[k] = b
      BY Zenon, <2>2 DEF Among
    <3>2. k + 1 \in DOMAIN queue /\ queue[k + 1] = b /\ k \in Nat /\ k > 0
      BY <1>2, <3>1
    <3>3. k + 1 # 1
      BY <3>2
    <3> QED
      BY Zenon, <2>0, <3>2, <3>3, <1>2 DEF BlockOK
  <2>3. (\E t \in Thread : Carried(t, b)') => ~Among(queue', b) /\ b # payload'
    BY Zenon, <2>0, <1>2, AloneKeeps DEF BlockOK
  <2>4. Among(queue, b)' => ~Popped(b)'
    BY Zenon, <2>2, <1>6
  <2>5. (Taken(b)' <=> Taken(b)) /\ \A t \in Thread : Carried(t, b)' <=> Carried(t, b)
    BY Zenon, AloneKeeps
  <2>6. (OnTheWay(b)' <=> OnTheWay(b)) /\ (Among(queue, b)' <=> Among(queue', b)) /\ (Popped(b)' <=> b = payload')
    BY Zenon, <1>6, <1>7, <1>8
  <2>7. \A t, u \in Thread : Carried(t, b)' /\ Carried(u, b)' => t = u
    BY Zenon, <2>0, <2>5 DEF BlockOK
  <2>8. (\E t \in Thread : Carried(t, b)') => ~Among(queue, b)' /\ ~Popped(b)'
    BY Zenon, <2>3, <2>6
  <2>9. /\ OnTheWay(b)' => Taken(b)' /\ delivered'[b] = 0
        /\ delivered'[b] = 1 => Taken(b)'
        /\ Taken(b)' /\ Healthy' => OnTheWay(b)' \/ delivered'[b] = 1
    BY Zenon, <2>0, <2>5, <2>6, <1>11 DEF BlockOK
  <2> QED
    BY Zenon, <2>1, <2>4, <2>7, <2>8, <2>9 DEF BlockOK
<1> QED
  BY Zenon, <1>3, <1>4, <1>5, <1>9, <1>10, <1>12, <1>13, AloneKeeps DEF UInv

\* The last step, with what the query thread does with the item
PopsSet == /\ main \in {"read set", "drain set"}
           /\ empty_count' = empty_count + 1 /\ payload' = EmptyBlock /\ all_read' = (payload = EmptyBlock)
           /\ raised' = IF payload \in Exceptions THEN raised \cup {payload} ELSE raised
           /\ main' \in {"idle", "finalize"} \/ (main' \in {"failed", "drain"} /\ payload # EmptyBlock)
           /\ UNCHANGED <<queue, fill_count, destroying>>

\* When the end comes to a stream that nobody cancelled, all has been read
LEMMA EndIsComplete ==
    ASSUME UInv, Popped(EmptyBlock), Healthy
    PROVE  throws = 0 /\ \A b \in AllBlocks : delivered[b] = 1
<1>0. /\ EndIsLast /\ ExceptionKept /\ SourcesOK /\ CancelOK /\ ThreadTypes
      /\ \A b \in AllBlocks : BlockOK(b) /\ delivered[b] \in {0, 1}
  BY Zenon DEF UInv, StreamTypes
<1>1. Ended /\ queue = <<>> /\ ~all_read /\ payload = EmptyBlock /\ main \in {"read set", "drain set"}
  BY Zenon, <1>0 DEF EndIsLast, Popped
<1>2. canceller = Nobody /\ ~finish /\ raised = {}
  BY Zenon, <1>0, <1>1 DEF CancelOK, Healthy
<1>3. ASSUME NEW x, x # NoCall, x # EmptyBlock
      PROVE  ~OnTheWay(x)
  <2>1. \A t \in Thread : ~Carried(t, x)
    BY Zenon, <1>1, <1>3 DEF Ended, Carried
  <2>2. ~Among(queue, x)
    <3>0. queue = <<>>
      BY Zenon, <1>1
    <3>1. DOMAIN queue = {}
      BY <3>0
    <3> QED
      BY Zenon, <3>1 DEF Among
  <2> QED
    BY Zenon, <2>1, <2>2, <1>1, <1>3 DEF OnTheWay, Popped
<1>4. throws = 0
  <2>1. ASSUME NEW e \in 1..throws
        PROVE  FALSE
    <3>1. ~OnTheWay(Raise(e))
      BY Zenon, <1>3, Distinct
    <3>2. \A t \in Thread : pc[t] # "caught"
      BY Zenon, <1>1 DEF Ended
    <3> QED
      BY Zenon, <1>0, <1>2, <3>1, <3>2 DEF ExceptionKept
  <2>2. throws \in Nat
    BY Zenon, <1>0 DEF ThreadTypes
  <2> QED
    BY <2>1, <2>2
<1>5. \A t \in Thread : pc[t] = "done"
  BY Zenon, <1>1 DEF Ended
<1>6. started
  <2>1. 1 \in Thread /\ ThreadOK(1)
    BY Constants DEF UInv
  <2> QED
    BY Zenon, <1>5, <2>1 DEF ThreadOK, UInv
<1>7. unprepared_inputs = <<>> /\ available_inputs = <<>>
  BY Zenon, <1>0, <1>2, <1>4, <1>5, <1>6 DEF SourcesOK
<1>8. \A s \in Input \cup {0} : left[s] = 0
  <2>1. \A s \in Input : ~Held(s)
    BY <1>5, <1>7 DEF Held, Among
  <2>2. \A s \in Input \cup {0} : left[s] \in Nat
    BY Zenon, <1>0 DEF ThreadTypes
  <2>3. \A s \in Input : ~(left[s] > 0)
    BY Zenon, <1>0, <1>2, <1>4, <2>1 DEF SourcesOK
  <2>4. left[0] = 0
    BY Zenon, <1>0, <1>4, <1>5 DEF SourcesOK
  <2> QED
    BY <2>2, <2>3, <2>4
<1>9. ASSUME NEW b \in AllBlocks
      PROVE  delivered[b] = 1
  <2>1. b[1] \in Input \cup {0} /\ b[2] \in Nat /\ b[2] > 0 /\ b # NoCall /\ b # EmptyBlock
    BY Zenon, BlockShape, Distinct
  <2>2. Taken(b)
    BY Zenon, <1>8, <2>1 DEF Taken
  <2> QED
    BY Zenon, <1>0, <1>3, <2>1, <2>2 DEF BlockOK
<1> QED
  BY Zenon, <1>4, <1>9

LEMMA PopsSetFacts ==
    ASSUME UInv, Alone, PopsSet
    PROVE  /\ ItemTypes' /\ ExceptionKept' /\ Slots' /\ EndIsLast'
           /\ empty_count' \in Nat /\ fill_count' \in Nat
           /\ \A x : Popped(x) <=> payload = x
           /\ \A x : ~Popped(x)' /\ (Among(queue, x)' <=> Among(queue, x))
<1>0. ItemTypes /\ StreamTypes /\ Slots /\ EndIsLast /\ ExceptionKept /\ ThreadTypes
  BY Zenon DEF UInv
<1>p. payload \in Item /\ raised \subseteq Thrown /\ queue' = queue
  BY Zenon, <1>0 DEF ItemTypes, PopsSet
<1>1. payload \in Exceptions => payload \in Thrown
  BY Zenon, <1>p, Distinct DEF Item, Exceptions
<1>2. raised \subseteq raised' /\ raised' \subseteq Thrown
  BY Zenon, <1>p, <1>1 DEF PopsSet
<1>3. ItemTypes'
  BY Zenon, <1>0, <1>2, AloneKeeps DEF ItemTypes, Alone, PopsSet, Item
<1>4. \A x : (Popped(x) <=> payload = x) /\ ~Popped(x)' /\ (Among(queue, x)' <=> Among(queue, x))
  BY Zenon, <1>p DEF Popped, Among, PopsSet
<1>5. ASSUME NEW e \in 1..throws'
      PROVE  (OnTheWay(Raise(e)) \/ Raise(e) \in raised \/ \E t \in Thread : pc[t] = "caught" /\ exception[t] = e)'
  <2>1. e \in 1..throws /\ Raise(e) \in Exceptions
    <3>1. throws' = throws /\ throws \in Nat /\ throws <= MaxThrows /\ MaxThrows \in Nat
      BY Zenon, <1>0, ProcessorConstants DEF Alone, ThreadTypes
    <3>2. e \in 1..throws /\ e \in 1..MaxThrows
      BY <3>1
    <3> QED
      BY Zenon, <3>2 DEF Exceptions
  <2>2. CASE OnTheWay(Raise(e))
    <3>1. CASE Popped(Raise(e))
      <4>0. payload = Raise(e) /\ payload \in Exceptions
        BY Zenon, <1>4, <2>1, <3>1
      <4>1. Raise(e) \in raised'
        BY Zenon, <4>0 DEF PopsSet
      <4> QED
        BY Zenon, <4>1
    <3>2. CASE ~Popped(Raise(e))
      <4>1. OnTheWay(Raise(e))'
        BY Zenon, <1>4, <2>2, <3>2, AloneKeeps DEF OnTheWay
      <4> QED
        BY Zenon, <4>1
    <3> QED
      BY Zenon, <3>1, <3>2
  <2>3. CASE Raise(e) \in raised \/ \E t \in Thread : pc[t] = "caught" /\ exception[t] = e
    BY Zenon, <1>2, <2>3 DEF Alone
  <2> QED
    BY Zenon, <1>0, <2>1, <2>2, <2>3 DEF ExceptionKept
<1>6. ExceptionKept'
  BY Zenon, <1>5 DEF ExceptionKept
<1>7. EndIsLast'
  <2>1. payload = EmptyBlock => Ended /\ queue = <<>>
    BY Zenon, <1>0, <1>4 DEF EndIsLast
  <2>3. all_read' => payload = EmptyBlock /\ main' \in {"idle", "finalize"}
    BY Zenon DEF PopsSet
  <2> QED
    BY Zenon, <1>0, <1>p, <1>4, <2>1, <2>3, AloneKeeps DEF EndIsLast
<1>8. Slots' /\ empty_count' \in Nat /\ fill_count' \in Nat
  <2>1. Popping = 0 /\ Popping' = 0 /\ HasPopped = 1 /\ HasPopped' = 0
    BY Zenon DEF Popping, HasPopped, PopsSet
  <2>2. fill_count \in Nat /\ empty_count \in Nat /\ max_threads \in Nat
        /\ Cardinality(In("push")) \in Nat /\ Cardinality(In("set")) \in Nat
    BY Zenon, <1>0, Constants, InCounts DEF StreamTypes
  <2>3. empty_count' = empty_count + 1 /\ fill_count' = fill_count
    BY Zenon DEF PopsSet
  <2>4. fill_count + (empty_count + 1) + Cardinality(In("push")) + Cardinality(In("set")) + 0 + 0 = max_threads
    BY <1>0, <2>1, <2>2 DEF Slots
  <2>5. Len(queue) = fill_count + Cardinality(In("set")) + 0
    BY Zenon, <1>0, <2>1, <2>2 DEF Slots
  <2> QED
    BY <1>p, <2>1, <2>2, <2>3, <2>4, <2>5, AloneKeeps DEF Slots
<1> QED
  BY Zenon, <1>3, <1>4, <1>6, <1>7, <1>8

LEMMA ReceivedKeeps ==
    ASSUME UInv, Received
    PROVE  UInv'
<1>0. StreamTypes /\ CancelOK /\ EndIsLast /\ \A b \in AllBlocks : BlockOK(b)
  BY Zenon DEF UInv
<1>e. EmptyBlock \notin Exceptions /\ \A b \in AllBlocks : b \notin Exceptions /\ b # EmptyBlock
  BY Zenon, Distinct DEF Exceptions
<1>1. Alone /\ PopsSet /\ main = "read set"
  BY Zenon, <1>e DEF Received, output_queue!PopSet, Alone, PopsSet, processor
<1>2. /\ canceller' = (IF payload = EmptyBlock /\ canceller = Nobody THEN QueryThread ELSE canceller)
      /\ main' = (IF payload \in Exceptions THEN "failed" ELSE "idle")
      /\ delivered' = [b \in AllBlocks |-> IF b = payload THEN delivered[b] + 1 ELSE delivered[b]]
      /\ all_read' = (payload = EmptyBlock) /\ destroying' = destroying
      /\ raised' = (IF payload \in Exceptions THEN raised \cup {payload} ELSE raised)
  BY Zenon DEF Received, Cancel, is_cancelled
<1>3. ~all_read
  BY Zenon, <1>0, <1>1 DEF EndIsLast
<1>4. Healthy' <=> Healthy
  BY Zenon, <1>2 DEF Healthy
<1>5. \A b \in AllBlocks : payload = b => delivered[b] = 0
  BY Zenon, <1>0, <1>1, PopsSetFacts DEF BlockOK, OnTheWay
<1>6. delivered' \in [AllBlocks -> {0, 1}]
  <2>1. delivered \in [AllBlocks -> {0, 1}]
    BY Zenon, <1>0 DEF StreamTypes
  <2>2. \A b \in AllBlocks : (IF b = payload THEN delivered[b] + 1 ELSE delivered[b]) \in {0, 1}
    BY <1>5, <2>1
  <2> QED
    BY Zenon, <1>2, <2>2
<1>7. StreamTypes'
  <2>1. canceller' \in {Nobody, QueryThread, Other} \cup Thread /\ all_read' \in BOOLEAN /\ destroying' \in BOOLEAN
    BY Zenon, <1>0, <1>2 DEF StreamTypes
  <2>2. handler' = handler /\ started' = started
    BY Zenon, <1>1 DEF Alone
  <2> QED
    BY Zenon, <1>0, <1>1, <1>2, <1>6, <2>1, <2>2, PopsSetFacts DEF StreamTypes
<1>8. CancelOK'
  <2>1. finish' => canceller' # Nobody
    BY Zenon, <1>0, <1>1, <1>2 DEF CancelOK, Alone, QueryThread, Nobody
  <2>2. canceller' = QueryThread /\ ~destroying' => all_read'
    BY Zenon, <1>0, <1>2, <1>3 DEF CancelOK
  <2>3. main' \notin Draining /\ main' \notin {"finalize", "finalized"}
    BY Zenon, <1>2 DEF Draining
  <2>4. raised' # {} => main' = "failed" \/ ~Healthy'
    BY Zenon, <1>0, <1>1, <1>2, <1>4 DEF CancelOK
  <2>5. ASSUME all_read', Healthy'
        PROVE  throws' = 0 /\ \A b \in AllBlocks : delivered'[b] = 1
    <3>1. Popped(EmptyBlock) /\ payload = EmptyBlock
      BY Zenon, <1>1, <1>2, <2>5, PopsSetFacts
    <3>2. throws = 0 /\ \A b \in AllBlocks : delivered[b] = 1
      BY Zenon, <1>4, <2>5, <3>1, EndIsComplete
    <3> QED
      BY Zenon, <1>1, <1>2, <1>e, <3>1, <3>2 DEF Alone
  <2> QED
    BY Zenon, <2>1, <2>2, <2>3, <2>4, <2>5 DEF CancelOK
<1>9. ASSUME NEW b \in AllBlocks
      PROVE  BlockOK(b)'
  <2>0. BlockOK(b) /\ delivered[b] \in {0, 1}
    BY Zenon, <1>0 DEF StreamTypes
  <2>1. /\ \A t \in Thread : Carried(t, b)' <=> Carried(t, b)
        /\ Among(queue, b)' <=> Among(queue, b)
        /\ ~Popped(b)' /\ (Popped(b) <=> payload = b) /\ (Taken(b)' <=> Taken(b)) /\ queue' = queue
    BY Zenon, <1>1, AloneKeeps, PopsSetFacts DEF PopsSet
  <2>2. CASE payload = b
    <3>0. Popped(b) /\ OnTheWay(b)
      BY Zenon, <2>1, <2>2 DEF OnTheWay
    <3>d. delivered'[b] = 1
      <4>1. delivered[b] = 0
        BY Zenon, <1>5, <2>2
      <4>2. delivered'[b] = delivered[b] + 1
        BY Zenon, <1>2, <2>2
      <4> QED
        BY <4>1, <4>2
    <3>1. delivered'[b] = 1 /\ Taken(b) /\ ~Among(queue, b) /\ \A t \in Thread : ~Carried(t, b)
      BY Zenon, <2>0, <3>0, <3>d DEF BlockOK
    <3>2. ~OnTheWay(b)'
      BY Zenon, <2>1, <3>1 DEF OnTheWay
    <3> QED
      BY Zenon, <2>0, <2>1, <3>1, <3>2 DEF BlockOK
  <2>3. CASE payload # b
    <3>1. delivered'[b] = delivered[b]
      BY Zenon, <1>2, <2>3
    <3>2. OnTheWay(b)' <=> OnTheWay(b)
      BY Zenon, <2>1, <2>3 DEF OnTheWay
    <3> QED
      BY Zenon, <1>4, <2>0, <2>1, <3>1, <3>2 DEF BlockOK
  <2> QED
    BY Zenon, <2>2, <2>3
<1> QED
  BY Zenon, <1>1, <1>7, <1>8, <1>9, AloneKeeps, PopsSetFacts DEF UInv

LEMMA DrainedKeeps ==
    ASSUME UInv, Drained
    PROVE  UInv'
<1>0. StreamTypes /\ CancelOK /\ EndIsLast /\ \A b \in AllBlocks : BlockOK(b)
  BY Zenon DEF UInv
<1>e. EmptyBlock \notin Exceptions
  BY Zenon, Distinct DEF Exceptions
<1>1. Alone /\ PopsSet /\ main = "drain set"
  BY Zenon DEF Drained, output_queue!PopSet, Alone, PopsSet, processor
<1>2. UNCHANGED <<canceller, delivered, destroying>> /\ main' \in {"finalize", "drain"} /\ all_read' \in BOOLEAN
  BY Zenon DEF Drained
<1>3. ~Healthy /\ ~Healthy'
  BY Zenon, <1>0, <1>1, <1>2 DEF CancelOK, Healthy, Draining
<1>4. StreamTypes'
  BY Zenon, <1>0, <1>1, <1>2, PopsSetFacts DEF StreamTypes, Draining, Alone
<1>5. CancelOK'
  BY Zenon, <1>0, <1>1, <1>2, <1>3 DEF CancelOK, Alone, EndIsLast, Healthy
<1>6. ASSUME NEW b \in AllBlocks
      PROVE  BlockOK(b)'
  <2>0. BlockOK(b)
    BY Zenon, <1>0
  <2>1. /\ \A t \in Thread : Carried(t, b)' <=> Carried(t, b)
        /\ Among(queue, b)' <=> Among(queue, b)
        /\ ~Popped(b)' /\ (Taken(b)' <=> Taken(b)) /\ queue' = queue
    BY Zenon, <1>1, AloneKeeps, PopsSetFacts DEF PopsSet
  <2>2. OnTheWay(b)' => OnTheWay(b)
    BY Zenon, <2>1 DEF OnTheWay
  <2> QED
    BY Zenon, <1>2, <1>3, <2>0, <2>1, <2>2 DEF BlockOK
<1> QED
  BY Zenon, <1>1, <1>4, <1>5, <1>6, AloneKeeps, PopsSetFacts DEF UInv

-----------------------------------------------------------------------------
\* The theorems

LEMMA InitUInv ==
    ASSUME Counting, Init
    PROVE  UInv
<1>a. /\ unprepared_inputs = [s \in Input |-> s] /\ available_inputs = <<>>
      /\ left = [s \in Input \cup {0} |-> IF s # 0 THEN blocks_in[s]
                                           ELSE IF additional = {} THEN 0 ELSE CHOOSE n \in additional : TRUE]
  BY Zenon DEF Init, ProcessorInit
<1>b. /\ pc = [t \in Thread |-> "not started"] /\ input = [t \in Thread |-> 0] /\ exception = [t \in Thread |-> 0]
      /\ call = [t \in Thread |-> NoCall] /\ handler = [t \in Thread |-> "out"]
      /\ active_threads = 0 /\ finish = FALSE /\ throws = 0
  BY Zenon DEF Init, ProcessorInit
<1>c. /\ queue = <<>> /\ fill_count = 0 /\ empty_count = max_threads
      /\ canceller = Nobody /\ main = "idle" /\ payload = EmptyBlock
      /\ started = FALSE /\ all_read = FALSE /\ raised = {} /\ destroying = FALSE
      /\ delivered = [b \in AllBlocks |-> 0]
  BY Zenon DEF Init, output_queue!Init
<1>0. 1 \in Thread /\ max_threads \in Nat /\ max_threads > 0 /\ 0 \notin Input
      /\ Input = 1..Len(blocks_in) /\ Len(blocks_in) \in Nat /\ \A s \in Input : blocks_in[s] \in Nat
  BY Constants
<1>1. unprepared_inputs \in Seq(Input) /\ \A s \in Input : Among(unprepared_inputs, s)
  <2>1. unprepared_inputs = [s \in 1..Len(blocks_in) |-> s] /\ Input = 1..Len(blocks_in)
    BY Zenon, <1>0, <1>a
  <2>2. unprepared_inputs \in Seq(Input)
    <3>1. \A s \in 1..Len(blocks_in) : s \in Input
      BY Zenon, <2>1
    <3> QED
      BY <1>0, <2>1, <3>1
  <2> QED
    BY Zenon, <2>1, <2>2 DEF Among
<1>2. left \in [Input \cup {0} -> Nat] /\ (\A s \in Input : left[s] = blocks_in[s]) /\ left[0] \in Nat
      /\ (\A n \in additional : left[0] = n) /\ (additional = {} => left[0] = 0)
  <2>1. additional # {} => (CHOOSE n \in additional : TRUE) \in additional
    OBVIOUS
  <2>2. left[0] = IF additional = {} THEN 0 ELSE CHOOSE n \in additional : TRUE
    BY Zenon, <1>a
  <2>3. left[0] \in Nat /\ (\A n \in additional : left[0] = n) /\ (additional = {} => left[0] = 0)
    <3>1. CASE additional = {}
      BY <2>2, <3>1
    <3>2. CASE additional # {}
      <4>1. left[0] \in additional
        BY Zenon, <2>1, <2>2, <3>2
      <4> QED
        BY Zenon, <3>2, <4>1, ProcessorConstants
    <3> QED
      BY Zenon, <3>1, <3>2
  <2>4. \A s \in Input : left[s] = blocks_in[s]
    BY Zenon, <1>0, <1>a
  <2>5. \A s \in Input \cup {0} : left[s] \in Nat
    BY Zenon, <1>0, <2>3, <2>4
  <2> QED
    BY Zenon, <1>a, <2>3, <2>4, <2>5
<1>3. ThreadTypes
  <2>1. pc \in [Thread -> Active \cup {"not started", "additional", "finish", "done"}]
    BY Zenon, <1>b
  <2>2. input \in [Thread -> Input \cup {0}] /\ exception \in [Thread -> Nat]
    BY Zenon, <1>b
  <2>3. active_threads \in Nat /\ throws \in Nat /\ throws <= MaxThrows
    <3>1. active_threads = 0 /\ throws = 0
      BY Zenon, <1>b
    <3> QED
      BY <3>1, ProcessorConstants
  <2>4. finish \in BOOLEAN
    BY Zenon, <1>b
  <2>5. available_inputs \in Seq(Input)
    BY <1>a
  <2> QED
    BY Zenon, <1>1, <1>2, <2>1, <2>2, <2>3, <2>4, <2>5 DEF ThreadTypes
<1>4. ItemTypes /\ StreamTypes
  <2>1. call \in [Thread -> Item \cup {NoCall}]
    BY Zenon, <1>b
  <2>2. handler \in [Thread -> {"out", "push", "set", "cancel", "cancelled"}]
    BY Zenon, <1>b
  <2>3. queue \in Seq(Item) /\ payload \in Item /\ raised \subseteq Thrown
    BY <1>c DEF Item
  <2>4. fill_count \in Nat /\ empty_count \in Nat
    BY Zenon, <1>0, <1>c
  <2>5. delivered \in [AllBlocks -> {0, 1}]
    BY Zenon, <1>c
  <2>6. canceller \in {Nobody, QueryThread, Other} \cup Thread
        /\ main \in Reading \cup Draining \cup {"idle", "failed", "finalize", "finalized", "destroyed"}
        /\ started \in BOOLEAN /\ all_read \in BOOLEAN /\ destroying \in BOOLEAN
    BY Zenon, <1>c
  <2> QED
    BY Zenon, <2>1, <2>2, <2>3, <2>4, <2>5, <2>6 DEF ItemTypes, StreamTypes
<1>5. Slots /\ active_threads = Cardinality(Busy)
  <2>1. In("push") = {} /\ In("set") = {} /\ Busy = {}
    BY Zenon, <1>b DEF In, Busy, Active
  <2>2. Popping = 0 /\ HasPopped = 0 /\ Len(queue) = 0
    BY Zenon, <1>c DEF Popping, HasPopped
  <2>3. Cardinality(In("push")) = 0 /\ Cardinality(In("set")) = 0 /\ Cardinality(Busy) = 0
    <3>1. {} \in SUBSET Thread /\ Cardinality({}) = 0
      BY Zenon DEF Counting
    <3> QED
      BY Zenon, <2>1, <3>1
  <2> QED
    <3>1. active_threads = 0 /\ fill_count = 0 /\ empty_count = max_threads
      BY Zenon, <1>b, <1>c
    <3> QED
      BY <1>0, <2>2, <2>3, <3>1 DEF Slots
<1>6. \A t \in Thread : ThreadOK(t)
  <2>1. NoCall # EmptyBlock
    BY Zenon, Distinct
  <2>2. \A t \in Thread : pc[t] = "not started" /\ exception[t] = 0 /\ call[t] = NoCall /\ handler[t] = "out"
    BY Zenon, <1>b
  <2>3. throws = 0 /\ ~started
    BY Zenon, <1>b, <1>c
  <2>4. 0 <= 0
    OBVIOUS
  <2> QED
    BY Zenon, <2>1, <2>2, <2>3, <2>4 DEF ThreadOK
<1>7. EndIsLast
  <2>1. DOMAIN queue = {}
    BY <1>c
  <2> QED
    BY Zenon, <1>c, <2>1 DEF EndIsLast, Popped
<1>8. ExceptionKept
  <2>1. throws = 0
    BY Zenon, <1>b
  <2>2. \A e \in 1..throws : FALSE
    BY <2>1
  <2> QED
    BY Zenon, <2>2 DEF ExceptionKept
<1>9. SourcesOK
  <2>1. \A s \in Input : left[s] <= blocks_in[s]
    BY <1>0, <1>2
  <2>2. left[0] > 0 => \E n \in additional : left[0] <= n
    <3>1. left[0] > 0 => additional # {}
      BY <1>2
    <3> QED
      BY <3>1, <1>2
  <2>3. ~(\E t \in Thread : pc[t] = "finish") /\ ~(\A t \in Thread : pc[t] = "done")
    BY Zenon, <1>0, <1>b
  <2> QED
    BY Zenon, <1>1, <1>a, <1>c, <2>1, <2>2, <2>3 DEF SourcesOK, Held
<1>10. CancelOK
  <2>1. ~finish /\ ~all_read /\ raised = {} /\ main = "idle" /\ canceller = Nobody
    BY Zenon, <1>b, <1>c
  <2>2. Nobody # QueryThread
    BY DEF Nobody, QueryThread
  <2> QED
    BY Zenon, <2>1, <2>2 DEF CancelOK, Draining
<1>11. ASSUME NEW b \in AllBlocks
       PROVE  BlockOK(b)
  <2>1. b # NoCall /\ b[2] \in Nat /\ (b[1] \in Input => b[2] <= blocks_in[b[1]])
        /\ (b[1] \in Input \/ (b[1] = 0 /\ \E n \in additional : b[2] <= n))
    BY Zenon, BlockShape, Distinct
  <2>q. DOMAIN queue = {}
    BY <1>c
  <2>2. ~OnTheWay(b) /\ \A t \in Thread : ~Carried(t, b)
    BY Zenon, <1>b, <1>c, <2>1, <2>q DEF OnTheWay, Carried, Among, Popped
  <2>3. ~Taken(b)
    <3>1. b[1] \in Input => left[b[1]] = blocks_in[b[1]] /\ blocks_in[b[1]] \in Nat
      BY Zenon, <1>0, <1>2
    <3>2. b[1] = 0 => \A n \in additional : left[b[1]] = n
      BY Zenon, <1>2
    <3>3. left[b[1]] \in Nat /\ b[2] <= left[b[1]]
      BY Zenon, <2>1, <3>1, <3>2, <1>2
    <3> QED
      BY <2>1, <3>3 DEF Taken
  <2>4. delivered[b] = 0
    BY Zenon, <1>c
  <2> QED
    <3>1. \A j, k \in DOMAIN queue : queue[j] = b /\ queue[k] = b => j = k
      BY Zenon, <2>q
    <3>2. ~Among(queue, b) /\ delivered[b] # 1
      BY <2>2, <2>4 DEF OnTheWay
    <3> QED
      BY Zenon, <2>2, <2>3, <3>1, <3>2 DEF BlockOK
<1> QED
  BY Zenon, <1>3, <1>4, <1>5, <1>6, <1>7, <1>8, <1>9, <1>10, <1>11 DEF UInv

LEMMA NextUInv == UInv /\ [Next]_vars => UInv'
<1> SUFFICES ASSUME UInv, [Next]_vars PROVE UInv'
  OBVIOUS
<1>1. CASE \E t \in Thread : Work(t)
  <2>1. PICK t \in Thread : Work(t)
    BY Zenon, <1>1
  <2>2. CASE ThreadStep(t) /\ UNCHANGED <<queues, handler, canceller, reader>>
    BY Zenon, <2>2, ThreadStepKeeps DEF Others
  <2>3. CASE Push(t) \/ CancelOnException(t)
    BY Zenon, <2>3, HandlerStepKeeps DEF HandlerStep
  <2> QED
    BY Zenon, <2>1, <2>2, <2>3 DEF Work
<1>2. CASE PopToRead
  <2>1. CASE main = "read"
    <3>1. Alone /\ PopsWait
      BY Zenon, <1>2, <2>1 DEF PopToRead, Pop, output_queue!PopWait, Alone, PopsWait, processor
    <3> QED
      BY Zenon, <3>1, PopsWaitKeeps
  <2>2. CASE main = "read pop"
    <3>1. Alone /\ PopsItem
      BY Zenon, <1>2, <2>2 DEF PopToRead, Pop, output_queue!PopItem, Alone, PopsItem, processor
    <3> QED
      BY Zenon, <3>1, PopsItemKeeps
  <2> QED
    BY Zenon, <1>2, <2>1, <2>2 DEF PopToRead, Pop
<1>3. CASE PopToDrain
  <2>1. CASE main = "drain"
    <3>1. Alone /\ PopsWait
      BY Zenon, <1>3, <2>1 DEF PopToDrain, Pop, output_queue!PopWait, Alone, PopsWait, processor
    <3> QED
      BY Zenon, <3>1, PopsWaitKeeps
  <2>2. CASE main = "drain pop"
    <3>1. Alone /\ PopsItem
      BY Zenon, <1>3, <2>2 DEF PopToDrain, Pop, output_queue!PopItem, Alone, PopsItem, processor
    <3> QED
      BY Zenon, <3>1, PopsItemKeeps
  <2> QED
    BY Zenon, <1>3, <2>1, <2>2 DEF PopToDrain, Pop
<1>4. CASE Received
  BY Zenon, <1>4, ReceivedKeeps
<1>5. CASE Drained
  BY Zenon, <1>5, DrainedKeeps
<1>6. CASE ProcessorCancel \/ CancelQuery \/ ReadImpl \/ Finalize \/ ReadSuffix \/ Destroy
  BY Zenon, <1>6, ControlStepKeeps DEF ControlStep
<1>7. CASE UNCHANGED vars
  <2>1. Alone /\ UNCHANGED <<queue, fill_count, empty_count, canceller, main, payload, all_read, raised, destroying, delivered>>
    BY Zenon, <1>7 DEF vars, processor, queues, reader, Alone
  <2>2. ItemTypes' /\ StreamTypes'
    BY Zenon, <2>1, AloneKeeps DEF UInv, ItemTypes, StreamTypes, Alone
  <2>3. Popping' = Popping /\ HasPopped' = HasPopped /\ (Healthy' <=> Healthy)
    BY Zenon, <2>1 DEF Popping, HasPopped, Healthy
  <2>4. Slots'
    BY Zenon, <2>1, <2>3, AloneKeeps DEF UInv, Slots
  <2>5. \A x : (Popped(x)' <=> Popped(x)) /\ (Among(queue, x)' <=> Among(queue, x))
    BY Zenon, <2>1 DEF Popped, Among
  <2>6. \A x : OnTheWay(x)' <=> OnTheWay(x)
    BY Zenon, <2>1, <2>5, AloneKeeps DEF OnTheWay
  <2>7. EndIsLast' /\ ExceptionKept'
    BY Zenon, <2>1, <2>5, <2>6, AloneKeeps DEF UInv, EndIsLast, ExceptionKept, Alone
  <2>8. CancelOK'
    BY Zenon, <2>1, <2>3 DEF UInv, CancelOK, Alone
  <2>9. ASSUME NEW b \in AllBlocks
        PROVE  BlockOK(b)'
    <3>1. BlockOK(b)
      BY Zenon DEF UInv
    <3> QED
      BY Zenon, <2>1, <2>3, <2>5, <2>6, <3>1, AloneKeeps DEF BlockOK
  <2> QED
    BY Zenon, <2>1, <2>2, <2>4, <2>7, <2>8, <2>9, AloneKeeps DEF UInv
<1> QED
  BY Zenon, <1>1, <1>2, <1>3, <1>4, <1>5, <1>6, <1>7 DEF Next, StreamStep

\* What follows from the invariant
LEMMA SlotsFollow ==
    ASSUME UInv
    PROVE  SlotsAccounted
<1>0. /\ ThreadTypes /\ ItemTypes /\ StreamTypes /\ Slots /\ active_threads = Cardinality(Busy)
      /\ \A t \in Thread : ThreadOK(t)
  BY Zenon DEF UInv
<1>c. /\ fill_count \in Nat /\ empty_count \in Nat /\ max_threads \in Nat
      /\ Cardinality(In("push")) \in Nat /\ Cardinality(In("set")) \in Nat
  BY Zenon, <1>0, Constants, InCounts DEF StreamTypes
<1>p. Popping \in {0, 1} /\ HasPopped \in {0, 1}
  BY Zenon DEF Popping, HasPopped
<1>1. fill_count \in 0..max_threads /\ empty_count \in 0..max_threads
  BY <1>0, <1>c, <1>p DEF Slots
<1>2. Len(queue) <= max_threads
  BY <1>0, <1>c, <1>p DEF Slots
<1>3. active_threads \in 0..max_threads
  <2>1. Busy \in SUBSET Thread
    BY Zenon DEF Busy
  <2>2. Cardinality(Busy) <= max_threads /\ Cardinality(Busy) \in Nat
    BY Zenon, <2>1 DEF UInv, Counting
  <2> QED
    BY <1>0, <1>c, <2>2
<1>4. throws \in 0..MaxThrows /\ exception \in [Thread -> 0..MaxThrows]
  <2>1. throws \in Nat /\ throws <= MaxThrows /\ MaxThrows \in Nat /\ exception \in [Thread -> Nat]
    BY Zenon, <1>0, ProcessorConstants DEF ThreadTypes
  <2>2. \A t \in Thread : exception[t] <= throws
    BY Zenon, <1>0 DEF ThreadOK
  <2>3. \A t \in Thread : exception[t] \in 0..MaxThrows
    BY <2>1, <2>2
  <2> QED
    BY <2>1, <2>3
<1>5. Item \subseteq Payload /\ Thrown \subseteq Exceptions
  <2>1. throws \in Nat /\ throws <= MaxThrows /\ MaxThrows \in Nat
    BY Zenon, <1>0, ProcessorConstants DEF ThreadTypes
  <2>2. 1..throws \subseteq 1..MaxThrows
    BY <2>1
  <2>3. Thrown \subseteq Exceptions
    BY Zenon, <2>2 DEF Thrown, Exceptions
  <2> QED
    BY Zenon, <2>3 DEF Item, Payload
<1>6. /\ \A t \in Thread : call[t] \in Payload \cup {NoCall}
      /\ \A k \in DOMAIN queue : queue[k] \in Payload
      /\ payload \in Payload /\ raised \subseteq Exceptions
  BY <1>0, <1>5 DEF ItemTypes
<1>7. pc \in [Thread -> {"not started", "prepare", "prefix", "loop", "read", "caught", "end",
                         "additional", "finish", "done"}]
  BY Zenon, <1>0 DEF ThreadTypes, Active
<1>d. delivered \in [AllBlocks -> Nat]
  <2>1. delivered \in [AllBlocks -> {0, 1}]
    BY Zenon, <1>0 DEF StreamTypes
  <2> QED
    BY <2>1
<1>8. TypeOK
  BY Zenon, <1>0, <1>1, <1>2, <1>3, <1>4, <1>6, <1>7, <1>d DEF TypeOK, ThreadTypes, StreamTypes
<1> QED
  BY Zenon, <1>0, <1>8 DEF SlotsAccounted, Slots, In, Popping, HasPopped

LEMMA ExceptionsFollow ==
    ASSUME UInv, all_read
    PROVE  raised = {Raise(e) : e \in 1..throws}
<1>1. Ended /\ queue = <<>> /\ main \in {"idle", "finalize", "finalized", "destroyed"} /\ raised \subseteq Thrown
  BY Zenon DEF UInv, EndIsLast, ItemTypes
<1>2. DOMAIN queue = {}
  BY <1>1
<1>3. ASSUME NEW e \in 1..throws
      PROVE  Raise(e) \in raised
  <2>1. \A t \in Thread : ~Carried(t, Raise(e)) /\ pc[t] # "caught"
    BY Zenon, <1>1, Distinct DEF Ended, Carried
  <2>2. ~OnTheWay(Raise(e))
    BY Zenon, <1>1, <1>2, <2>1 DEF OnTheWay, Among, Popped
  <2> QED
    BY Zenon, <2>1, <2>2 DEF UInv, ExceptionKept
<1> QED
  BY Zenon, <1>1, <1>3 DEF Thrown

\* The facts about finite sets that Counting collects
FST == INSTANCE FiniteSetTheorems

LEMMA SameFinite == ASSUME NEW S PROVE FST!IsFiniteSet(S) <=> IsFiniteSet(S)
BY Zenon DEF FST!IsFiniteSet, IsFiniteSet

LEMMA SameCardinality == ASSUME NEW S PROVE FST!Cardinality(S) = Cardinality(S)
BY Zenon DEF FST!Cardinality, Cardinality

LEMMA ThreadsCount == Counting
<1>1. IsFiniteSet(Thread) /\ Cardinality(Thread) = max_threads
  <2>1. FST!IsFiniteSet(1..max_threads) /\ FST!Cardinality(1..max_threads) = max_threads
    BY Constants, FST!FS_Interval
  <2> QED
    BY Zenon, <2>1, SameFinite, SameCardinality DEF Thread
<1>2. ASSUME NEW S \in SUBSET Thread
      PROVE  IsFiniteSet(S) /\ Cardinality(S) \in Nat /\ Cardinality(S) <= max_threads /\ (Cardinality(S) = 0 <=> S = {})
  <2>1. FST!IsFiniteSet(Thread) /\ FST!Cardinality(Thread) = max_threads
    BY Zenon, <1>1, SameFinite, SameCardinality
  <2>2. FST!IsFiniteSet(S) /\ FST!Cardinality(S) <= FST!Cardinality(Thread)
    BY Zenon, <2>1, FST!FS_Subset
  <2>3. FST!Cardinality(S) \in Nat /\ (FST!Cardinality(S) = 0 <=> S = {})
    BY Zenon, <2>2, FST!FS_CardinalityType, FST!FS_EmptySet
  <2> QED
    BY Zenon, <2>1, <2>2, <2>3, SameFinite, SameCardinality
<1>3. ASSUME NEW S \in SUBSET Thread, NEW t \in Thread \ S
      PROVE  Cardinality(S \cup {t}) = Cardinality(S) + 1
  <2>1. FST!IsFiniteSet(S)
    BY Zenon, <1>2, SameFinite
  <2>2. FST!Cardinality(S \cup {t}) = FST!Cardinality(S) + 1
    BY Zenon, <2>1, FST!FS_AddElement
  <2> QED
    BY Zenon, <2>2, SameCardinality
<1>4. ASSUME NEW S \in SUBSET Thread, NEW t \in S
      PROVE  Cardinality(S \ {t}) = Cardinality(S) - 1
  <2>1. FST!IsFiniteSet(S)
    BY Zenon, <1>2, SameFinite
  <2>2. FST!Cardinality(S \ {t}) = FST!Cardinality(S) - 1
    BY Zenon, <2>1, FST!FS_RemoveElement
  <2> QED
    BY Zenon, <2>2, SameCardinality
<1> QED
  BY Zenon, <1>1, <1>2, <1>3, <1>4 DEF Counting

\* The inductive invariant: where the threads, the blocks, the exceptions and the end are at every
\* moment of a stream's life, for any sources, threads, exceptions and cancels
THEOREM StreamInvariant == Spec => []UInv
<1>1. Init => UInv
  BY Zenon, ThreadsCount, InitUInv
<1> QED
  BY <1>1, NextUInv, PTL DEF Spec

\* The semaphores of the queue account for every slot and every item, so no set passes the
\* maximum and pop never meets an empty queue, for any number of threads
THEOREM QueueSlots == Spec => []SlotsAccounted
<1>1. UInv => SlotsAccounted
  BY Zenon, SlotsFollow
<1> QED
  BY <1>1, StreamInvariant, PTL

\* When read() reports the end of a stream that nobody cancelled, it has returned every block of
\* every source once, and no source threw
THEOREM EndIsTheEnd == Spec => []EndMeansComplete
<1>1. UInv => EndMeansComplete
  BY Zenon DEF UInv, CancelOK, Healthy, EndMeansComplete
<1> QED
  BY <1>1, StreamInvariant, PTL

\* However the stream ends, every exception a source threw has reached the query thread
THEOREM NoExceptionIsLost == Spec => []ExceptionNotLost
<1>1. UInv => ExceptionNotLost
  BY Zenon, ExceptionsFollow DEF ExceptionNotLost
<1> QED
  BY <1>1, StreamInvariant, PTL
=============================================================================
