----------------------------- MODULE TableLocks -----------------------------
(***************************************************************************)
(* The two locks of a table (IStorage): data_lock keeps the parts of the   *)
(* table from being rewritten, structure_lock its description.  Each       *)
(* thread runs one statement, and a statement has the list of lock calls   *)
(* its interpreter makes; locks are held until the statement ends or is    *)
(* unwound by an exception.  DROP and RENAME first take the DDLGuards of   *)
(* their tables, which do not wait: a taken guard is an exception.         *)
(***************************************************************************)
EXTENDS RWLockFIFO

CONSTANTS
    Tables,         \* how many there are
    Mixes           \* the statements that may meet: functions from Thread

\* Tables are numbered in the order of their names
Table == 1..Tables

ASSUME LocksOfTables == Tables \in Nat /\ Lock = Table \X {"data", "structure"}

VARIABLES
    statement,      \* of each thread: [kind, tables, calls]
    pc,             \* of each thread: lock calls whose locks it has
    status,         \* of each thread; "wait": in getLock, "leave": done or unwinding
    guards,         \* tables with a DDLGuard
    is_dropped

vars == <<queue, waiting, statement, pc, status, guards, is_dropped>>

\* Call j of a statement is the first for its lock: later ones wait for nothing
New(calls, j) == \A k \in 1..(j - 1) : calls[k].lock # calls[j].lock

\* Of each table a statement takes first the data, if it needs them, and next the structure
DataFirst(calls) ==
    \A j \in DOMAIN calls : New(calls, j) =>
        \A k \in 1..(j - 1) : calls[k].lock[1] = calls[j].lock[1] =>
            k = j - 1 /\ calls[k].lock[2] = "data" /\ calls[j].lock[2] = "structure"

\* A DROP has its table for itself
DropsAlone(s) ==
    s.kind = "DROP" => s.tables[1] \in Table /\ \A part \in {"data", "structure"} :
        \E k \in DOMAIN s.calls : s.calls[k].lock = <<s.tables[1], part>> /\ s.calls[k].type = "Write"

\* What a statement is, whatever kinds there are (TableStatements lists them)
CallType == [lock : Lock, type : {"Read", "Write"}, check : BOOLEAN]
ASSUME StatementsLock ==
    \A mix \in Mixes :
        /\ DOMAIN mix = Thread
        /\ \A t \in Thread :
              /\ mix[t].calls \in Seq(CallType) /\ mix[t].calls # <<>>
              /\ DataFirst(mix[t].calls) /\ DropsAlone(mix[t])

Guarded(s) == IF s.kind \in {"DROP", "RENAME"} THEN {s.tables[k] : k \in DOMAIN s.tables} ELSE {}

Init ==
    /\ LocksInit
    /\ statement \in Mixes
    /\ pc = [t \in Thread |-> 0]
    /\ status = [t \in Thread |-> IF Guarded(statement[t]) # {} THEN "start" ELSE "run"]
    /\ guards = {}
    /\ is_dropped = [table \in Table |-> FALSE]

CallsOf(t)   == statement[t].calls
NextCall(t)  == CallsOf(t)[pc[t] + 1]
AllLocked(t) == pc[t] = Len(CallsOf(t))
Become(t, s) == status' = [status EXCEPT ![t] = s]

\* RENAME looks its tables up under the guards, DROP before
Gone(s) == s.kind = "RENAME" /\ \E k \in DOMAIN s.tables : is_dropped[s.tables[k]]

\* DDLGuard.  A RENAME of a table that is gone fails; that it locks its other tables
\* before it fails is left out
Guard(t) ==
    /\ status[t] = "start"
    /\ IF Guarded(statement[t]) \cap guards = {} /\ ~Gone(statement[t])
       THEN guards' = guards \cup Guarded(statement[t]) /\ Become(t, "run")
       ELSE Become(t, "end") /\ UNCHANGED guards
    /\ UNCHANGED <<queue, waiting, statement, pc, is_dropped>>

\* Defective variant: is_dropped is not looked at again under the lock
DroppedMeanwhile_Unchecked(call) == FALSE

DroppedMeanwhile(call) == call.check /\ is_dropped[call.lock[1]]

\* getLock returns; "Table is dropped" unwinds the statement
Return(t, call) ==
    /\ pc' = [pc EXCEPT ![t] = @ + 1]
    /\ Become(t, IF DroppedMeanwhile(call) THEN "leave" ELSE "run")

Ask(t) ==
    LET call == NextCall(t) IN
    /\ status[t] = "run" /\ ~AllLocked(t)
    /\ IF Throws(call.lock, t, call.type)
       THEN Become(t, "leave") /\ UNCHANGED <<queue, waiting, pc>>
       ELSE /\ getLock(call.lock, t, call.type)
            /\ IF t \in waiting'[call.lock] THEN Become(t, "wait") /\ UNCHANGED pc ELSE Return(t, call)
    /\ UNCHANGED <<statement, guards, is_dropped>>

\* Defective variant: a wakeup is taken for the lock, without the predicate
WakeUp_NoPredicate(t) ==
    /\ status[t] = "wait"
    /\ Return(t, NextCall(t))
    /\ UNCHANGED <<queue, waiting, statement, guards, is_dropped>>

WakeUp(t) ==
    /\ status[t] = "wait" /\ Granted(NextCall(t).lock, t)
    /\ Return(t, NextCall(t))
    /\ UNCHANGED <<queue, waiting, statement, guards, is_dropped>>

\* The statement does its work
Work(t) ==
    /\ status[t] = "run" /\ AllLocked(t)
    /\ is_dropped' = IF statement[t].kind = "DROP" THEN [is_dropped EXCEPT ![statement[t].tables[1]] = TRUE]
                     ELSE is_dropped
    /\ Become(t, "leave")
    /\ UNCHANGED <<queue, waiting, statement, pc, guards>>

\* Destructors release the locks, those taken last first
Unlock(t) ==
    /\ status[t] = "leave"
    /\ pc' = [pc EXCEPT ![t] = @ - 1]
    /\ LET l == CallsOf(t)[pc[t]].lock
       IN IF \E k \in 1..(pc[t] - 1) : CallsOf(t)[k].lock = l
          THEN UNCHANGED <<queue, waiting>>
          ELSE Release(l, t)
    /\ IF pc[t] = 1
       THEN Become(t, "end") /\ guards' = guards \ Guarded(statement[t])
       ELSE UNCHANGED <<status, guards>>
    /\ UNCHANGED <<statement, is_dropped>>

Step(t) == Guard(t) \/ Ask(t) \/ WakeUp(t) \/ Work(t) \/ Unlock(t)

Next == \E t \in Thread : Step(t)

\* Some thread that is not blocked in a lock goes on.  A statement takes finitely many
\* steps, so nothing more needs to be assumed of the operating system
Spec == Init /\ [][Next]_vars /\ WF_vars(Next)

-----------------------------------------------------------------------------

\* Types of the variables; a DDLGuard belongs to one statement that runs
TypeOK ==
    /\ LocksTypeOK
    /\ pc \in [Thread -> Nat] /\ \A t \in Thread : pc[t] <= Len(CallsOf(t))
    /\ status \in [Thread -> {"start", "run", "wait", "leave", "end"}]
    /\ guards = UNION {Guarded(statement[t]) : t \in {u \in Thread : status[u] \in {"run", "wait", "leave"}}}
    /\ is_dropped \in [Table -> BOOLEAN]

\* Statements use the locks as RWLockFIFO specifies: a thread asks for one lock at a
\* time and releases what it was granted, so what is proved of LockSpec holds here
UsesLocks == LockSpec

\* A statement that has got through lockStructure or lockForAlter works on a table that
\* is not dropped, and a second DROP does not drop it again
DroppedIsUnused ==
    TypeOK /\ \A t \in Thread : status[t] = "run" =>
        \A k \in 1..pc[t] : CallsOf(t)[k].check => ~is_dropped[CallsOf(t)[k].lock[1]]

\* Statement s takes a lock of table a and later one of table b, of which it has none yet
InOrder(s, a, b) ==
    \E i, j \in DOMAIN s.calls :
        /\ i < j /\ s.calls[i].lock[1] = a /\ s.calls[j].lock[1] = b
        /\ \A k \in 1..(j - 1) : s.calls[k].lock[1] # b

\* There is an order of the tables in which all statements that have not ended take them
OneOrder ==
    \E rank \in [Table -> Table] :
        \A t \in {u \in Thread : status[u] # "end"} : \A a, b \in Table :
            a # b /\ InOrder(statement[t], a, b) => rank[a] < rank[b]

Blocked(t) == status[t] = "wait" /\ ~Granted(NextCall(t).lock, t)

\* The locks alone never block statements for ever: when nobody can move, the statements
\* that have not ended take their tables in conflicting orders.  In particular the data
\* and the structure lock of one table, recursive readers, and any RENAMEs cannot deadlock
DeadlockNeedsConflictingOrders ==
    /\ \E t \in Thread : status[t] # "end"
    /\ \A t \in Thread : status[t] = "end" \/ Blocked(t)
    => ~OneOrder

\* Statements that take their tables in one order all end, whatever they wait for in between
StatementsEnd == OneOrder => <>(\A t \in Thread : status[t] = "end")
=============================================================================
