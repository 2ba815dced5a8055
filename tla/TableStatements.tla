--------------------------- MODULE TableStatements ---------------------------
(***************************************************************************)
(* The statements that lock tables, as the lists of lock calls their       *)
(* interpreters make: a call names the lock, how it is asked for, and      *)
(* whether is_dropped is tested once it is there.                          *)
(***************************************************************************)
EXTENDS Integers, SequencesExt

Call(table, lock, type, check) == [lock |-> <<table, lock>>, type |-> type, check |-> check]

\* Both locks for a statement that adds data; is_dropped is tested at the end
lockStructure(table, will_modify_data) ==
    (IF will_modify_data THEN <<Call(table, "data", "Read", FALSE)>> ELSE <<>>)
    \o <<Call(table, "structure", "Read", TRUE)>>

\* lockDataForAlter, lockStructureForAlter
lockForAlter(table) ==
    <<Call(table, "data", "Write", TRUE), Call(table, "structure", "Write", TRUE)>>

Select(tables) == FlattenSeq([k \in DOMAIN tables |-> lockStructure(tables[k], FALSE)])

\* The new parts are written between the two calls, while SELECTs go on
Alter(table) == lockForAlter(table)

\* "we must acquire locks for tables in same order in any different RENAMES"
Rename(tables) ==
    LET sorted == SetToSortSeq(ToSet(tables), <)
    IN FlattenSeq([k \in DOMAIN sorted |-> lockForAlter(sorted[k])])

\* The first table of an INSERT is the target, locked again by
\* PushingToViewsBlockOutputStream; the others are those of its SELECT
Calls(kind, tables) ==
    CASE kind = "SELECT" -> Select(tables)
      [] kind = "INSERT" -> lockStructure(tables[1], TRUE) \o lockStructure(tables[1], TRUE)
                              \o Select(Tail(tables))
      [] kind = "merge"  -> lockStructure(tables[1], TRUE)
      [] kind = "ALTER"  -> Alter(tables[1])
      [] kind = "DROP"   -> lockForAlter(tables[1])
      [] kind = "RENAME" -> Rename(tables)

Statement(kind, tables) == [kind |-> kind, tables |-> tables, calls |-> Calls(kind, tables)]
=============================================================================
