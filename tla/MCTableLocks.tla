---------------------------- MODULE MCTableLocks ----------------------------
(* Two tables; two statements that read and two that change tables, in every
   combination.  Threads that run the same kinds of statements are
   interchangeable, so pairs are taken sorted. *)
EXTENDS TableLocks, TableStatements

Readers == <<Statement("SELECT", <<1, 2>>), Statement("SELECT", <<2, 1>>), Statement("INSERT", <<1, 1>>),
             Statement("INSERT", <<2, 1>>), Statement("merge", <<1>>)>>
Writers == <<Statement("ALTER", <<1>>), Statement("ALTER", <<2>>), Statement("DROP", <<1>>), Statement("RENAME", <<2, 1>>)>>

AllMixes ==
    { <<Readers[i], Readers[j], Writers[k], Writers[m]>> :
        <<i, j, k, m>> \in {x \in (1..5) \X (1..5) \X (1..4) \X (1..4) : x[1] <= x[2] /\ x[3] <= x[4]} }
Locks == {1, 2} \X {"data", "structure"}
=============================================================================
