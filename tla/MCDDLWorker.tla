---------------------------- MODULE MCDDLWorker ----------------------------
(* Two replicas of one shard and two entries, of which the first is an ALTER of
   a replicated table.  The queue keeps one entry, so that the first is removed
   under the workers. *)
EXTENDS DDLWorker

CONSTANTS h1, h2
=============================================================================
