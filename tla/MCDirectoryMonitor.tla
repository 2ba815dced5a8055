------------------------- MODULE MCDirectoryMonitor -------------------------
(* Three blocks of which the last is damaged, batches of two files, three faults:
   enough for a batch that is full, one that is not, a crash while it is being
   removed, a number that is used again, and a second fault after that. *)
EXTENDS DirectoryMonitor
=============================================================================
