---------------------- MODULE MCUnionBlockInputStream ----------------------
(* An empty source and one of two blocks, read by two threads, and one block
   at the end from the additional source.  Either thread may read either block
   of the second source, and both may meet an exception. *)
EXTENDS UnionBlockInputStream

TwoSources == <<0, 2>>
=============================================================================
