---------------------- MODULE MCCudaHostPinnedMemPool ----------------------
(***************************************************************************)
(* Instances of the pool.  Blocks of 3 and 4 granules (headers included)   *)
(* come from requests of 1 and 40 bytes; five of them use up a pool of 17. *)
(***************************************************************************)
EXTENDS CudaHostPinnedMemPool

SmallRequests == {[size |-> 1, alignment |-> 0], [size |-> 40, alignment |-> 8]}

\* What the buffers for asynchronous reads and writes ask for.
AlignedRequests == {[size |-> 1, alignment |-> 0], [size |-> 4096, alignment |-> 4096]}
=============================================================================
