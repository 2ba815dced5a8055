-------------------------- MODULE MCCudaUniqHLL12 --------------------------
(***************************************************************************)
(* Instances of uniqHLL12: sets of two slots, counters of two buckets.     *)
(* Values 1, 2 and 3 meet in bucket 1 with growing ranks.                  *)
(***************************************************************************)
EXTENDS CudaUniqHLL12, TLC

Values  == 0..3
Buckets == (0 :> 0) @@ (1 :> 1) @@ (2 :> 1) @@ (3 :> 1)
Ranks   == (0 :> 1) @@ (1 :> 1) @@ (2 :> 2) @@ (3 :> 3)

R(p, v) == [place |-> p, value |-> v]

\* Equal values, values that share a bucket, three for two slots, the zero.
RacingRows ==
    { <<R(0, 1), R(0, 2), R(0, 1)>>,
      <<R(0, 0), R(0, 3), R(1, 2)>>,
      <<R(1, 3), R(1, 1), R(1, 2)>>,
      <<R(1, 0), R(1, 3)>> }
=============================================================================
