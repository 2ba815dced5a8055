---------------------- MODULE MCCudaStringsAggregator ----------------------
(***************************************************************************)
(* Instances of CudaStringsAggregator: buffers of two rows and five bytes, *)
(* a row of a key takes two bytes.                                         *)
(***************************************************************************)
EXTENDS CudaStringsAggregator

CONSTANTS ka, kb, kc

B(rows, keys) == [rows |-> rows, key_sz |-> 2 * rows, val_sz |-> 2 * rows, keys |-> keys]

one_a   == B(1, {ka})
one_b   == B(1, {kb})
two_ab  == B(2, {ka, kb})
two_a   == B(2, {ka})
two_c   == B(2, {kc})
nothing == B(0, {})
too_big == B(3, {ka})
long    == [B(1, {kb}) EXCEPT !.val_sz = 6]   \* the value does not fit, the key does

\* Chunks that fill up exactly, that are left half full, a block without rows
\* at the end, the limits exceeded by a block and by the keys.
ManyInputs ==
    { <<>>,
      <<one_a, two_ab, one_b, one_a>>,
      <<two_ab, two_ab, nothing>>,
      <<one_a, two_a, two_a, two_a, one_b>>,
      <<nothing>>,
      <<one_a, nothing, one_b>>,
      <<one_a, too_big>>,
      <<one_a, long>>,
      <<two_ab, two_c>> }

\* Two chunks get different keys.
FewInputs == { <<two_a, one_b>>, <<one_a, one_a, nothing, one_b>> }
=============================================================================
