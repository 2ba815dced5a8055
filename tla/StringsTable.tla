---------------------------- MODULE StringsTable ----------------------------
(***************************************************************************)
(* What the table of string keys promises its callers: a call of addData   *)
(* takes its whole batch at once, and fails exactly when the result would  *)
(* be too large, in distinct keys or in the space they take.               *)
(***************************************************************************)
EXTENDS Naturals, FiniteSets, FiniteSetsExt

CONSTANTS Key, Size, MaxKeys, MaxSize, KeySets

VARIABLES
    keys,       \* the keys of the table
    request,    \* the keys of the call that is being served, or None
    failed      \* the last call threw

tvars == <<keys, request, failed>>

None == {{}}
TotalSize(S) == MapThenSumSet(LAMBDA k : Size[k], S)
Fits(S) == Cardinality(S) <= MaxKeys /\ TotalSize(S) <= MaxSize

Init == keys = {} /\ request = None /\ failed = FALSE

Call ==
    /\ ~failed /\ request = None
    /\ request' \in KeySets
    /\ UNCHANGED <<keys, failed>>

Return ==
    /\ request # None /\ Fits(keys \cup request)
    /\ keys' = keys \cup request
    /\ request' = None
    /\ UNCHANGED failed

Throw ==
    /\ request # None /\ ~Fits(keys \cup request)
    /\ failed' = TRUE
    /\ request' = None
    /\ UNCHANGED keys

Erase ==
    /\ ~failed /\ request = None
    /\ keys' = {}
    /\ UNCHANGED <<request, failed>>

Next == Call \/ Return \/ Throw \/ Erase

Spec == Init /\ [][Next]_tvars
=============================================================================
