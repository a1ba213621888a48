---------------------------- MODULE MCBatchWalk ----------------------------
(* Three keys in a map of two buckets, calls of two entries: the second    *)
(* bucket may not fit behind the first one, and is then a call of its own. *)
EXTENDS BatchWalk

CONSTANTS k1, k2, k3, none

MCBucket == [k \in {k1, k2, k3} |-> IF k = k1 THEN 1 ELSE 2]
=============================================================================
