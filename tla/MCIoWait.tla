----------------------------- MODULE MCIoWait -----------------------------
(* Two CPUs and two threads of two processes that fight for the one entry  *)
(* of IOWAIT_NS; the .cfg files give them one stamp slot or one each.      *)
EXTENDS IoWait, TLC

CONSTANTS t1, t2, p1, p2, c1, c2

MCGroup == (t1 :> p1) @@ (t2 :> p2)
MCSymmetry == Permutations({c1, c2})
=============================================================================
