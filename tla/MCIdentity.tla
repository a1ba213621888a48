----------------------------- MODULE MCIdentity -----------------------------
(* Two pids, one entry of COMM_MAP or two, one ring record: names, pids    *)
(* and map entries are all reused.                                         *)
EXTENDS Identity, TLC

CONSTANTS p1, p2, root, user

MCSymmetry == Permutations({p1, p2}) \cup Permutations({root, user})
=============================================================================
