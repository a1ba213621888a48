-------------------------- MODULE MCInflightRead --------------------------
(* Two CPUs that share two processes.                                      *)
EXTENDS InflightRead, TLC

CONSTANTS p1, p2, c1, c2

MCSymmetry == Permutations({c1, c2}) \cup Permutations({p1, p2})
=============================================================================
