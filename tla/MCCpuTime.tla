---------------------------- MODULE MCCpuTime ----------------------------
(* Two CPUs, two processes, one of them with two threads; one-entry map,   *)
(* so every insertion of the other process evicts.                         *)
EXTENDS CpuTime, TLC

CONSTANTS t1, t2, t3, p1, p2, c1, c2

MCGroup == (t1 :> p1) @@ (t2 :> p1) @@ (t3 :> p2)
=============================================================================
