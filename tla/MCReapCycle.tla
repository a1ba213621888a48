---------------------------- MODULE MCReapCycle ----------------------------
(* One pid used by up to three processes of two threads: the .cfg files    *)
(* choose how often the pid is reused, and how the ring and the budget     *)
(* compare with the number of exits.                                       *)
EXTENDS ReapCycle

CONSTANTS p1
=============================================================================
