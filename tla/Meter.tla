------------------------------- MODULE Meter -------------------------------
(***************************************************************************)
(* What a kernel-side time counter promises user space, whatever the hook  *)
(* that feeds it: for every key (a process and the CPU slot it is counted  *)
(* in) the counter holds a part of the time that was really consumed.      *)
(* Time is counted late, in one piece, and may leave the counter again     *)
(* when the entry is evicted or deleted, but a nanosecond is never counted *)
(* twice, never counted before it was consumed, and never vanishes         *)
(* unaccounted.  truetop-ebpf/src/cpu.rs and iowait.rs both implement it.  *)
(***************************************************************************)
EXTENDS Naturals

CONSTANT Keys

VARIABLES
    consumed,   \* the time the key really consumed
    counted,    \* the part of it the live counter entry shows
    dropped     \* the part that left with an evicted or deleted entry

vars == <<consumed, counted, dropped>>

TypeOK ==
    /\ consumed \in [Keys -> Nat]
    /\ counted \in [Keys -> Nat]
    /\ dropped \in [Keys -> Nat]

Init ==
    /\ consumed = [k \in Keys |-> 0]
    /\ counted = [k \in Keys |-> 0]
    /\ dropped = [k \in Keys |-> 0]

(* Time is consumed, settled late, or leaves with its entry.               *)
Advance ==
    /\ consumed' \in [Keys -> Nat]
    /\ counted' \in [Keys -> Nat]
    /\ dropped' \in [Keys -> Nat]
    /\ \A k \in Keys :
          /\ consumed'[k] >= consumed[k]
          /\ dropped'[k] >= dropped[k]
          /\ counted'[k] + dropped'[k] >= counted[k] + dropped[k]
          /\ counted'[k] + dropped'[k] <= consumed'[k]

Spec == Init /\ [][Advance]_vars
=============================================================================
