----------------------------- MODULE MCConsole -----------------------------
(* Snapshots of one or two processes, one that waits and one busy that     *)
(* never did, whose ranks differ by column; a filter keeps one.            *)
EXTENDS Console

CONSTANTS a1, a2, a3, fio, cc1plus

Row(pid, cpu, mem, io) == [pid |-> pid, cpu |-> cpu, mem |-> mem, io |-> io]

MCContents ==
    {[processes |-> <<Row(fio, 50, {2}, {900})>>, cpu |-> 50, available |-> {0}, at_capacity |-> TRUE],
     [processes |-> <<Row(fio, 50, {}, {650}), Row(cc1plus, 800, {512}, {})>>,
      cpu |-> 1200, available |-> {}, at_capacity |-> FALSE]}

MCMatching == [f \in 0..MaxFilter |-> IF f = 0 THEN {fio, cc1plus} ELSE {cc1plus}]
=============================================================================
