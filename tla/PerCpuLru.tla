----------------------------- MODULE PerCpuLru -----------------------------
(***************************************************************************)
(* BPF_MAP_TYPE_LRU_PERCPU_HASH as the eBPF hooks use it (CPU_NS in        *)
(* cpu.rs, IOWAIT_NS in iowait.rs): a partial function from keys to one    *)
(* counter per CPU.  The kernel's map is not under src/; it is modelled    *)
(* from the get_ptr_mut / insert pair the hooks call and from the comments *)
(* on both maps.                                                           *)
(***************************************************************************)
EXTENDS Naturals, FiniteSets

CONSTANTS
    Cpus,
    MaxEntries      \* capacity of the map

ASSUME MaxEntriesAssumption == MaxEntries \in Nat \ {0}

Slots == [Cpus -> Nat]

(* What an insertion leaves of the other entries: all of them while there  *)
(* is room, else all but one.  Which one is the kernel's approximate LRU.  *)
Survivors(m) ==
    IF Cardinality(DOMAIN m) < MaxEntries
    THEN {DOMAIN m}
    ELSE {DOMAIN m \ {victim} : victim \in DOMAIN m}

(* A fresh entry written from CPU c: the other CPUs' slots are 0.          *)
FreshSlots(c, amount) == [k \in Cpus |-> IF k = c THEN amount ELSE 0]

(* The maps m can become when `amount` is added to p's slot of CPU c: an   *)
(* in-place add on a live entry, an insertion otherwise.                   *)
Charged(m, p, c, amount) ==
    IF p \in DOMAIN m
    THEN {[m EXCEPT ![p][c] = @ + amount]}
    ELSE {[q \in kept \cup {p} |->
              IF q = p THEN FreshSlots(c, amount) ELSE m[q]] : kept \in Survivors(m)}

Without(m, p) == [q \in DOMAIN m \ {p} |-> m[q]]

(* The slot of one key on one CPU, and what of it leaves when m becomes n. *)
Held(m, p, c) == IF p \in DOMAIN m THEN m[p][c] ELSE 0
Left(m, n, p, c) == IF p \in DOMAIN m \ DOMAIN n THEN m[p][c] ELSE 0
=============================================================================
