---------------------------- MODULE InflightRead ----------------------------
(***************************************************************************)
(* The collector's CPU read against the hot path it races, one memory      *)
(* access at a time.  The sched_switch hook writes CPU_NS, START_TIME and  *)
(* CURRENT_TGID in that order (charge_out, mark_in in                      *)
(* truetop-ebpf/src/cpu.rs); CpuMaps::read (truetop/src/cpu_maps.rs) reads *)
(* CPU_NS entry by entry, then CURRENT_TGID and then START_TIME CPU by     *)
(* CPU, then the clock.  Nothing locks them against each other.            *)
(*                                                                         *)
(* Each process has one entry with the sum of its slots: no eviction and   *)
(* no recycled pid in this module.  Every access of the read succeeds: one *)
(* whose slots cannot be read (cpu_maps.rs:61-64) shows the counters       *)
(* without a correction, which is in ReapCycle.                            *)
(*                                                                         *)
(* owner, ran, tenure, tenureRead, began, quiet, stuck and doubled are     *)
(* history variables.                                                      *)
(***************************************************************************)
EXTENDS Naturals, FiniteSets

CONSTANTS
    Cpus,
    Procs,
    Idle,           \* tgid 0
    MaxClock,       \* bound on the clock
    MaxSwitches     \* bound on the switches of each CPU

ASSUME IdleAssumption == Idle \notin Procs
ASSUME CpusAssumption == IsFiniteSet(Cpus)
ASSUME BoundsAssumption == MaxClock \in Nat \ {0} /\ MaxSwitches \in Nat

VARIABLES
    now,
    CPU_NS,         \* accumulated time by process
    START_TIME,     \* per-CPU stamp
    CURRENT_TGID,   \* per-CPU tgid
    hook,           \* per CPU: where its hook is, the time it sampled, and
                    \* the tgids it switches between
    reader,         \* where the read is: idle, counters, tgids, starts, clock
    todo,           \* processes or CPUs the current stage has still to read
    counters,       \* what it has read of CPU_NS
    tgids,          \* what it has read of CURRENT_TGID
    starts,         \* what it has read of START_TIME
    snapshot,       \* the last finished read, by process
    owner,          \* the process each CPU's time belongs to
    ran,            \* CPU time each process has used
    tenure,         \* when the switch that wrote CURRENT_TGID happened
    tenureRead,     \* tenure at the time the reader read CURRENT_TGID
    began,          \* when the read, or a hook it overlaps, began
    quiet,          \* no hook ran during the read
    stuck,          \* CPUs whose hook had billed its slice, and not yet
                    \* replaced it in the slots, when that bill was read
    doubled,        \* such a hook was still there when CURRENT_TGID was read
    switches        \* switches of each CPU so far

maps == <<CPU_NS, START_TIME, CURRENT_TGID>>
reading == <<reader, todo, counters, tgids, starts, snapshot, tenureRead, began>>
race == <<quiet, stuck, doubled>>
vars == <<now, maps, hook, reading, owner, ran, tenure, race, switches>>

Tgids == Procs \cup {Idle}
Stages == {"off", "charge", "start", "current"}
Hooks == [at : Stages, time : Nat, prev : Tgids, next : Tgids]
NoHook == [at |-> "off", time |-> 0, prev |-> Idle, next |-> Idle]
Zero == [p \in Procs |-> 0]
ZeroCpu == [c \in Cpus |-> 0]

TypeOK ==
    /\ now \in 1..MaxClock
    /\ CPU_NS \in [Procs -> Nat]
    /\ START_TIME \in [Cpus -> Nat]
    /\ CURRENT_TGID \in [Cpus -> Tgids]
    /\ hook \in [Cpus -> Hooks]
    /\ reader \in {"idle", "counters", "tgids", "starts", "clock"}
    /\ todo \subseteq Procs \cup Cpus
    /\ counters \in [Procs -> Nat]
    /\ tgids \in [Cpus -> Tgids]
    /\ starts \in [Cpus -> Nat]
    /\ snapshot \in [Procs -> Nat]
    /\ owner \in [Cpus -> Tgids]
    /\ ran \in [Procs -> Nat]
    /\ tenure \in [Cpus -> Nat] /\ tenureRead \in [Cpus -> Nat]
    /\ began \in Nat
    /\ quiet \in BOOLEAN /\ doubled \in BOOLEAN /\ stuck \subseteq Cpus
    /\ switches \in [Cpus -> 0..MaxSwitches]

(* The CPUs idle and every CPU has been stamped at some time in the past   *)
(* or never.                                                               *)
Init ==
    /\ now = 1
    /\ CPU_NS = Zero
    /\ START_TIME \in [Cpus -> {0, 1}]
    /\ CURRENT_TGID = [c \in Cpus |-> Idle]
    /\ hook = [c \in Cpus |-> NoHook]
    /\ reader = "idle" /\ todo = {}
    /\ counters = Zero
    /\ tgids = [c \in Cpus |-> Idle] /\ starts = ZeroCpu
    /\ snapshot = Zero
    /\ owner = [c \in Cpus |-> Idle]
    /\ ran = Zero
    /\ tenure = ZeroCpu /\ tenureRead = ZeroCpu
    /\ began = 0 /\ quiet = TRUE /\ stuck = {} /\ doubled = FALSE
    /\ switches = ZeroCpu

Tick ==
    /\ now < MaxClock
    /\ now' = now + 1
    /\ ran' = [p \in Procs |-> ran[p] + Cardinality({c \in Cpus : owner[c] = p})]
    /\ UNCHANGED <<maps, hook, reading, owner, tenure, race, switches>>

-----------------------------------------------------------------------------
(* The hook on CPU c, from its clock sample to its last store. *)

EnterHook(c, next) ==
    /\ hook[c].at = "off" /\ switches[c] < MaxSwitches
    /\ next # owner[c]
    /\ hook' = [hook EXCEPT ![c] =
          [at |-> "charge", time |-> now, prev |-> owner[c], next |-> next]]
    /\ owner' = [owner EXCEPT ![c] = next]
    /\ switches' = [switches EXCEPT ![c] = @ + 1]
    /\ quiet' = FALSE
    /\ UNCHANGED <<now, maps, reading, ran, tenure, stuck, doubled>>

(* Seeded faults: the subtraction is swapped; the incoming process pays.   *)
charge_out_Swapped(c) ==
    /\ hook[c].at = "charge"
    /\ CPU_NS' = IF hook[c].prev = Idle \/ START_TIME[c] = 0 THEN CPU_NS
                 ELSE [CPU_NS EXCEPT ![hook[c].prev] = @ + START_TIME[c] - hook[c].time]
    /\ hook' = [hook EXCEPT ![c].at = "start"]
    /\ quiet' = FALSE
    /\ UNCHANGED <<now, START_TIME, CURRENT_TGID, reading, owner, ran, tenure, switches, stuck, doubled>>
charge_out_Incoming(c) ==
    /\ hook[c].at = "charge"
    /\ CPU_NS' = IF hook[c].next = Idle \/ START_TIME[c] = 0 THEN CPU_NS
                 ELSE [CPU_NS EXCEPT ![hook[c].next] = @ + hook[c].time - START_TIME[c]]
    /\ hook' = [hook EXCEPT ![c].at = "start"]
    /\ quiet' = FALSE
    /\ UNCHANGED <<now, START_TIME, CURRENT_TGID, reading, owner, ran, tenure, switches, stuck, doubled>>

charge_out(c) ==
    /\ hook[c].at = "charge"
    /\ CPU_NS' = IF hook[c].prev = Idle \/ START_TIME[c] = 0 THEN CPU_NS
                 ELSE [CPU_NS EXCEPT ![hook[c].prev] = @ + hook[c].time - START_TIME[c]]
    /\ hook' = [hook EXCEPT ![c].at = "start"]
    /\ quiet' = FALSE
    /\ UNCHANGED <<now, START_TIME, CURRENT_TGID, reading, owner, ran, tenure, switches, stuck, doubled>>

(* Seeded fault: a slot once stamped is not stamped again.                 *)
mark_in_start_Once(c) ==
    /\ hook[c].at = "start"
    /\ START_TIME' = IF hook[c].next = Idle \/ START_TIME[c] # 0 THEN START_TIME
                     ELSE [START_TIME EXCEPT ![c] = hook[c].time]
    /\ hook' = [hook EXCEPT ![c].at = "current"]
    /\ quiet' = FALSE
    /\ stuck' = IF hook[c].next = Idle THEN stuck ELSE stuck \ {c}
    /\ UNCHANGED <<now, CPU_NS, CURRENT_TGID, reading, owner, ran, tenure, switches, doubled>>

mark_in_start(c) ==
    /\ hook[c].at = "start"
    /\ START_TIME' = IF hook[c].next = Idle THEN START_TIME
                     ELSE [START_TIME EXCEPT ![c] = hook[c].time]
    /\ hook' = [hook EXCEPT ![c].at = "current"]
    /\ quiet' = FALSE
    /\ stuck' = IF hook[c].next = Idle THEN stuck ELSE stuck \ {c}
    /\ UNCHANGED <<now, CPU_NS, CURRENT_TGID, reading, owner, ran, tenure, switches, doubled>>

(* Seeded fault: a switch to idle leaves the outgoing tgid in the slot.    *)
mark_in_current_IdleKeeps(c) ==
    /\ hook[c].at = "current"
    /\ CURRENT_TGID' = IF hook[c].next = Idle THEN CURRENT_TGID
                       ELSE [CURRENT_TGID EXCEPT ![c] = hook[c].next]
    /\ tenure' = [tenure EXCEPT ![c] = hook[c].time]
    /\ hook' = [hook EXCEPT ![c] = NoHook]
    /\ quiet' = FALSE
    /\ stuck' = stuck \ {c}
    /\ UNCHANGED <<now, CPU_NS, START_TIME, reading, owner, ran, switches, doubled>>

mark_in_current(c) ==
    /\ hook[c].at = "current"
    /\ CURRENT_TGID' = [CURRENT_TGID EXCEPT ![c] = hook[c].next]
    /\ tenure' = [tenure EXCEPT ![c] = hook[c].time]
    /\ hook' = [hook EXCEPT ![c] = NoHook]
    /\ quiet' = FALSE
    /\ stuck' = stuck \ {c}
    /\ UNCHANGED <<now, CPU_NS, START_TIME, reading, owner, ran, switches, doubled>>

Hook(c) ==
    \/ \E next \in Tgids : EnterHook(c, next)
    \/ charge_out(c) \/ mark_in_start(c) \/ mark_in_current(c)

-----------------------------------------------------------------------------
(* The read. *)

BeginRead ==
    /\ reader = "idle"
    /\ reader' = "counters" /\ todo' = Procs
    /\ began' = CHOOSE t \in 0..now :
          LET opened == {now} \cup {hook[c].time : c \in {k \in Cpus : hook[k].at # "off"}}
          IN  t \in opened /\ \A u \in opened : t <= u
    /\ quiet' = \A c \in Cpus : hook[c].at = "off"
    /\ stuck' = {} /\ doubled' = FALSE
    /\ UNCHANGED <<now, maps, hook, counters, tgids, starts, snapshot, tenureRead,
                   owner, ran, tenure, switches>>

ReadCounter(p) ==
    /\ reader = "counters" /\ p \in todo
    /\ counters' = [counters EXCEPT ![p] = CPU_NS[p]]
    /\ todo' = IF todo = {p} THEN Cpus ELSE todo \ {p}
    /\ reader' = IF todo = {p} THEN "tgids" ELSE reader
    /\ stuck' = stuck \cup
          {c \in Cpus : /\ hook[c].prev = p
                        /\ \/ hook[c].at = "start"
                           \/ hook[c].at = "current" /\ hook[c].next = Idle}
    /\ UNCHANGED <<now, maps, hook, tgids, starts, snapshot, tenureRead, began,
                   owner, ran, tenure, quiet, doubled, switches>>

ReadTgid(c) ==
    /\ reader = "tgids" /\ c \in todo
    /\ tgids' = [tgids EXCEPT ![c] = CURRENT_TGID[c]]
    /\ tenureRead' = [tenureRead EXCEPT ![c] = tenure[c]]
    /\ todo' = IF todo = {c} THEN Cpus ELSE todo \ {c}
    /\ reader' = IF todo = {c} THEN "starts" ELSE reader
    /\ doubled' = (doubled \/ c \in stuck)
    /\ UNCHANGED <<now, maps, hook, counters, starts, snapshot, began,
                   owner, ran, tenure, quiet, stuck, switches>>

ReadStart(c) ==
    /\ reader = "starts" /\ c \in todo
    /\ starts' = [starts EXCEPT ![c] = START_TIME[c]]
    /\ todo' = todo \ {c}
    /\ reader' = IF todo = {c} THEN "clock" ELSE reader
    /\ UNCHANGED <<now, maps, hook, counters, tgids, snapshot, tenureRead, began,
                   owner, ran, tenure, race, switches>>

(* What add_inflight adds for CPU c at time `now`. *)
Bill(c) ==
    IF tgids[c] # Idle /\ starts[c] # 0 /\ now > starts[c] THEN now - starts[c] ELSE 0

(* The sum of the bills of p's CPUs. *)
Bills(p) ==
    LET mine == {c \in Cpus : tgids[c] = p}
    IN  Cardinality({b \in mine \X (1..MaxClock) : b[2] <= Bill(b[1])})

(* monotonic_ns, then the additions, which touch no shared memory. *)
ReadClock ==
    /\ reader = "clock"
    /\ reader' = "idle"
    /\ snapshot' = [p \in Procs |-> counters[p] + Bills(p)]
    /\ UNCHANGED <<now, maps, hook, todo, counters, tgids, starts, tenureRead, began,
                   owner, ran, tenure, race, switches>>

Read ==
    \/ BeginRead \/ ReadClock
    \/ \E p \in Procs : ReadCounter(p)
    \/ \E c \in Cpus : ReadTgid(c) \/ ReadStart(c)

Next ==
    \/ Tick
    \/ \E c \in Cpus : Hook(c)
    \/ Read

Spec == Init /\ [][Next]_vars

-----------------------------------------------------------------------------
(* cpu.rs:58-61: the incoming tgid is never paired with a stale stamp, so  *)
(* no read bills a process time from before the switch that brought it in, *)
(* a long idle gap for instance.                                           *)
IncomingNeverStale ==
    reader = "clock" =>
        \A c \in Cpus : tgids[c] # Idle => starts[c] >= tenureRead[c]

(* What a finished read shows of p over what p really ran, in time per     *)
(* CPU that the read, or a hook under way when it began, lasted.           *)
WithinTheRead(p) ==
    snapshot'[p] <= ran[p] + Cardinality(Cpus) * (now - began)

(* cpu.rs:58-61: a read that races the hooks misattributes no more than    *)
(* the time the race lasted.                                               *)
OverbillIsASliver ==
    [][reader = "clock" /\ reader' = "idle" => \A p \in Procs : WithinTheRead(p)]_vars

(* The same, unless a hook stood between its bill and the stores that      *)
(* retire it from before the bill was read until CURRENT_TGID was.         *)
OverbillIsBoundedByTheRead ==
    [][reader = "clock" /\ reader' = "idle" /\ ~doubled =>
         \A p \in Procs : WithinTheRead(p)]_vars

(* A read no hook overlaps is exact, whatever ran before it.               *)
QuietReadIsExact ==
    [][reader = "clock" /\ reader' = "idle" /\ quiet =>
         \A p \in Procs : snapshot'[p] = ran[p]]_vars
=============================================================================
