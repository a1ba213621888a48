------------------------------- MODULE Report -------------------------------
(***************************************************************************)
(* What a tick reports: the two counters diffed into shares of the         *)
(* interval (metrics/cpu.rs, metrics/iowait.rs), the processes worth a row *)
(* and the snapshot made of them (backend.rs).  The read of the CPU        *)
(* counters is taken to be exact, in flight and all (InflightRead), the    *)
(* one of the I/O counters has a wait once it is over (IoWait); either may *)
(* stop half way (BatchWalk).                                              *)
(*                                                                         *)
(* Time goes in units.  A share is kept in twelfths of a percent, exact    *)
(* for intervals of up to six units.  A value that may be missing is a     *)
(* set of at most one.                                                     *)
(***************************************************************************)
EXTENDS Naturals, FiniteSets, FiniteSetsExt, Functions

CONSTANTS
    Procs,
    MAX_ROWS,
    MaxTime         \* bound: units of time

ASSUME ReportAssumption == IsFiniteSet(Procs) /\ MAX_ROWS \in Nat \ {0} /\ MaxTime \in 1..6

VARIABLES
    clock,
    doing,          \* process -> idle, run, wait
    blocked,        \* process -> the units of its wait so far
    CPU_NS, IOWAIT_NS,          \* the kernel's maps: tgid -> units
    capacity, online,           \* entries of a map; CPUs
    tick,           \* a tick's progress: none, cpu (the CPU counters are read)
    cpu_prev, io_prev,          \* Snapshot: [at, by_pid]
    cpu,            \* this tick's CPU deltas, until its end
    snapshot,       \* SystemState: the last one published
    waited,         \* history: process -> units it has waited
    billed,         \* history: process -> units the deltas have shown
    first,          \* history: process -> its counter when first seen
    lost,           \* history: whose waits an eviction or a short read dropped
    ran,            \* history: process -> units it ran since the last read
    due             \* history: the shares the tick has to show, [cpu, io]

kernel == <<doing, blocked, CPU_NS, IOWAIT_NS>>
collector == <<tick, cpu_prev, io_prev, cpu, snapshot>>
history == <<waited, billed, first, lost, ran, due>>
report == <<clock, kernel, capacity, online, collector, history>>

None == {}
Some(v) == {v}
value(s) == CHOOSE v \in s : TRUE
Empty == [p \in {} |-> 0]
Default == [at |-> None, by_pid |-> Empty]

(* Collector::new, over empty maps. *)
Fresh ==
    /\ clock = 0
    /\ doing = [p \in Procs |-> "idle"] /\ blocked = [p \in Procs |-> 0]
    /\ CPU_NS = Empty /\ IOWAIT_NS = Empty
    /\ capacity = 0 /\ online = 0
    /\ tick = "none" /\ cpu_prev = Default /\ io_prev = Default
    /\ cpu = Empty /\ snapshot = None
    /\ waited = [p \in Procs |-> 0] /\ billed = waited /\ first = Empty
    /\ lost = {} /\ ran = waited /\ due = [cpu |-> Empty, io |-> Empty]

(* The collector is dropped, and the maps with the hooks.                  *)
Gone ==
    /\ clock' = 0
    /\ doing' = [p \in Procs |-> "idle"] /\ blocked' = [p \in Procs |-> 0]
    /\ CPU_NS' = Empty /\ IOWAIT_NS' = Empty
    /\ capacity' = 0 /\ online' = 0
    /\ tick' = "none" /\ cpu_prev' = Default /\ io_prev' = Default
    /\ cpu' = Empty /\ snapshot' = None
    /\ waited' = [p \in Procs |-> 0] /\ billed' = waited' /\ first' = Empty
    /\ lost' = {} /\ ran' = waited' /\ due' = [cpu |-> Empty, io |-> Empty]

Counter(f) == DOMAIN f \subseteq Procs /\ \A p \in DOMAIN f : f[p] \in 0..MaxTime

ReportTypeOK ==
    /\ clock \in 0..MaxTime /\ tick \in {"none", "cpu"}
    /\ doing \in [Procs -> {"idle", "run", "wait"}] /\ blocked \in [Procs -> 0..MaxTime]
    /\ Counter(CPU_NS) /\ Counter(IOWAIT_NS)
    /\ \A prev \in {cpu_prev, io_prev} : Counter(prev.by_pid)
    /\ waited \in [Procs -> 0..MaxTime] /\ lost \subseteq Procs
    /\ \A s \in snapshot :
          /\ Cardinality(s.processes) <= 2 * MAX_ROWS
          /\ s.tracked <= Cardinality(Procs)

-----------------------------------------------------------------------------
(* The machine. *)

(* The hooks' in-place add, or an insert, which evicts from a full LRU map.*)
Charge(map, p, n, new) ==
    IF p \in DOMAIN map THEN new = [map EXCEPT ![p] = @ + n]
    ELSE IF Cardinality(DOMAIN map) < capacity THEN new = [q \in DOMAIN map \cup {p} |-> IF q = p THEN n ELSE map[q]]
    ELSE \E victim \in DOMAIN map :
            new = [q \in (DOMAIN map \ {victim}) \cup {p} |-> IF q = p THEN n ELSE map[q]]

(* A unit of time: each process runs, waits or does neither, and a wait is *)
(* billed when it ends.  There is one CPU to run on, and one process at    *)
(* most turns to something else with the unit.                             *)
Elapse ==
    /\ clock < MaxTime
    /\ clock' = clock + 1
    /\ doing' \in [Procs -> {"idle", "run", "wait"}]
    /\ LET runs == {p \in Procs : doing'[p] = "run"}
           waits == {p \in Procs : doing'[p] = "wait"}
           woken == {p \in Procs \ waits : doing[p] = "wait"} IN
          /\ Cardinality(runs) <= 1 /\ Cardinality({p \in Procs : doing'[p] # doing[p]}) <= 1
          /\ IF runs = {} THEN CPU_NS' = CPU_NS
             ELSE \E p \in runs : Charge(CPU_NS, p, 1, CPU_NS')
          /\ IF woken = {} THEN IOWAIT_NS' = IOWAIT_NS
             ELSE \E p \in woken : Charge(IOWAIT_NS, p, blocked[p], IOWAIT_NS')
          /\ blocked' = [p \in Procs |-> IF p \in waits THEN blocked[p] + 1 ELSE 0]
          /\ waited' = [p \in Procs |-> IF p \in waits THEN waited[p] + 1 ELSE waited[p]]
          /\ ran' = [p \in Procs |-> IF p \in runs THEN ran[p] + 1 ELSE ran[p]]
    /\ lost' = lost \cup (DOMAIN IOWAIT_NS \ DOMAIN IOWAIT_NS')
    /\ UNCHANGED <<capacity, online, collector, billed, first, due>>

-----------------------------------------------------------------------------
(* A tick. *)

elapsed_ns_since(now, prev) == IF prev.at = None THEN 0 ELSE value(now.at) - value(prev.at)

Less(a, b) == IF a < b THEN 0 ELSE a - b       \* saturating_sub

Percent(now, was, elapsed) == (1200 * Less(now, was)) \div elapsed

(* Seeded fault: a first sight is a delta from zero.                       *)
IoDeltas_FromZero(current) ==
    LET elapsed == elapsed_ns_since(current, io_prev) IN
    [p \in IF elapsed > 0 THEN DOMAIN current.by_pid ELSE {} |->
        Percent(current.by_pid[p], IF p \in DOMAIN io_prev.by_pid THEN io_prev.by_pid[p] ELSE 0, elapsed)]

(* IoWaitCollector::deltas: only what the last snapshot had. *)
IoDeltas(current) ==
    LET elapsed == elapsed_ns_since(current, io_prev) IN
    [p \in IF elapsed > 0 THEN DOMAIN current.by_pid \cap DOMAIN io_prev.by_pid ELSE {} |->
        Percent(current.by_pid[p], io_prev.by_pid[p], elapsed)]

(* CpuCollector::deltas: 0 at first sight. *)
CpuDeltas(current) ==
    LET elapsed == elapsed_ns_since(current, cpu_prev) IN
    [p \in DOMAIN current.by_pid |->
        IF p \in DOMAIN cpu_prev.by_pid /\ elapsed > 0
        THEN Percent(current.by_pid[p], cpu_prev.by_pid[p], elapsed) ELSE 0]

(* A read of a map, in which a failed call leaves out what was to come.    *)
Read(map, keys) == [at |-> Some(clock), by_pid |-> Restrict(map, keys)]

(* A tick begins a second after the last one.                              *)
ReadCpu ==
    /\ tick = "none" /\ (\A t \in cpu_prev.at : clock > t)
    /\ tick' = "cpu"
    /\ \E keys \in SUBSET DOMAIN CPU_NS :
          LET now == Read(CPU_NS, keys) IN
          /\ cpu_prev' = now
          /\ cpu' = CpuDeltas(now)
          /\ due' = [cpu |-> [p \in IF keys = DOMAIN CPU_NS THEN keys \cup DOMAIN cpu_prev.by_pid ELSE {} |->
                                 IF p \in DOMAIN cpu_prev.by_pid
                                 THEN Percent(ran[p], 0, clock - value(cpu_prev.at)) ELSE 0],
                     io |-> Empty]
    /\ ran' = [p \in Procs |-> 0]
    /\ UNCHANGED <<clock, kernel, capacity, online, io_prev, snapshot, waited, billed, first, lost>>

(* Seeded fault: the lowest values are taken for the highest.              *)
top_pids_Lowest(values) ==
    {s \in SUBSET DOMAIN values :
        /\ Cardinality(s) = Min({MAX_ROWS, Cardinality(DOMAIN values)})
        /\ \A p \in s, q \in DOMAIN values \ s : values[p] <= values[q]}

(* The sets select_nth_unstable_by may leave before the cut: the highest,  *)
(* with ties in no order.                                                  *)
top_pids(values) ==
    {s \in SUBSET DOMAIN values :
        /\ Cardinality(s) = Min({MAX_ROWS, Cardinality(DOMAIN values)})
        /\ \A p \in s, q \in DOMAIN values \ s : values[p] >= values[q]}

(* enrich; a process that has gone has no RSS. *)
enrich(p, io) ==
    [pid |-> p, cpu |-> IF p \in DOMAIN cpu THEN cpu[p] ELSE 0,
     io |-> IF p \in DOMAIN io THEN Some(io[p]) ELSE None]

Total(values) == SumFunctionOnSet(values, DOMAIN values)

(* The rest of Collector::tick but for the reap in its middle (140-146):   *)
(* no process of this module exits, so the ring is empty.  Exits and the   *)
(* reap are in ReapCycle.                                                  *)
Publish ==
    /\ tick = "cpu"
    /\ tick' = "none" /\ cpu' = Empty
    /\ \E keys \in SUBSET DOMAIN IOWAIT_NS :
          LET now == Read(IOWAIT_NS, keys) io == IoDeltas(now)
              elapsed == elapsed_ns_since(now, io_prev) IN
          /\ io_prev' = now
          /\ \E by_cpu \in top_pids(cpu), by_io \in top_pids(io) :
                snapshot' = Some([processes |-> {enrich(p, io) : p \in by_cpu \cup by_io},
                             total_cpu |-> Total(cpu) \div online, total_io |-> Total(io),
                             tracked |-> Cardinality(DOMAIN cpu),
                             at_capacity |-> Cardinality(DOMAIN cpu) >= capacity])
          /\ billed' = [p \in Procs |-> IF p \in DOMAIN io THEN billed[p] + (io[p] * elapsed) \div 1200
                                        ELSE billed[p]]
          /\ first' = [p \in keys \cup DOMAIN first |-> IF p \in DOMAIN first THEN first[p] ELSE IOWAIT_NS[p]]
          /\ lost' = lost \cup (DOMAIN IOWAIT_NS \ keys)
          /\ due' = [due EXCEPT !.io = io]
    /\ UNCHANGED <<clock, kernel, capacity, online, cpu_prev, waited, ran>>

-----------------------------------------------------------------------------
(* The processes with the most CPU time and the most waiting billed in the *)
(* interval, of those the last tick had, have a row that says how much.    *)
(* Unless the read stopped half way, only a snapshot that says it is at    *)
(* capacity may be wrong about the CPU time.                               *)
Leads(p, values) == Cardinality({q \in DOMAIN values \ {p} : values[q] >= values[p]}) < MAX_ROWS
TopIsListed ==
    tick = "none" => \A s \in snapshot :
        /\ \A p \in DOMAIN due.io : Leads(p, due.io) =>
              \E row \in s.processes : row.pid = p /\ row.io = Some(due.io[p])
        /\ ~s.at_capacity => \A p \in DOMAIN due.cpu : Leads(p, due.cpu) =>
              \E row \in s.processes : row.pid = p /\ row.cpu = due.cpu[p]

(* A wait is billed at its end, whichever ticks it spans, so what the      *)
(* ticks have shown of a process, what it had when first seen, what they   *)
(* have not read yet and the wait it is in make up all it has waited; with *)
(* evictions or reads cut short, never more.                               *)
WaitsAreShownOnce ==
    tick = "none" => \A p \in Procs :
        /\ billed[p] <= waited[p]
        /\ p \in DOMAIN first \ lost =>
              first[p] + billed[p] + (IOWAIT_NS[p] - io_prev.by_pid[p]) + blocked[p] = waited[p]
=============================================================================
