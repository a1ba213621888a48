----------------------------- MODULE ReapCycle -----------------------------
(***************************************************************************)
(* One collector tick against the processes that come and go around it:    *)
(* Collector::tick (truetop/src/backend.rs), CpuMaps::read, the CPU deltas *)
(* (metrics/cpu.rs), the exit ring (exit_notify.rs) and Reaper::reap       *)
(* (reaper.rs).                                                            *)
(*                                                                         *)
(* A thread that exits leaves signal->live, then runs the exit hook, and   *)
(* is last seen by its final sched_switch, which still bills its last      *)
(* slice; when all have, the pid is free for the next process.  The tick   *)
(* is not atomic: it reads, then enriches rows from /proc, then drains the *)
(* ring, one record at a time, and the kernel runs on between those steps. *)
(*                                                                         *)
(* One CPU slot stands for the sum over CPUs (CpuTime has the slots), and  *)
(* an in-flight slice, when it is read, is read exactly.  Pids are some of *)
(* the processes of the machine: what the others insert into a full LRU    *)
(* map evicts their entries (cpu.rs:23-29, iowait.rs:30, comm.rs:36), at   *)
(* any time.  A read is one step, and may be cut short by a failed call.   *)
(*                                                                         *)
(* used, reported, usedAtRead, cut, misread and settled are history        *)
(* variables.                                                              *)
(***************************************************************************)
EXTENDS Naturals, Sequences, FiniteSets

CONSTANTS
    Pids,
    RingCapacity,   \* records EXITS holds
    Budget,         \* Reaper::BUDGET
    MaxThreads,     \* bound: threads of a process
    MaxLives,       \* bound: processes that use each pid
    MaxUse          \* bound: CPU time each pid uses

ASSUME RingAssumption == RingCapacity \in Nat \ {0}
ASSUME BudgetAssumption == Budget \in Nat \ {0}
ASSUME BoundsAssumption == MaxThreads \in Nat \ {0} /\ MaxLives \in Nat /\ MaxUse \in Nat

VARIABLES
    live,           \* signal->live of the pid's process, 0 if there is none
    exiting,        \* threads that left it and have not run the exit hook
    leaving,        \* threads that ran the hook and have not left their CPU
    lives,          \* processes that have used the pid so far
    inflight,       \* CPU time of the slices under way
    CPU_NS,         \* pid -> accumulated time; absent = no entry
    IOWAIT_NS,      \* pids with an entry
    COMM_MAP,       \* pid -> which of its processes the name is of
    EXITS,          \* the ring: records [tgid, life]
    phase,          \* where the tick is: idle, read, reap
    left,           \* records the reap may still take
    prev,           \* the CPU collector's baseline
    used,           \* CPU time the pid has used
    reported,       \* CPU time the deltas have reported for the pid; 0
                    \* once it is misread, as there is no bound on it then
    usedAtRead,     \* used at the last read
    cut,            \* pids the last read showed too little of, or whose
                    \* entry was deleted or evicted since
    misread,        \* pids some read has shown only a part of
    settled         \* <<pid, life>> of processes finished at the last read

threads == <<live, exiting, leaving>>
kernel == <<threads, lives, inflight>>
maps == <<CPU_NS, IOWAIT_NS, COMM_MAP, EXITS>>
collector == <<phase, left, prev>>
history == <<used, reported, usedAtRead, cut, misread, settled>>
vars == <<kernel, maps, collector, history>>

Records == [tgid : Pids, life : 1..MaxLives]

TypeOK ==
    /\ live \in [Pids -> 0..MaxThreads]
    /\ exiting \in [Pids -> 0..MaxThreads]
    /\ leaving \in [Pids -> 0..MaxThreads]
    /\ lives \in [Pids -> 0..MaxLives]
    /\ inflight \in [Pids -> Nat]
    /\ DOMAIN CPU_NS \subseteq Pids /\ CPU_NS \in [DOMAIN CPU_NS -> Nat]
    /\ IOWAIT_NS \subseteq Pids
    /\ DOMAIN COMM_MAP \subseteq Pids /\ COMM_MAP \in [DOMAIN COMM_MAP -> 1..MaxLives]
    /\ EXITS \in Seq(Records) /\ Len(EXITS) <= RingCapacity
    /\ phase \in {"idle", "read", "reap"}
    /\ left \in 0..Budget
    /\ DOMAIN prev \subseteq Pids /\ prev \in [DOMAIN prev -> Nat]
    /\ used \in [Pids -> Nat] /\ reported \in [Pids -> Nat]
    /\ usedAtRead \in [Pids -> Nat]
    /\ cut \subseteq Pids /\ misread \subseteq Pids
    /\ settled \subseteq Pids \X (1..MaxLives)

Nothing == [p \in {} |-> 0]

Init ==
    /\ live = [p \in Pids |-> 0]
    /\ exiting = [p \in Pids |-> 0]
    /\ leaving = [p \in Pids |-> 0]
    /\ lives = [p \in Pids |-> 0]
    /\ inflight = [p \in Pids |-> 0]
    /\ CPU_NS = Nothing /\ IOWAIT_NS = {} /\ COMM_MAP = Nothing
    /\ EXITS = <<>>
    /\ phase = "idle" /\ left = 0 /\ prev = Nothing
    /\ used = [p \in Pids |-> 0]
    /\ reported = [p \in Pids |-> 0]
    /\ usedAtRead = [p \in Pids |-> 0]
    /\ cut = {} /\ misread = {} /\ settled = {}

With(m, p, v) == [q \in DOMAIN m \cup {p} |-> IF q = p THEN v ELSE m[q]]
Without(m, p) == [q \in DOMAIN m \ {p} |-> m[q]]
ValueOf(m, p) == IF p \in DOMAIN m THEN m[p] ELSE 0

-----------------------------------------------------------------------------
(* The kernel. *)

Left(p) == live[p] + exiting[p] + leaving[p]
Free(p) == Left(p) = 0

(* The fork hook names the child; a recycled pid starts a new life.        *)
Fork(p) ==
    /\ Free(p) /\ lives[p] < MaxLives
    /\ live' = [live EXCEPT ![p] = 1]
    /\ lives' = [lives EXCEPT ![p] = @ + 1]
    /\ COMM_MAP' = With(COMM_MAP, p, lives[p] + 1)
    /\ UNCHANGED <<exiting, leaving, inflight, CPU_NS, IOWAIT_NS, EXITS, collector, history>>

(* A new thread fires the same hook, under its group's tgid.               *)
Clone(p) ==
    /\ live[p] > 0 /\ Left(p) < MaxThreads
    /\ live' = [live EXCEPT ![p] = @ + 1]
    /\ COMM_MAP' = With(COMM_MAP, p, lives[p])
    /\ UNCHANGED <<exiting, leaving, lives, inflight, CPU_NS, IOWAIT_NS, EXITS, collector, history>>

Run(p) ==
    /\ ~Free(p) /\ used[p] < MaxUse
    /\ inflight' = [inflight EXCEPT ![p] = @ + 1]
    /\ used' = [used EXCEPT ![p] = @ + 1]
    /\ UNCHANGED <<threads, lives, maps, collector, reported, usedAtRead, cut, misread, settled>>

(* charge_out: the slice of one thread goes to the entry, which is created *)
(* if absent: one that was evicted starts again from this slice.           *)
Bill(p, slice) ==
    /\ CPU_NS' = With(CPU_NS, p, ValueOf(CPU_NS, p) + slice)
    /\ inflight' = [inflight EXCEPT ![p] = @ - slice]

SwitchOut(p) ==
    /\ ~Free(p)
    /\ \E slice \in 1..inflight[p] : Bill(p, slice)
    /\ UNCHANGED <<threads, lives, IOWAIT_NS, COMM_MAP, EXITS, collector, history>>

(* A D-state wait of the process ends: its IOWAIT_NS entry exists.         *)
EndWait(p) ==
    /\ ~Free(p) /\ p \notin IOWAIT_NS
    /\ IOWAIT_NS' = IOWAIT_NS \cup {p}
    /\ UNCHANGED <<kernel, CPU_NS, COMM_MAP, EXITS, collector, history>>

(* Another process's insertion into a full map takes the entry of this one *)
(* for the coldest.                                                        *)
Evict(p) ==
    /\ \/ /\ p \in DOMAIN CPU_NS
          /\ CPU_NS' = Without(CPU_NS, p) /\ cut' = cut \cup {p}
          /\ UNCHANGED <<IOWAIT_NS, COMM_MAP>>
       \/ /\ p \in IOWAIT_NS
          /\ IOWAIT_NS' = IOWAIT_NS \ {p}
          /\ UNCHANGED <<CPU_NS, COMM_MAP, cut>>
       \/ /\ p \in DOMAIN COMM_MAP
          /\ COMM_MAP' = Without(COMM_MAP, p)
          /\ UNCHANGED <<CPU_NS, IOWAIT_NS, cut>>
    /\ UNCHANGED <<kernel, EXITS, collector, used, reported, usedAtRead, misread, settled>>

(* do_exit takes the thread out of signal->live before the tracepoint.     *)
ExitThread(p) ==
    /\ live[p] > 0
    /\ live' = [live EXCEPT ![p] = @ - 1]
    /\ exiting' = [exiting EXCEPT ![p] = @ + 1]
    /\ UNCHANGED <<leaving, lives, inflight, maps, collector, history>>

(* Seeded fault: any thread's exit counts as its group's.                  *)
group_is_dead_AnyThread(p) == TRUE

(* Task::group_is_dead. *)
group_is_dead(p) == live[p] = 0

(* exit_notify::announce: a full ring drops the record.                    *)
announce(p) ==
    EXITS' = IF Len(EXITS) < RingCapacity
             THEN Append(EXITS, [tgid |-> p, life |-> lives[p]]) ELSE EXITS

(* sched_process_exit: of the last threads to go, every one whose hook     *)
(* finds the group dead announces it.                                      *)
ExitHook(p) ==
    /\ exiting[p] > 0
    /\ exiting' = [exiting EXCEPT ![p] = @ - 1]
    /\ leaving' = [leaving EXCEPT ![p] = @ + 1]
    /\ IF group_is_dead(p) THEN announce(p) ELSE UNCHANGED EXITS
    /\ UNCHANGED <<live, lives, inflight, CPU_NS, IOWAIT_NS, COMM_MAP, collector, history>>

(* The dying thread's last sched_switch; the last one of all leaves        *)
(* nothing in flight.                                                      *)
LastSwitch(p) ==
    /\ leaving[p] > 0
    /\ leaving' = [leaving EXCEPT ![p] = @ - 1]
    /\ \E slice \in 0..inflight[p] :
          /\ Left(p) = 1 => slice = inflight[p]
          /\ IF slice > 0 THEN Bill(p, slice) ELSE UNCHANGED <<CPU_NS, inflight>>
    /\ UNCHANGED <<live, exiting, lives, IOWAIT_NS, COMM_MAP, EXITS, collector, history>>

-----------------------------------------------------------------------------
(* The tick. *)

(* Seeded faults: no in-flight correction; only processes still alive.     *)
Snapshot_NoInflight(keys, running) == [p \in keys |-> CPU_NS[p]]
Snapshot_LiveOnly(keys, running) ==
    [p \in {q \in keys \cup running : live[q] > 0} |->
        (IF p \in keys THEN CPU_NS[p] ELSE 0) + (IF p \in running THEN inflight[p] ELSE 0)]

(* CpuMaps::read: the counters the batch calls returned, each corrected    *)
(* with the slice its process has under way.                               *)
Snapshot(keys, running) ==
    [p \in keys \cup running |->
        (IF p \in keys THEN CPU_NS[p] ELSE 0) + (IF p \in running THEN inflight[p] ELSE 0)]

(* Seeded fault: the counter itself is reported, not its growth.           *)
deltas_Total(current) ==
    [p \in Pids |-> IF p \in DOMAIN current \cap DOMAIN prev THEN current[p] ELSE 0]

(* CpuCollector::deltas: no baseline reads 0, a counter that went          *)
(* backwards reads 0.                                                      *)
deltas(current) ==
    [p \in Pids |->
        IF p \in DOMAIN current \cap DOMAIN prev /\ current[p] > prev[p]
        THEN current[p] - prev[p] ELSE 0]

(* A batch call that fails ends the walk with what it has; a slot read     *)
(* that fails leaves the counters uncorrected (cpu_maps.rs:61-64).         *)
Running == {p \in Pids : inflight[p] > 0}
Read ==
    /\ phase = "idle"
    /\ phase' = "read"
    /\ \E keys \in SUBSET DOMAIN CPU_NS, running \in {Running, {}} :
          /\ prev' = Snapshot(keys, running)
          /\ cut' = (DOMAIN CPU_NS \ keys) \cup (Running \ running)
          /\ misread' = misread \cup (cut' \cap (keys \cup running))
          /\ reported' = [p \in Pids |-> IF p \in misread' THEN 0
                              ELSE reported[p] + deltas(Snapshot(keys, running))[p]]
    /\ usedAtRead' = used
    /\ settled' = {r \in Pids \X (1..MaxLives) :
                      r[2] < lives[r[1]] \/ (r[2] = lives[r[1]] /\ Free(r[1]))}
    /\ UNCHANGED <<kernel, maps, left, used>>

(* Seeded fault: the whole ring is drained, whatever its length.           *)
BeginReap_Unbudgeted ==
    /\ phase = "read"
    /\ phase' = "reap"
    /\ left' = Len(EXITS)
    /\ UNCHANGED <<kernel, maps, prev, history>>

(* Seeded fault: a tick that cannot clear the whole backlog skips it.      *)
BeginReap_SkipsBacklog ==
    /\ phase = "read"
    /\ phase' = "reap"
    /\ left' = IF Len(EXITS) > Budget THEN 0 ELSE Budget
    /\ UNCHANGED <<kernel, maps, prev, history>>

(* Rows are selected and enriched; the reap begins.                        *)
BeginReap ==
    /\ phase = "read"
    /\ phase' = "reap"
    /\ left' = Budget
    /\ UNCHANGED <<kernel, maps, prev, history>>

(* One record: delete_elem on both counter maps, then Resolver::forget, in *)
(* one step: no property relates the three maps while they are under way.  *)
ReapOne ==
    /\ phase = "reap" /\ left > 0 /\ EXITS # <<>>
    /\ left' = left - 1
    /\ EXITS' = Tail(EXITS)
    /\ LET p == Head(EXITS).tgid IN
          /\ CPU_NS' = Without(CPU_NS, p)
          /\ IOWAIT_NS' = IOWAIT_NS \ {p}
          /\ COMM_MAP' = Without(COMM_MAP, p)
          /\ cut' = cut \cup {p}
    /\ UNCHANGED <<kernel, phase, prev, used, reported, usedAtRead, misread, settled>>

(* The budget is spent or the ring is empty: publish and wait a second.    *)
EndTick ==
    /\ phase = "reap" /\ (left = 0 \/ EXITS = <<>>)
    /\ phase' = "idle"
    /\ left' = 0
    /\ UNCHANGED <<kernel, maps, prev, history>>

Tick == Read \/ BeginReap \/ ReapOne \/ EndTick

Next ==
    \/ \E p \in Pids :
          \/ Fork(p) \/ Clone(p) \/ Run(p) \/ SwitchOut(p) \/ EndWait(p) \/ Evict(p)
          \/ ExitThread(p) \/ ExitHook(p) \/ LastSwitch(p)
    \/ Tick

Spec == Init /\ [][Next]_vars

(* collector_loop ticks every second for as long as truetop runs.          *)
FairSpec == Spec /\ WF_vars(Tick)

-----------------------------------------------------------------------------
(* The reaper takes a record, and with it p's counter. *)
Drains == EXITS # <<>> /\ EXITS' = Tail(EXITS)
Reaps(p) == Drains /\ p \in DOMAIN CPU_NS /\ p \notin DOMAIN CPU_NS'

(* Over any history of exits, reaps, evictions, resurrected entries and    *)
(* recycled pids, what the deltas report for a pid never exceeds the CPU   *)
(* time that its processes used.  A read that shows only a part of a total *)
(* and makes it the baseline is the exception: the next one finds growth   *)
(* that was none.                                                          *)
NoInventedTime == \A p \in Pids \ misread : reported[p] <= used[p]

(* A pid with a baseline is reported exactly the time used between the two *)
(* reads, across exits and recycled pids, unless its entry was deleted or  *)
(* evicted in between or either read left out a part of it.                *)
BaselineDeltaIsExact ==
    [][phase = "idle" /\ phase' = "read" =>
         \A p \in DOMAIN prev \ (cut \cup cut') :
            deltas(prev')[p] = used[p] - usedAtRead[p]]_vars

(* reaper.rs:35-38, for a process that was finished when the tick read and *)
(* of which the read left out nothing: its complete total was read before  *)
(* the reaper deletes the entry.                                           *)
SettledTotalsAreRead ==
    [][\A p \in Pids :
         Reaps(p) /\ <<p, lives[p]>> \in settled /\ p \notin cut =>
            p \in DOMAIN prev /\ prev[p] >= CPU_NS[p]]_vars

(* A live process loses its counters or its name to the reaper.            *)
Strips(p) ==
    /\ live[p] > 0
    /\ Reaps(p) \/ (Drains /\ p \in DOMAIN COMM_MAP /\ p \notin DOMAIN COMM_MAP')

(* lifecycle.rs:26-28: neither a leader that exits before its threads nor  *)
(* last threads that race each other through the exit hook get a live      *)
(* process stripped of its counters and its name.  A process that took     *)
(* over the pid can be: by the record of an earlier one (reaper.rs:53-55). *)
OnlyPredecessorsStrip ==
    [][\A p \in Pids : Strips(p) => Head(EXITS).life < lives[p]]_vars

(* exit_notify.rs:8-9: the complete total of a departed process is deleted *)
(* only after a tick has read all of it, when no call of the read failed.  *)
ReadBeforeReap ==
    [][\A p \in Pids : Reaps(p) /\ Free(p) /\ p \notin cut =>
            p \in DOMAIN prev /\ prev[p] >= CPU_NS[p]]_vars

(* reaper.rs:39-40: records past the budget wait in the ring, and each is  *)
(* drained in the end, however many more exits follow it.                  *)
Queued(p, n) == \E i \in DOMAIN EXITS : EXITS[i] = [tgid |-> p, life |-> n]
EveryRecordIsDrained ==
    \A p \in Pids, n \in 1..MaxLives : Queued(p, n) ~> ~Queued(p, n)
=============================================================================
