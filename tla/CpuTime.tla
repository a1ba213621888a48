------------------------------ MODULE CpuTime ------------------------------
(***************************************************************************)
(* CPU accounting on the sched_switch hot path: truetop-ebpf/src/cpu.rs,   *)
(* driven by sched.rs, and read back by truetop/src/cpu_maps.rs.           *)
(*                                                                         *)
(* The kernel scheduler is the environment: it decides which thread runs   *)
(* on which CPU.  A sched_switch hook runs with preemption disabled on its *)
(* CPU, and every map it writes here is per-CPU, so one call is one step;  *)
(* InflightRead opens it up for the user-space reader.                     *)
(*                                                                         *)
(* ran, onCpu, switched, unseen and gone are history variables: they       *)
(* record what really happened and no action reads them to decide.         *)
(***************************************************************************)
EXTENDS PerCpuLru

CONSTANTS
    Threads,        \* schedulable threads; the idle thread is not one
    Procs,          \* thread groups (tgids)
    Group,          \* the process each thread belongs to
    Idle,           \* tid 0, and its tgid 0
    MaxClock        \* bound on the clock, for model checking

ASSUME GroupAssumption == Group \in [Threads -> Procs]
ASSUME IdleAssumption == Idle \notin Threads /\ Idle \notin Procs
ASSUME MaxClockAssumption == MaxClock \in Nat

VARIABLES
    now,            \* bpf_ktime_get_ns
    running,        \* the thread on each CPU
    START_TIME,     \* per-CPU schedule-in stamp, 0 = nothing stamped yet
    CURRENT_TGID,   \* per-CPU tgid of the thread on this CPU
    CPU_NS,         \* tgid -> per-CPU accumulated time; absent = no entry
    ran,            \* time each process really ran on each CPU
    onCpu,          \* time since the last switch on each CPU
    switched,       \* has this CPU switched since the hook was attached
    unseen,         \* time of slices already under way at attach
    gone            \* counted time that left with its entry

env == <<now, running>>
maps == <<START_TIME, CURRENT_TGID, CPU_NS>>
history == <<ran, onCpu, switched, unseen, gone>>
vars == <<env, maps, history>>

Tids == Threads \cup {Idle}
TgidOf(t) == IF t = Idle THEN Idle ELSE Group[t]
NoTime == [p \in Procs |-> [c \in Cpus |-> 0]]

TypeOK ==
    /\ now \in Nat \ {0}
    /\ running \in [Cpus -> Tids]
    /\ START_TIME \in Slots
    /\ CURRENT_TGID \in [Cpus -> Procs \cup {Idle}]
    /\ DOMAIN CPU_NS \subseteq Procs
    /\ CPU_NS \in [DOMAIN CPU_NS -> Slots]
    /\ ran \in [Procs -> Slots]
    /\ onCpu \in Slots
    /\ switched \in [Cpus -> BOOLEAN]
    /\ unseen \in [Procs -> Slots]
    /\ gone \in [Procs -> Slots]

(* The hook is attached to a machine that is already running something.    *)
Init ==
    /\ now = 1
    /\ running \in {r \in [Cpus -> Tids] :
          \A c, d \in Cpus : c # d /\ r[c] = r[d] => r[c] = Idle}
    /\ START_TIME = [c \in Cpus |-> 0]
    /\ CURRENT_TGID = [c \in Cpus |-> Idle]
    /\ CPU_NS = [p \in {} |-> [c \in Cpus |-> 0]]
    /\ ran = NoTime
    /\ onCpu = [c \in Cpus |-> 0]
    /\ switched = [c \in Cpus |-> FALSE]
    /\ unseen = NoTime
    /\ gone = NoTime

-----------------------------------------------------------------------------
(* The slot of one process on one CPU as user space sees it. *)
Counted(p, c) == Held(CPU_NS, p, c)

RecordDepartures ==
    gone' = [p \in Procs |-> [c \in Cpus |->
                gone[p][c] + Left(CPU_NS, CPU_NS', p, c)]]

-----------------------------------------------------------------------------
(* The hook. *)

(* Seeded fault: a slice without a stamp is billed from boot. *)
charge_out_NoBaseline(tid, tgid, c) ==
    IF tid = Idle THEN UNCHANGED CPU_NS
    ELSE CPU_NS' \in Charged(CPU_NS, tgid, c, now - START_TIME[c])

charge_out(tid, tgid, c) ==
    IF tid = Idle \/ START_TIME[c] = 0
    THEN UNCHANGED CPU_NS
    ELSE CPU_NS' \in Charged(CPU_NS, tgid, c, now - START_TIME[c])

(* Seeded faults: the slot keeps its first stamp; idle leaves the outgoing *)
(* tgid in place; the tid is stored for the tgid.                          *)
mark_in_FirstStampOnly(tid, tgid, c) ==
    /\ START_TIME' = IF tid = Idle \/ START_TIME[c] # 0 THEN START_TIME
                     ELSE [START_TIME EXCEPT ![c] = now]
    /\ CURRENT_TGID' = [CURRENT_TGID EXCEPT ![c] = tgid]
mark_in_IdleKeepsTgid(tid, tgid, c) ==
    IF tid = Idle THEN UNCHANGED <<START_TIME, CURRENT_TGID>>
    ELSE /\ START_TIME' = [START_TIME EXCEPT ![c] = now]
         /\ CURRENT_TGID' = [CURRENT_TGID EXCEPT ![c] = tgid]
mark_in_StoresTid(tid, tgid, c) ==
    /\ START_TIME' = IF tid = Idle THEN START_TIME
                     ELSE [START_TIME EXCEPT ![c] = now]
    /\ CURRENT_TGID' = [CURRENT_TGID EXCEPT ![c] = tid]

mark_in(tid, tgid, c) ==
    /\ START_TIME' = IF tid = Idle THEN START_TIME
                     ELSE [START_TIME EXCEPT ![c] = now]
    /\ CURRENT_TGID' = [CURRENT_TGID EXCEPT ![c] = tgid]

(* A slice that began before the hook was attached has no baseline. *)
RecordUnseen(c) ==
    unseen' = [p \in Procs |-> [k \in Cpus |->
        unseen[p][k] + IF k = c /\ ~switched[c] /\ TgidOf(running[c]) = p
                       THEN onCpu[c] ELSE 0]]

sched_switch(c, next) ==
    /\ next # running[c]
    /\ next # Idle => \A k \in Cpus : running[k] # next
    /\ charge_out(running[c], TgidOf(running[c]), c)
    /\ mark_in(next, TgidOf(next), c)
    /\ running' = [running EXCEPT ![c] = next]
    /\ RecordUnseen(c)
    /\ RecordDepartures
    /\ onCpu' = [onCpu EXCEPT ![c] = 0]
    /\ switched' = [switched EXCEPT ![c] = TRUE]
    /\ UNCHANGED <<now, ran>>

(* The reaper deletes an announced process's entry (Reaper::reap). *)
DeleteEntry(p) ==
    /\ p \in DOMAIN CPU_NS
    /\ CPU_NS' = Without(CPU_NS, p)
    /\ RecordDepartures
    /\ UNCHANGED <<env, START_TIME, CURRENT_TGID, ran, onCpu, switched, unseen>>

(* One unit of time passes on every CPU. *)
Tick ==
    /\ now < MaxClock
    /\ now' = now + 1
    /\ ran' = [p \in Procs |-> [c \in Cpus |->
                 ran[p][c] + IF TgidOf(running[c]) = p THEN 1 ELSE 0]]
    /\ onCpu' = [c \in Cpus |-> onCpu[c] + 1]
    /\ UNCHANGED <<running, maps, switched, unseen, gone>>

Next ==
    \/ Tick
    \/ \E c \in Cpus, next \in Tids : sched_switch(c, next)
    \/ \E p \in Procs : DeleteEntry(p)

Spec == Init /\ [][Next]_vars

-----------------------------------------------------------------------------
(* What CpuMaps::add_inflight adds for one CPU. *)
Inflight(p, c) ==
    IF CURRENT_TGID[c] = p /\ START_TIME[c] # 0 /\ now > START_TIME[c]
    THEN now - START_TIME[c] ELSE 0

(* The part of p's time on c that ran under no stamp so far. *)
Unstamped(p, c) ==
    unseen[p][c] + IF ~switched[c] /\ TgidOf(running[c]) = p THEN onCpu[c] ELSE 0

(* cpu.rs:8-11: a real outgoing thread always finds its own schedule-in    *)
(* time in the slot, however long the CPU idled before and whoever wrote   *)
(* the slot last.  Only the slice under way at attach has no stamp.        *)
StampIsScheduleIn ==
    \A c \in Cpus : running[c] # Idle =>
        IF switched[c] THEN START_TIME[c] # 0 /\ now - START_TIME[c] = onCpu[c]
                       ELSE START_TIME[c] = 0

(* What a collector read shows, CPU_NS plus the in-flight slice, is exactly *)
(* the time the process ran on that CPU, less what left with an evicted or  *)
(* deleted entry and less the slice that was under way at attach.           *)
ReadIsExact ==
    \A p \in Procs, c \in Cpus :
        ran[p][c] = Counted(p, c) + Inflight(p, c) + gone[p][c] + Unstamped(p, c)

(* The counter alone implements the abstract meter: no slice is billed     *)
(* twice or to the wrong process, none disappears without leaving by an    *)
(* eviction or a deletion.                                                 *)
SlotKeys == Procs \X Cpus
M == INSTANCE Meter WITH
        Keys <- SlotKeys,
        consumed <- [k \in SlotKeys |-> ran[k[1]][k[2]]],
        counted <- [k \in SlotKeys |-> Counted(k[1], k[2])],
        dropped <- [k \in SlotKeys |-> gone[k[1]][k[2]]]

ImplementsMeter == M!Spec
=============================================================================
