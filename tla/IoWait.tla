------------------------------- MODULE IoWait -------------------------------
(***************************************************************************)
(* I/O-wait accounting on the sched_switch hot path:                       *)
(* truetop-ebpf/src/iowait.rs, driven by sched.rs, with the sleep stamp    *)
(* dropped by lifecycle.rs when a thread exits.                            *)
(*                                                                         *)
(* The kernel is the environment.  A thread that gives up its CPU in state *)
(* D blocks until it is woken; one that is preempted after it set its      *)
(* state keeps its place on the run queue.  An exiting thread runs the     *)
(* exit hook and may still block before its last switch.  A woken thread   *)
(* is switched in only after the switch that put it to sleep has finished, *)
(* so one hook call is one step here too.                                  *)
(*                                                                         *)
(* inD, unseen, off, waited, missed, blocked and gone are history          *)
(* variables.                                                              *)
(***************************************************************************)
EXTENDS PerCpuLru

CONSTANTS
    Threads,
    Procs,
    Group,          \* the process each thread belongs to
    Idle,           \* tid 0, and its tgid 0
    MaxSleepers,    \* capacity of SLEEP_SINCE
    HAS_PREV_STATE, \* the tracepoint carries prev_state (kernels >= 5.18)
    MaxClock        \* bound on the clock, for model checking

ASSUME GroupAssumption == Group \in [Threads -> Procs]
ASSUME IdleAssumption == Idle \notin Threads /\ Idle \notin Procs
ASSUME MaxSleepersAssumption == MaxSleepers \in Nat
ASSUME PrevStateAssumption == HAS_PREV_STATE \in BOOLEAN
ASSUME MaxClockAssumption == MaxClock \in Nat

VARIABLES
    now,            \* bpf_ktime_get_ns
    running,        \* the thread on each CPU
    place,          \* absent, ready, cpu, blocked
    exiting,        \* the thread has run its exit hook
    SLEEP_SINCE,    \* tid -> D-state switch-out stamp
    IOWAIT_NS,      \* tgid -> per-CPU accumulated wait; absent = no entry
    inD,            \* the thread last left a CPU in state D
    unseen,         \* and the hook could not stamp it then
    off,            \* time since it did
    waited,         \* completed waits by process and CPU of the switch-in
    missed,         \* those of them that no stamp could be taken for
    blocked,        \* processes of which some thread really blocked in D
    gone            \* counted time that left with its entry

env == <<now, running, place, exiting>>
maps == <<SLEEP_SINCE, IOWAIT_NS>>
history == <<inD, unseen, off, waited, missed, blocked, gone>>
vars == <<env, maps, history>>

Tids == Threads \cup {Idle}
TgidOf(t) == IF t = Idle THEN Idle ELSE Group[t]
NoTime == [p \in Procs |-> [c \in Cpus |-> 0]]

(* What sched_switch can find in prev's state: runnable, TASK_UNINTERRUPT- *)
(* IBLE, any other sleep (TASK_IDLE, which has NOLOAD set, included), and  *)
(* the state of the last switch of an exiting thread.                      *)
States == {"R", "D", "other", "dead"}

TypeOK ==
    /\ now \in Nat \ {0}
    /\ running \in [Cpus -> Tids]
    /\ place \in [Threads -> {"absent", "ready", "cpu", "blocked"}]
    /\ exiting \in [Threads -> BOOLEAN]
    /\ DOMAIN SLEEP_SINCE \subseteq Threads
    /\ SLEEP_SINCE \in [DOMAIN SLEEP_SINCE -> Nat]
    /\ DOMAIN IOWAIT_NS \subseteq Procs
    /\ IOWAIT_NS \in [DOMAIN IOWAIT_NS -> Slots]
    /\ inD \in [Threads -> BOOLEAN]
    /\ unseen \in SUBSET Threads
    /\ off \in [Threads -> Nat]
    /\ waited \in [Procs -> Slots] /\ missed \in [Procs -> Slots]
    /\ blocked \in SUBSET Procs
    /\ gone \in [Procs -> Slots]

(* The hook is attached to a running machine; threads already blocked have *)
(* no stamp.                                                               *)
Init ==
    /\ now = 1
    /\ running = [c \in Cpus |-> Idle]
    /\ place \in [Threads -> {"absent", "ready", "blocked"}]
    /\ exiting = [t \in Threads |-> FALSE]
    /\ SLEEP_SINCE = [t \in {} |-> 0]
    /\ IOWAIT_NS = [p \in {} |-> [c \in Cpus |-> 0]]
    /\ inD = [t \in Threads |-> FALSE]
    /\ unseen = {}
    /\ off = [t \in Threads |-> 0]
    /\ waited = NoTime /\ missed = NoTime
    /\ blocked = {}
    /\ gone = NoTime

-----------------------------------------------------------------------------
(* The hook. *)

HasRoom(m) == Cardinality(DOMAIN m) < MaxSleepers

(* SLEEP_SINCE after an insert: a plain hash refuses a new key when full.  *)
Stamped(m, tid, time) ==
    IF tid \in DOMAIN m \/ HasRoom(m)
    THEN [t \in DOMAIN m \cup {tid} |-> IF t = tid THEN time ELSE m[t]]
    ELSE m

(* Seeded fault: every sleep is stamped, TASK_IDLE included. *)
sleep_out_AnySleep(m, state, tid) ==
    IF tid # Idle /\ state \in {"D", "other"} THEN Stamped(m, tid, now) ELSE m

sleep_out(m, state, tid) ==
    IF tid # Idle /\ state = "D" THEN Stamped(m, tid, now) ELSE m

(* Seeded faults: the stamp stays after the wait; the wait is charged to   *)
(* the tid; a wait is charged only to an entry that already exists.        *)
wake_in_KeepsStamp(m, tgid, tid, c) ==
    /\ SLEEP_SINCE' = m
    /\ IF tid = Idle \/ tid \notin DOMAIN m THEN UNCHANGED IOWAIT_NS
       ELSE IOWAIT_NS' \in Charged(IOWAIT_NS, tgid, c, now - m[tid])
wake_in_ChargesTid(m, tgid, tid, c) ==
    IF tid = Idle \/ tid \notin DOMAIN m
    THEN SLEEP_SINCE' = m /\ UNCHANGED IOWAIT_NS
    ELSE /\ SLEEP_SINCE' = Without(m, tid)
         /\ IOWAIT_NS' \in Charged(IOWAIT_NS, tid, c, now - m[tid])
wake_in_LiveEntriesOnly(m, tgid, tid, c) ==
    IF tid = Idle \/ tid \notin DOMAIN m \/ tgid \notin DOMAIN IOWAIT_NS
    THEN SLEEP_SINCE' = (IF tid = Idle THEN m ELSE Without(m, tid)) /\ UNCHANGED IOWAIT_NS
    ELSE /\ SLEEP_SINCE' = Without(m, tid)
         /\ IOWAIT_NS' \in Charged(IOWAIT_NS, tgid, c, now - m[tid])

(* m is SLEEP_SINCE as sleep_out left it.                                  *)
wake_in(m, tgid, tid, c) ==
    IF tid = Idle \/ tid \notin DOMAIN m
    THEN SLEEP_SINCE' = m /\ UNCHANGED IOWAIT_NS
    ELSE /\ SLEEP_SINCE' = Without(m, tid)
         /\ IF tgid = Idle THEN UNCHANGED IOWAIT_NS
            ELSE IOWAIT_NS' \in Charged(IOWAIT_NS, tgid, c, now - m[tid])

(* prev_state comes with the tracepoint, or is probe-read from prev, which *)
(* a waker on another CPU may have overwritten by then (TASK_WAKING).      *)
SeenStates(state, leaves) ==
    IF HAS_PREV_STATE \/ ~leaves THEN {state} ELSE {state, "other"}

Counted(p, c) == Held(IOWAIT_NS, p, c)

RecordDepartures ==
    gone' = [p \in Procs |-> [c \in Cpus |->
                gone[p][c] + Left(IOWAIT_NS, IOWAIT_NS', p, c)]]

(* The switch of CPU c from its thread to `next`.  preempt is the tracepoint's *)
(* first argument: a preempted thread stays runnable whatever its state.   *)
sched_switch(c, next, preempt, state) ==
    LET prev == running[c]
        leaves == prev # Idle /\ ~preempt /\ state # "R"
    IN
    /\ next # prev
    /\ next # Idle => place[next] = "ready"
    /\ prev = Idle => state = "R"
    /\ state = "dead" => ~preempt /\ exiting[prev]
    /\ \E seen \in SeenStates(state, leaves) :
          /\ wake_in(sleep_out(SLEEP_SINCE, seen, prev), TgidOf(next), next, c)
          /\ unseen' = IF state = "D" /\ (seen # "D" \/ ~HasRoom(SLEEP_SINCE)) THEN (unseen \ {next}) \cup {prev}
                       ELSE unseen \ {prev, next}
    /\ running' = [running EXCEPT ![c] = next]
    /\ place' = [t \in Threads |->
          IF t = next THEN "cpu"
          ELSE IF t # prev THEN place[t]
          ELSE IF state = "dead" THEN "absent"
          ELSE IF leaves THEN "blocked" ELSE "ready"]
    /\ inD' = [t \in Threads |->
          IF t = prev THEN state = "D" ELSE inD[t] /\ t # next]
    /\ off' = [t \in Threads |-> IF t \in {prev, next} THEN 0 ELSE off[t]]
    /\ LET ends(p, k) == next # Idle /\ inD[next] /\ p = TgidOf(next) /\ k = c IN
       /\ waited' = [p \in Procs |-> [k \in Cpus |->
             waited[p][k] + IF ends(p, k) THEN off[next] ELSE 0]]
       /\ missed' = [p \in Procs |-> [k \in Cpus |->
             missed[p][k] + IF ends(p, k) /\ next \in unseen THEN off[next] ELSE 0]]
    /\ blocked' = IF leaves /\ state = "D" THEN blocked \cup {TgidOf(prev)} ELSE blocked
    /\ RecordDepartures
    /\ UNCHANGED <<now, exiting>>

(* sched_process_exit, on the CPU of the thread that exits: forget_thread. *)
sched_process_exit(t) ==
    /\ place[t] = "cpu" /\ ~exiting[t]
    /\ exiting' = [exiting EXCEPT ![t] = TRUE]
    /\ SLEEP_SINCE' = Without(SLEEP_SINCE, t)
    /\ UNCHANGED <<now, running, place, IOWAIT_NS, history>>

-----------------------------------------------------------------------------
(* The rest of the kernel, and the reaper. *)

Wake(t) ==
    /\ place[t] = "blocked"
    /\ place' = [place EXCEPT ![t] = "ready"]
    /\ UNCHANGED <<now, running, exiting, maps, history>>

(* A new thread, under a tid that an earlier one may have had.             *)
Fork(t) ==
    /\ place[t] = "absent"
    /\ place' = [place EXCEPT ![t] = "ready"]
    /\ exiting' = [exiting EXCEPT ![t] = FALSE]
    /\ inD' = [inD EXCEPT ![t] = FALSE]
    /\ off' = [off EXCEPT ![t] = 0]
    /\ unseen' = unseen \ {t}
    /\ UNCHANGED <<now, running, maps, waited, missed, blocked, gone>>

DeleteEntry(p) ==
    /\ p \in DOMAIN IOWAIT_NS
    /\ IOWAIT_NS' = Without(IOWAIT_NS, p)
    /\ RecordDepartures
    /\ UNCHANGED <<env, SLEEP_SINCE, inD, unseen, off, waited, missed, blocked>>

Tick ==
    /\ now < MaxClock
    /\ now' = now + 1
    /\ off' = [t \in Threads |-> IF inD[t] THEN off[t] + 1 ELSE 0]
    /\ UNCHANGED <<running, place, exiting, maps, inD, unseen, waited, missed, blocked, gone>>

Next ==
    \/ Tick
    \/ \E c \in Cpus, next \in Tids, preempt \in BOOLEAN, state \in States :
          sched_switch(c, next, preempt, state)
    \/ \E t \in Threads : sched_process_exit(t) \/ Wake(t) \/ Fork(t)
    \/ \E p \in Procs : DeleteEntry(p)

Spec == Init /\ [][Next]_vars

-----------------------------------------------------------------------------
(* iowait.rs:20-22: a stamp lives only from a D switch-out to the next     *)
(* switch-in of that thread.  So a running thread, a dead one, or a new    *)
(* one under a recycled tid never carries a stamp, and every stamp is the  *)
(* time its thread left the CPU.                                           *)
StampsAreSleepers ==
    \A t \in DOMAIN SLEEP_SINCE :
        /\ place[t] \in {"ready", "blocked"}
        /\ inD[t]
        /\ now - SLEEP_SINCE[t] = off[t]

(* Every wait begun under the hook is billed in full to its process when   *)
(* it ends, and stays counted until the entry is evicted or deleted; the   *)
(* only ones missed found the stamp table full or their state already      *)
(* overwritten by a waker.                                                 *)
WaitsAreBilled ==
    \A p \in Procs, c \in Cpus :
        waited[p][c] = Counted(p, c) + gone[p][c] + missed[p][c]

(* iowait.rs:1-3 says the time is charged to the task that actually        *)
(* blocks: a process none of whose threads blocked has no I/O wait.        *)
OnlyBlockersBilled ==
    \A p \in Procs, c \in Cpus : Counted(p, c) > 0 => p \in blocked

(* Whatever the capacity of the stamp table and the kernel version, no     *)
(* wait is billed twice or for more than its length: dropped stamps and    *)
(* raced states only lose time.                                            *)
SlotKeys == Procs \X Cpus
M == INSTANCE Meter WITH
        Keys <- SlotKeys,
        consumed <- [k \in SlotKeys |-> waited[k[1]][k[2]]],
        counted <- [k \in SlotKeys |-> Counted(k[1], k[2])],
        dropped <- [k \in SlotKeys |-> gone[k[1]][k[2]]]

ImplementsMeter == M!Spec
=============================================================================
