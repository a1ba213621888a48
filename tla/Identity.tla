------------------------------ MODULE Identity ------------------------------
(***************************************************************************)
(* Who a row belongs to: the exec, fork and credential hooks that write    *)
(* COMM_MAP (truetop-ebpf/src/comm.rs, creds.rs), the startup order of     *)
(* lib.rs (hooks attached one by one, then one /proc walk), and the        *)
(* Resolver that answers from both and forgets the departed                *)
(* (truetop/src/metrics/identity.rs, reaper.rs).                           *)
(*                                                                         *)
(* Processes fork, exec, rename their threads, change credentials, exit    *)
(* and hand on their pids at any moment, between the two /proc reads of    *)
(* one process included.  Threads of a process share its uid.  A name is a *)
(* number, new at every exec and every rename.                             *)
(*                                                                         *)
(* own, inherited, missedUid, lost and stripped are history variables.     *)
(***************************************************************************)
EXTENDS Naturals, Sequences, FiniteSets

CONSTANTS
    Pids,
    Uids,
    MaxEntries,     \* capacity of COMM_MAP
    RingCapacity,   \* records EXITS holds
    MaxNames        \* bound on names

ASSUME CapacityAssumption ==
    MaxEntries \in Nat \ {0} /\ RingCapacity \in Nat \ {0}
ASSUME BoundsAssumption == MaxNames \in Nat

VARIABLES
    alive,          \* pids in use
    comm,           \* the name of each live process's leader
    uid,            \* its uid
    COMM_MAP,       \* pid -> [name, uid]
    EXITS,          \* announced pids
    attached,       \* hooks attached so far, in the order of Hooks
    creds,          \* not tried yet, attached, or failed
    seeding,        \* before, list, done; failed: /proc did not open
    todo,           \* pids the /proc walk has still to read
    half,           \* the pid whose comm was read and whose status is next,
                    \* with that name; <<>> if none
    seed,           \* Resolver::seed
    names,          \* names given so far
    own,            \* names the live process's threads have had in its image
    inherited,      \* pids reused before the fork hook, over an entry of an
                    \* earlier process
    missedUid,      \* pids whose credentials changed with no hook to see it
    lost,           \* pids whose COMM_MAP entry was evicted
    stripped        \* live pids the reaper forgot

world == <<alive, comm, uid, names, own>>
startup == <<attached, creds, seeding, todo, half, seed>>
flaws == <<inherited, missedUid, lost, stripped>>
vars == <<world, COMM_MAP, EXITS, startup, flaws>>

Names == 0..MaxNames
Identities == [name : Names, uid : Uids]

(* setup_collector's order. *)
Hooks == <<"sched_switch", "sched_process_exec", "sched_process_fork", "sched_process_exit">>
Hooked(h) == \E i \in 1..attached : Hooks[i] = h

TypeOK ==
    /\ alive \subseteq Pids
    /\ comm \in [Pids -> Names] /\ uid \in [Pids -> Uids]
    /\ DOMAIN COMM_MAP \subseteq Pids /\ COMM_MAP \in [DOMAIN COMM_MAP -> Identities]
    /\ Cardinality(DOMAIN COMM_MAP) <= MaxEntries
    /\ EXITS \in Seq(Pids) /\ Len(EXITS) <= RingCapacity
    /\ attached \in 0..Len(Hooks)
    /\ creds \in {"untried", "attached", "failed"}
    /\ seeding \in {"before", "list", "done", "failed"}
    /\ todo \subseteq Pids /\ half \in {<<>>} \cup (Pids \X Names)
    /\ DOMAIN seed \subseteq Pids /\ seed \in [DOMAIN seed -> Identities]
    /\ names \in Names
    /\ own \in [Pids -> SUBSET Names]
    /\ inherited \subseteq Pids /\ missedUid \subseteq Pids
    /\ lost \subseteq Pids /\ stripped \subseteq Pids

Nothing == [p \in {} |-> 0]
Unknown == Nothing      \* an identity with no field: "<unknown>" and no user

(* truetop starts on a machine that runs some processes already. *)
Init ==
    /\ alive \in SUBSET Pids
    /\ comm = [p \in Pids |-> 0]
    /\ uid \in [Pids -> Uids]
    /\ COMM_MAP = Nothing /\ EXITS = <<>>
    /\ attached = 0 /\ creds = "untried"
    /\ seeding = "before" /\ todo = {} /\ half = <<>> /\ seed = Nothing
    /\ names = 0
    /\ own = [p \in Pids |-> IF p \in alive THEN {0} ELSE {}]
    /\ inherited = {} /\ missedUid = {} /\ lost = {} /\ stripped = {}

-----------------------------------------------------------------------------
(* COMM_MAP. *)

Insert(p, identity) ==
    LET full == p \notin DOMAIN COMM_MAP /\ Cardinality(DOMAIN COMM_MAP) = MaxEntries IN
    \E out \in IF full THEN {{v} : v \in DOMAIN COMM_MAP} ELSE {{}} :
        /\ COMM_MAP' = [q \in (DOMAIN COMM_MAP \ out) \cup {p} |->
                          IF q = p THEN identity ELSE COMM_MAP[q]]
        /\ lost' = (lost \ {p}) \cup out

Remove(m, p) == [q \in DOMAIN m \ {p} |-> m[q]]

NoWrite == UNCHANGED <<COMM_MAP, lost>>

(* Seeded fault: an identity heard of for the first time is not recorded.  *)
set_uid_LiveEntriesOnly(p, name, u) ==
    IF p \in DOMAIN COMM_MAP THEN Insert(p, [COMM_MAP[p] EXCEPT !.uid = u]) ELSE NoWrite

(* comm::set_uid: the uid alone in an existing entry, both fields in a new *)
(* one.                                                                    *)
set_uid(p, name, u) ==
    Insert(p, IF p \in DOMAIN COMM_MAP THEN [COMM_MAP[p] EXCEPT !.uid = u]
              ELSE [name |-> name, uid |-> u])

-----------------------------------------------------------------------------
(* The processes. *)

(* The child inherits name and uid from the forking thread: of a process   *)
(* with a row here, or of one outside the model.                           *)
sched_process_fork(p, name, u) ==
    /\ p \notin alive
    /\ \/ \E parent \in alive : name \in own[parent] /\ u = uid[parent]
       \/ name = 0
    /\ alive' = alive \cup {p}
    /\ comm' = [comm EXCEPT ![p] = name]
    /\ uid' = [uid EXCEPT ![p] = u]
    /\ own' = [own EXCEPT ![p] = {name}]
    /\ IF Hooked("sched_process_fork")
       THEN Insert(p, [name |-> name, uid |-> u]) /\ inherited' = inherited \ {p}
       ELSE NoWrite /\ inherited' = inherited \cup ({p} \cap DOMAIN COMM_MAP)
    /\ missedUid' = missedUid \ {p} /\ stripped' = stripped \ {p}
    /\ UNCHANGED <<names, EXITS, startup>>

(* Seeded fault: the hook writes under the new thread's tid.               *)
CreateThread_UnderTid(p, name) ==
    /\ p \in alive /\ name \in own[p]
    /\ IF Hooked("sched_process_fork")
       THEN Insert(<<p, "thread">>, [name |-> name, uid |-> uid[p]]) ELSE NoWrite
    /\ UNCHANGED <<world, EXITS, startup, inherited, missedUid, stripped>>

(* A thread is created by a thread of that name: the same hook.            *)
CreateThread(p, name) ==
    /\ p \in alive /\ name \in own[p]
    /\ IF Hooked("sched_process_fork")
       THEN /\ Insert(p, [name |-> name, uid |-> uid[p]])
            /\ inherited' = inherited \ {p} /\ missedUid' = missedUid \ {p}
       ELSE NoWrite /\ UNCHANGED <<inherited, missedUid>>
    /\ UNCHANGED <<world, EXITS, startup, stripped>>

(* Credentials are committed before the exec hook fires, which then writes *)
(* both fields.                                                            *)
sched_process_exec(p, u) ==
    /\ p \in alive /\ names < MaxNames
    /\ names' = names + 1
    /\ comm' = [comm EXCEPT ![p] = names + 1]
    /\ uid' = [uid EXCEPT ![p] = u]
    /\ own' = [own EXCEPT ![p] = {names + 1}]
    /\ IF Hooked("sched_process_exec")
       THEN /\ Insert(p, [name |-> names + 1, uid |-> u])
            /\ inherited' = inherited \ {p} /\ missedUid' = missedUid \ {p}
            /\ stripped' = stripped \ {p}
       ELSE NoWrite /\ UNCHANGED <<inherited, missedUid, stripped>>
    /\ UNCHANGED <<alive, EXITS, startup>>

(* prctl(PR_SET_NAME), by the leader or by another thread: no hook sees it.*)
Rename(p, leader) ==
    /\ p \in alive /\ names < MaxNames
    /\ names' = names + 1
    /\ comm' = IF leader THEN [comm EXCEPT ![p] = names + 1] ELSE comm
    /\ own' = [own EXCEPT ![p] = @ \cup {names + 1}]
    /\ UNCHANGED <<alive, uid, COMM_MAP, EXITS, startup, flaws>>

commit_creds(p, name, u) ==
    /\ p \in alive /\ name \in own[p] /\ u # uid[p]
    /\ uid' = [uid EXCEPT ![p] = u]
    /\ IF creds = "attached"
       THEN set_uid(p, name, u) /\ missedUid' = missedUid \ {p}
       ELSE NoWrite /\ missedUid' = missedUid \cup {p}
    /\ UNCHANGED <<alive, comm, names, own, EXITS, startup, inherited, stripped>>

(* The exit hook announces the pid; a full ring drops the record.          *)
sched_process_exit(p) ==
    /\ p \in alive
    /\ alive' = alive \ {p}
    /\ own' = [own EXCEPT ![p] = {}]
    /\ EXITS' = IF Hooked("sched_process_exit") /\ Len(EXITS) < RingCapacity
                THEN Append(EXITS, p) ELSE EXITS
    /\ UNCHANGED <<comm, uid, names, COMM_MAP, startup, flaws>>

-----------------------------------------------------------------------------
(* truetop. *)

attach_raw_tracepoint ==
    /\ attached < Len(Hooks)
    /\ attached' = attached + 1
    /\ UNCHANGED <<world, COMM_MAP, EXITS, creds, seeding, todo, half, seed, flaws>>

(* Not fatal: setup_collector logs the failure and goes on.                *)
attach_creds ==
    /\ attached = Len(Hooks) /\ creds = "untried"
    /\ creds' \in {"attached", "failed"}
    /\ UNCHANGED <<world, COMM_MAP, EXITS, attached, seeding, todo, half, seed, flaws>>

(* Seeded fault: the /proc walk starts before the hooks are attached.      *)
backfill_begin_Early ==
    /\ seeding = "before"
    /\ seeding' = "list" /\ todo' = alive
    /\ UNCHANGED <<world, COMM_MAP, EXITS, attached, creds, half, seed, flaws>>

(* With /proc unreadable the seed stays empty, and truetop goes on.        *)
backfill_begin ==
    /\ creds # "untried" /\ seeding = "before"
    /\ \/ seeding' = "list" /\ todo' = alive
       \/ seeding' = "failed" /\ todo' = {}
    /\ UNCHANGED <<world, COMM_MAP, EXITS, attached, creds, half, seed, flaws>>

(* /proc/<pid>/comm; a process that is gone is skipped.                    *)
backfill_comm(p) ==
    /\ seeding = "list" /\ half = <<>> /\ p \in todo
    /\ todo' = todo \ {p}
    /\ half' = IF p \in alive THEN <<p, comm[p]>> ELSE <<>>
    /\ UNCHANGED <<world, COMM_MAP, EXITS, attached, creds, seeding, seed, flaws>>

(* /proc/<pid>/status.                                                     *)
proc_uid ==
    /\ half # <<>>
    /\ seed' = IF half[1] \in alive
               THEN [p \in DOMAIN seed \cup {half[1]} |->
                       IF p = half[1] THEN [name |-> half[2], uid |-> uid[p]] ELSE seed[p]]
               ELSE seed
    /\ half' = <<>>
    /\ missedUid' = IF half[1] \in DOMAIN COMM_MAP THEN missedUid ELSE missedUid \ {half[1]}
    /\ UNCHANGED <<world, COMM_MAP, EXITS, attached, creds, seeding, todo,
                   inherited, lost, stripped>>

backfill_end ==
    /\ seeding = "list" /\ half = <<>> /\ todo = {}
    /\ seeding' = "done"
    /\ UNCHANGED <<world, COMM_MAP, EXITS, attached, creds, todo, half, seed, flaws>>

(* The first tick comes after the walk. *)
Ready == seeding \in {"done", "failed"}

(* One record of the reap: Resolver::forget.                               *)
forget ==
    /\ Ready /\ attached = Len(Hooks) /\ EXITS # <<>>
    /\ LET p == Head(EXITS) IN
          /\ COMM_MAP' = Remove(COMM_MAP, p)
          /\ seed' = Remove(seed, p)
          /\ stripped' = IF p \in alive THEN stripped \cup {p} ELSE stripped
    /\ EXITS' = Tail(EXITS)
    /\ UNCHANGED <<world, attached, creds, seeding, todo, half, inherited, missedUid, lost>>

Processes ==
    \E p \in Pids :
        \/ \E n \in Names, u \in Uids :
              \/ sched_process_fork(p, n, u)
              \/ commit_creds(p, n, u)
        \/ \E n \in Names : CreateThread(p, n)
        \/ \E u \in Uids : sched_process_exec(p, u)
        \/ \E leader \in BOOLEAN : Rename(p, leader)
        \/ sched_process_exit(p)

Truetop ==
    \/ attach_raw_tracepoint \/ attach_creds
    \/ backfill_begin \/ (\E p \in Pids : backfill_comm(p)) \/ proc_uid \/ backfill_end
    \/ forget

Next == Processes \/ Truetop

Spec == Init /\ [][Next]_vars

-----------------------------------------------------------------------------
(* Resolver::named. *)
named(p) ==
    IF p \in DOMAIN COMM_MAP THEN COMM_MAP[p]
    ELSE IF p \in DOMAIN seed THEN seed[p] ELSE Unknown

(* A live row is never labelled with another process's name, with the name *)
(* of its own earlier program, or with an earlier uid, whatever ran        *)
(* between the attaching of the hooks and the two /proc reads: only an     *)
(* entry evicted from a full COMM_MAP, a credential change that no hook    *)
(* saw, or a pid reused between the attaching of the exec hook and that of *)
(* the fork hook makes it so.                                              *)
ShownIsOwn ==
    Ready => \A p \in alive \ (lost \cup inherited) :
        named(p) # Unknown =>
            /\ named(p).name \in own[p]
            /\ p \notin missedUid => named(p).uid = uid[p]

(* Once /proc has been walked, a live process has a name from the first    *)
(* tick on, unless its entry was evicted or the record of an earlier       *)
(* process of its pid was reaped late.                                     *)
KnownFromTheFirstTick ==
    seeding = "done" => \A p \in alive \ (lost \cup stripped) : named(p) # Unknown
=============================================================================
