--------------------------- MODULE IdentityProofs ---------------------------
(***************************************************************************)
(* Whose name and user a row shows.  Proved for any pids, uids, names and  *)
(* capacities, whatever runs between two steps of the startup.             *)
(***************************************************************************)
EXTENDS Identity, FiniteSetTheorems, TLAPS

(* What the processes, and truetop of them, may hold. *)
Living ==
    /\ alive \subseteq Pids /\ own \in [Pids -> SUBSET Names]
    /\ uid \in [Pids -> Uids] /\ comm \in [Pids -> Names]
    /\ names \in Names /\ EXITS \in Seq(Pids)
    /\ inherited \subseteq Pids /\ missedUid \subseteq Pids

Data ==
    /\ Living
    /\ DOMAIN COMM_MAP \subseteq Pids /\ COMM_MAP \in [DOMAIN COMM_MAP -> Identities]
    /\ DOMAIN seed \subseteq Pids /\ seed \in [DOMAIN seed -> Identities]
    /\ half \in {<<>>} \cup (Pids \X Names)
    /\ lost \subseteq Pids

(* The order of the startup: an entry is written by a hook, the exec hook  *)
(* being the first that writes, and the walk begins after the last.        *)
Startup ==
    /\ attached \in 0..4
    /\ creds # "untried" => attached = 4
    /\ seeding # "before" => creds # "untried"
    /\ attached < 2 => COMM_MAP = Nothing
    /\ seeding = "before" => seed = Nothing
    /\ seeding # "list" => half = <<>>

(* An identity that is the process's own. *)
Own(p, i) ==
    /\ i.name \in own[p]
    /\ p \notin missedUid => i.uid = uid[p]

(* An entry is its process's own unless it was inherited; what the walk    *)
(* has of a process is, unless the map has an entry of it, or had one      *)
(* before it was full.                                                     *)
Right(p) ==
    /\ comm[p] \in own[p]
    /\ p \in DOMAIN COMM_MAP \ inherited => Own(p, COMM_MAP[p])
    /\ p \in DOMAIN seed \ (DOMAIN COMM_MAP \cup lost) => Own(p, seed[p])
    /\ half # <<>> /\ half[1] = p /\ p \notin DOMAIN COMM_MAP \cup lost => half[2] \in own[p]

Rightly == Data /\ Startup /\ \A p \in alive : Right(p)

-----------------------------------------------------------------------------
LEMMA Attached ==
    Startup => /\ (Hooked("sched_process_exec") <=> attached >= 2)
               /\ (Hooked("sched_process_fork") <=> attached >= 3)
  BY DEF Startup, Hooked, Hooks

LEMMA InitRightly == Init => Rightly
  <1> SUFFICES ASSUME Init PROVE Rightly
    OBVIOUS
  <1>1. 0 \in Names
    BY BoundsAssumption DEF Names
  <1>2. Data
    BY <1>1 DEF Init, Data, Living, Nothing
  <1>3. Startup
    BY DEF Init, Startup
  <1>4. \A p \in alive : Right(p)
    BY DEF Init, Right, Nothing
  <1>5. QED BY <1>2, <1>3, <1>4 DEF Rightly

(* An insertion writes one entry and evicts at most another one.           *)
LEMMA Inserted ==
    ASSUME Data, NEW p \in Pids, NEW i \in Identities, Insert(p, i)
    PROVE  /\ p \in DOMAIN COMM_MAP' /\ COMM_MAP'[p] = i
           /\ \A q \in DOMAIN COMM_MAP' : q # p => q \in DOMAIN COMM_MAP /\ COMM_MAP'[q] = COMM_MAP[q]
           /\ \A q \in Pids : q # p =>
                 (q \in DOMAIN COMM_MAP' \cup lost' <=> q \in DOMAIN COMM_MAP \cup lost)
           /\ DOMAIN COMM_MAP' \subseteq Pids /\ COMM_MAP' \in [DOMAIN COMM_MAP' -> Identities]
           /\ lost' \subseteq Pids
  <1>1. PICK out : /\ out \subseteq DOMAIN COMM_MAP
                   /\ COMM_MAP' = [q \in (DOMAIN COMM_MAP \ out) \cup {p} |->
                                      IF q = p THEN i ELSE COMM_MAP[q]]
                   /\ lost' = (lost \ {p}) \cup out
    BY DEF Insert
  <1>2. QED
    BY <1>1 DEF Data

-----------------------------------------------------------------------------
(* What a process does concerns its own pid. *)
Elsewhere(p) ==
    /\ alive' \subseteq alive \cup {p}
    /\ \A q \in Pids \ {p} :
          /\ own'[q] = own[q] /\ uid'[q] = uid[q] /\ comm'[q] = comm[q]
          /\ (q \in inherited' <=> q \in inherited) /\ (q \in missedUid' <=> q \in missedUid)

(* A hook that writes the process's own name and user keeps all right: the *)
(* victim of the insertion, if there is one, is not vouched for any more.  *)
LEMMA Written ==
    ASSUME Rightly, NEW p \in Pids, NEW i \in Identities, Insert(p, i),
           UNCHANGED startup, Living', Elsewhere(p), attached >= 2,
           p \in alive' => comm'[p] \in own'[p],
           p \notin inherited' => i.name \in own'[p] /\ (p \notin missedUid' => i.uid = uid'[p])
    PROVE  Rightly'
  <1> USE DEF Rightly
  <1>1. /\ p \in DOMAIN COMM_MAP' /\ COMM_MAP'[p] = i
        /\ \A q \in DOMAIN COMM_MAP' : q # p => q \in DOMAIN COMM_MAP /\ COMM_MAP'[q] = COMM_MAP[q]
        /\ \A q \in Pids : q # p =>
              (q \in DOMAIN COMM_MAP' \cup lost' <=> q \in DOMAIN COMM_MAP \cup lost)
        /\ DOMAIN COMM_MAP' \subseteq Pids /\ COMM_MAP' \in [DOMAIN COMM_MAP' -> Identities]
        /\ lost' \subseteq Pids
    BY Inserted
  <1>2. Data'
    BY <1>1 DEF Data, startup
  <1>3. Startup'
    BY DEF Startup, Data, startup
  <1>4. ASSUME NEW q \in alive', q # p
        PROVE  Right(q)'
    <2>1. q \in Pids /\ q \in alive /\ Right(q)
      BY <1>4 DEF Living, Elsewhere
    <2>2. QED
      BY <1>1, <1>4, <2>1 DEF Right, Own, Elsewhere, startup
  <1>5. p \in alive' => Right(p)'
    BY <1>1 DEF Right, Own
  <1>6. QED BY <1>2, <1>3, <1>4, <1>5

(* So does what no hook sees, if it leaves its own process right.          *)
LEMMA Unwritten ==
    ASSUME Rightly, NEW p \in Pids, NoWrite, UNCHANGED startup, Living', Elsewhere(p),
           p \in alive' => Right(p)'
    PROVE  Rightly'
  <1> USE DEF Rightly, NoWrite
  <1>1. Data' /\ Startup'
    BY DEF Data, Startup, startup
  <1>2. ASSUME NEW q \in alive', q # p
        PROVE  Right(q)'
    <2>1. q \in Pids /\ q \in alive /\ Right(q)
      BY <1>2 DEF Living, Elsewhere
    <2>2. QED
      BY <1>2, <2>1 DEF Right, Own, Elsewhere, startup
  <1>3. QED BY <1>1, <1>2

-----------------------------------------------------------------------------
(* The processes' steps. *)

(* Unseen by a hook, a new process has nothing of its own to be wrong: its *)
(* predecessor's entry is inherited, and there is no seed yet.             *)
LEMMA ForkRightly ==
    ASSUME Rightly, NEW p \in Pids, NEW n \in Names, NEW u \in Uids, sched_process_fork(p, n, u)
    PROVE  Rightly'
  <1> USE DEF Rightly
  <1>1. /\ alive' = alive \cup {p} /\ comm' = [comm EXCEPT ![p] = n]
        /\ uid' = [uid EXCEPT ![p] = u] /\ own' = [own EXCEPT ![p] = {n}]
        /\ missedUid' = missedUid \ {p}
        /\ UNCHANGED <<names, EXITS, startup>>
    BY DEF sched_process_fork
  <1>2. inherited' \subseteq inherited \cup {p} /\ inherited \subseteq inherited' \cup {p}
    BY DEF sched_process_fork
  <1>3. Living' /\ Elsewhere(p)
    BY <1>1, <1>2 DEF Data, Living, Elsewhere
  <1>4. comm'[p] = n /\ uid'[p] = u /\ own'[p] = {n}
    BY <1>1 DEF Data, Living
  <1>5. CASE Hooked("sched_process_fork")
    <2>1. Insert(p, [name |-> n, uid |-> u]) /\ attached >= 2
      BY <1>5, Attached DEF sched_process_fork, Startup
    <2>2. [name |-> n, uid |-> u] \in Identities
      BY DEF Identities
    <2>3. QED BY <1>1, <1>3, <1>4, <2>1, <2>2, Written
  <1>6. CASE ~Hooked("sched_process_fork")
    <2>1. NoWrite /\ inherited' = inherited \cup ({p} \cap DOMAIN COMM_MAP)
      BY <1>6 DEF sched_process_fork
    <2>2. seed = Nothing /\ half = <<>>
      BY <1>6, Attached DEF Startup
    <2>3. Right(p)'
      BY <1>1, <1>4, <2>1, <2>2 DEF Right, NoWrite, startup, Nothing
    <2>4. QED BY <1>1, <1>3, <2>1, <2>3, Unwritten
  <1>7. QED BY <1>5, <1>6

LEMMA CreateThreadRightly ==
    ASSUME Rightly, NEW p \in Pids, NEW n \in Names, CreateThread(p, n)
    PROVE  Rightly'
  <1> USE DEF Rightly
  <1>1. p \in alive /\ n \in own[p] /\ Right(p) /\ UNCHANGED <<world, EXITS, startup>>
    BY DEF CreateThread
  <1>2. CASE Hooked("sched_process_fork")
    <2>1. /\ Insert(p, [name |-> n, uid |-> uid[p]]) /\ attached >= 2
          /\ inherited' = inherited \ {p} /\ missedUid' = missedUid \ {p}
      BY <1>2, Attached DEF CreateThread, Startup
    <2>2. [name |-> n, uid |-> uid[p]] \in Identities
      BY DEF Identities, Data, Living
    <2>3. Living' /\ Elsewhere(p)
      BY <1>1, <2>1 DEF Data, Living, Elsewhere, world
    <2>4. QED BY <1>1, <2>1, <2>2, <2>3, Written DEF world, Right
  <1>3. CASE ~Hooked("sched_process_fork")
    <2>1. NoWrite /\ UNCHANGED <<inherited, missedUid>>
      BY <1>3 DEF CreateThread
    <2>2. Living' /\ Elsewhere(p)
      BY <1>1, <2>1 DEF Data, Living, Elsewhere, world
    <2>3. Right(p)'
      BY <1>1, <2>1 DEF Right, Own, NoWrite, world, startup
    <2>4. QED BY <1>1, <2>1, <2>2, <2>3, Unwritten
  <1>4. QED BY <1>2, <1>3

(* Before the exec hook is attached no entry is of an earlier program.     *)
LEMMA ExecRightly ==
    ASSUME Rightly, NEW p \in Pids, NEW u \in Uids, sched_process_exec(p, u)
    PROVE  Rightly'
  <1> USE DEF Rightly
  <1> DEFINE n == names + 1
  <1>1. /\ p \in alive /\ names < MaxNames /\ names' = n /\ comm' = [comm EXCEPT ![p] = n]
        /\ uid' = [uid EXCEPT ![p] = u] /\ own' = [own EXCEPT ![p] = {n}]
        /\ UNCHANGED <<alive, EXITS, startup>>
    BY DEF sched_process_exec
  <1>2. n \in Names
    BY <1>1, BoundsAssumption DEF Data, Living, Names
  <1>3. comm'[p] = n /\ uid'[p] = u /\ own'[p] = {n}
    BY <1>1 DEF Data, Living
  <1>4. CASE Hooked("sched_process_exec")
    <2>1. /\ Insert(p, [name |-> n, uid |-> u]) /\ attached >= 2
          /\ inherited' = inherited \ {p} /\ missedUid' = missedUid \ {p}
      BY <1>4, Attached DEF sched_process_exec, Startup
    <2>2. [name |-> n, uid |-> u] \in Identities
      BY <1>2 DEF Identities
    <2> HIDE DEF n
    <2>3. Living' /\ Elsewhere(p)
      BY <1>1, <1>2, <2>1 DEF Data, Living, Elsewhere
    <2>4. QED BY <1>1, <1>3, <2>1, <2>2, <2>3, Written
  <1>5. CASE ~Hooked("sched_process_exec")
    <2>1. NoWrite /\ UNCHANGED <<inherited, missedUid>>
      BY <1>5 DEF sched_process_exec
    <2>2. COMM_MAP = Nothing /\ seed = Nothing /\ half = <<>>
      BY <1>5, Attached DEF Startup
    <2> HIDE DEF n
    <2>3. Living' /\ Elsewhere(p)
      BY <1>1, <1>2, <2>1 DEF Data, Living, Elsewhere
    <2>4. Right(p)'
      BY <1>1, <1>3, <2>1, <2>2 DEF Right, NoWrite, startup, Nothing
    <2>5. QED BY <1>1, <2>1, <2>3, <2>4, Unwritten
  <1>6. QED BY <1>4, <1>5

(* A process that has one more name may still be shown with the others.    *)
LEMMA RenameRightly ==
    ASSUME Rightly, NEW p \in Pids, NEW leader \in BOOLEAN, Rename(p, leader)
    PROVE  Rightly'
  <1> USE DEF Rightly
  <1> DEFINE n == names + 1
  <1>1. /\ p \in alive /\ names < MaxNames /\ names' = n
        /\ comm' = IF leader THEN [comm EXCEPT ![p] = n] ELSE comm
        /\ own' = [own EXCEPT ![p] = own[p] \cup {n}]
        /\ UNCHANGED <<alive, uid, COMM_MAP, EXITS, startup, flaws>>
    BY DEF Rename
  <1>2. n \in Names
    BY <1>1, BoundsAssumption DEF Data, Living, Names
  <1> HIDE DEF n
  <1>3. Living' /\ Elsewhere(p)
    BY <1>1, <1>2 DEF Data, Living, Elsewhere, flaws
  <1>4. own[p] \subseteq own'[p] /\ n \in own'[p] /\ comm'[p] \in {comm[p], n} /\ uid' = uid
    BY <1>1 DEF Data, Living
  <1>5. Right(p)'
    BY <1>1, <1>4 DEF Right, Own, flaws, startup
  <1>6. QED BY <1>1, <1>3, <1>5, Unwritten DEF NoWrite, flaws

LEMMA CredsRightly ==
    ASSUME Rightly, NEW p \in Pids, NEW n \in Names, NEW u \in Uids, commit_creds(p, n, u)
    PROVE  Rightly'
  <1> USE DEF Rightly
  <1>1. /\ p \in alive /\ n \in own[p] /\ Right(p) /\ uid' = [uid EXCEPT ![p] = u]
        /\ UNCHANGED <<alive, comm, names, own, EXITS, startup, inherited>>
    BY DEF commit_creds
  <1>2. uid'[p] = u
    BY <1>1 DEF Data, Living
  <1>3. CASE creds = "attached"
    <2> DEFINE i == IF p \in DOMAIN COMM_MAP THEN [COMM_MAP[p] EXCEPT !.uid = u]
                    ELSE [name |-> n, uid |-> u]
    <2>1. /\ Insert(p, i) /\ attached >= 2 /\ missedUid' = missedUid \ {p}
      BY <1>3 DEF commit_creds, set_uid, Startup
    <2>2. i \in Identities /\ i.uid = u
      BY DEF Identities, Data
    <2>3. p \notin inherited => i.name \in own[p]
      BY <1>1 DEF Right, Own, Data, Identities
    <2>4. Living' /\ Elsewhere(p)
      BY <1>1, <2>1 DEF Data, Living, Elsewhere
    <2> HIDE DEF i
    <2>5. QED BY <1>1, <1>2, <2>1, <2>2, <2>3, <2>4, Written DEF Right
  <1>4. CASE creds # "attached"
    <2>1. NoWrite /\ missedUid' = missedUid \cup {p}
      BY <1>4 DEF commit_creds
    <2>2. Living' /\ Elsewhere(p)
      BY <1>1, <2>1 DEF Data, Living, Elsewhere
    <2>3. Right(p)'
      BY <1>1, <2>1 DEF Right, Own, NoWrite, startup
    <2>4. QED BY <1>1, <2>1, <2>2, <2>3, Unwritten
  <1>5. QED BY <1>3, <1>4

LEMMA ExitRightly ==
    ASSUME Rightly, NEW p \in Pids, sched_process_exit(p)
    PROVE  Rightly'
  <1> USE DEF Rightly
  <1>1. /\ alive' = alive \ {p} /\ own' = [own EXCEPT ![p] = {}]
        /\ EXITS' \in {EXITS, Append(EXITS, p)}
        /\ UNCHANGED <<comm, uid, names, COMM_MAP, startup, flaws>>
    BY DEF sched_process_exit
  <1>2. Living' /\ Elsewhere(p)
    BY <1>1 DEF Data, Living, Elsewhere, flaws
  <1>3. QED BY <1>1, <1>2, Unwritten DEF NoWrite, flaws

-----------------------------------------------------------------------------
(* truetop's steps. *)

(* No process does anything meanwhile. *)
LEMMA StartupRightly ==
    ASSUME Rightly, UNCHANGED <<world, COMM_MAP, EXITS, seed, flaws>>, Startup',
           half' = <<>> \/ \E p \in alive : half' = <<p, comm[p]>> \/ half' = half
    PROVE  Rightly'
  <1> USE DEF Rightly, world, flaws
  <1>1. Living'
    BY DEF Data, Living
  <1>2. half' \in {<<>>} \cup (Pids \X Names)
    BY DEF Data, Living
  <1>3. Data'
    BY <1>1, <1>2 DEF Data
  <1>4. ASSUME NEW q \in alive PROVE Right(q)'
    <2>1. Right(q)
      OBVIOUS
    <2>2. half' # <<>> /\ half'[1] = q => half'[2] = comm[q] \/ half' = half
      OBVIOUS
    <2>3. QED BY <2>1, <2>2 DEF Right, Own
  <1>5. QED BY <1>3, <1>4

(* The status is read of the process whose comm was, or of none.           *)
LEMMA ProcUidRightly ==
    ASSUME Rightly, proc_uid
    PROVE  Rightly'
  <1> USE DEF Rightly
  <1> DEFINE h == half[1]
             i == [name |-> half[2], uid |-> uid[h]]
  <1>1. /\ half # <<>> /\ half' = <<>>
        /\ seed' = IF h \in alive THEN [p \in DOMAIN seed \cup {h} |-> IF p = h THEN i ELSE seed[p]]
                   ELSE seed
        /\ missedUid' = IF h \in DOMAIN COMM_MAP THEN missedUid ELSE missedUid \ {h}
        /\ UNCHANGED <<world, COMM_MAP, EXITS, attached, creds, seeding, inherited, lost>>
    BY DEF proc_uid
  <1>2. h \in Pids /\ i \in Identities
    BY <1>1 DEF Data, Living, Identities
  <1>3. Living'
    BY <1>1 DEF Data, Living, world
  <1>4. /\ DOMAIN seed' \subseteq DOMAIN seed \cup {h}
        /\ seed' \in [DOMAIN seed' -> Identities]
        /\ \A q \in DOMAIN seed' : q # h => q \in DOMAIN seed /\ seed'[q] = seed[q]
        /\ h \in alive => seed'[h] = i
    <2> HIDE DEF i, h
    <2>1. QED BY <1>1, <1>2 DEF Data
  <1>5. Data'
    BY <1>1, <1>2, <1>3, <1>4 DEF Data
  <1>6. Startup'
    BY <1>1 DEF Startup
  <1>7. ASSUME NEW q \in alive' PROVE Right(q)'
    <2>1. Right(q) /\ q \in alive
      BY <1>1, <1>7 DEF world
    <2>2. CASE q # h
      BY <1>1, <1>4, <2>1, <2>2 DEF Right, Own, world
    <2>3. CASE q = h
      <3>1. q \in DOMAIN COMM_MAP => q \in missedUid' \/ q \notin missedUid
        BY <1>1, <2>3
      <3>2. q \in DOMAIN COMM_MAP' \ inherited' => Own(q, COMM_MAP[q])'
        BY <1>1, <2>1, <2>3, <3>1 DEF Right, Own, world
      <3>3. seed'[q] = i /\ i.name = half[2] /\ i.uid = uid[q]
        BY <1>4, <2>1, <2>3
      <3>4. q \notin DOMAIN COMM_MAP' \cup lost' => half[2] \in own[q]
        BY <1>1, <2>1, <2>3 DEF Right
      <3>5. q \notin DOMAIN COMM_MAP' \cup lost' => Own(q, seed[q])'
        BY <1>1, <3>3, <3>4 DEF Own, world
      <3>6. QED BY <1>1, <2>1, <3>2, <3>5 DEF Right, world
    <2>4. QED BY <2>2, <2>3
  <1>8. QED BY <1>5, <1>6, <1>7

LEMMA ForgetRightly ==
    ASSUME Rightly, forget
    PROVE  Rightly'
  <1> USE DEF Rightly
  <1> DEFINE p == Head(EXITS)
  <1>1. /\ seeding \in {"done", "failed"} /\ EXITS # <<>> /\ EXITS' = Tail(EXITS)
        /\ COMM_MAP' = Remove(COMM_MAP, p) /\ seed' = Remove(seed, p)
        /\ UNCHANGED <<world, attached, creds, seeding, half, inherited, missedUid, lost>>
    BY DEF forget, Ready
  <1>2. EXITS \in Seq(Pids) /\ half = <<>>
    BY <1>1 DEF Data, Living, Startup
  <1>3. EXITS' \in Seq(Pids)
    BY <1>1, <1>2
  <1> HIDE DEF p
  <1>4. Data'
    BY <1>1, <1>3 DEF Data, Living, world, Remove
  <1>5. Startup'
    BY <1>1 DEF Startup
  <1>6. ASSUME NEW q \in alive' PROVE Right(q)'
    BY <1>1, <1>2, <1>6 DEF Right, Own, world, Remove
  <1>7. QED BY <1>4, <1>5, <1>6

LEMMA StepRightly == Rightly /\ [Next]_vars => Rightly'
  <1> SUFFICES ASSUME Rightly, [Next]_vars PROVE Rightly'
    OBVIOUS
  <1> USE DEF Rightly
  <1>1. ASSUME NEW p \in Pids, NEW n \in Names, NEW u \in Uids,
               sched_process_fork(p, n, u) \/ commit_creds(p, n, u)
        PROVE  Rightly'
    BY <1>1, ForkRightly, CredsRightly
  <1>2. ASSUME NEW p \in Pids, NEW n \in Names, CreateThread(p, n) PROVE Rightly'
    BY <1>2, CreateThreadRightly
  <1>3. ASSUME NEW p \in Pids, NEW u \in Uids, sched_process_exec(p, u) PROVE Rightly'
    BY <1>3, ExecRightly
  <1>4. ASSUME NEW p \in Pids, NEW leader \in BOOLEAN, Rename(p, leader) PROVE Rightly'
    BY <1>4, RenameRightly
  <1>5. ASSUME NEW p \in Pids, sched_process_exit(p) PROVE Rightly'
    BY <1>5, ExitRightly
  <1>6. CASE attach_raw_tracepoint
    <2>1. Startup'
      BY <1>6 DEF attach_raw_tracepoint, Startup, Hooks
    <2>2. QED BY <1>6, <2>1, StartupRightly DEF attach_raw_tracepoint, Startup
  <1>7. CASE attach_creds
    <2>1. Startup'
      BY <1>7 DEF attach_creds, Startup, Hooks
    <2>2. QED BY <1>7, <2>1, StartupRightly DEF attach_creds, Startup
  <1>8. CASE backfill_begin
    <2>1. Startup' /\ half' = <<>>
      BY <1>8 DEF backfill_begin, Startup
    <2>2. QED BY <1>8, <2>1, StartupRightly DEF backfill_begin
  <1>9. ASSUME NEW p \in Pids, backfill_comm(p) PROVE Rightly'
    <2>1. Startup'
      BY <1>9 DEF backfill_comm, Startup
    <2>2. QED BY <1>9, <2>1, StartupRightly DEF backfill_comm
  <1>10. CASE proc_uid
    BY <1>10, ProcUidRightly
  <1>11. CASE backfill_end
    <2>1. Startup' /\ half' = <<>>
      BY <1>11 DEF backfill_end, Startup
    <2>2. QED BY <1>11, <2>1, StartupRightly DEF backfill_end
  <1>12. CASE forget
    BY <1>12, ForgetRightly
  <1>13. CASE UNCHANGED vars
    BY <1>13 DEF vars, world, startup, flaws, Data, Living, Startup, Right, Own
  <1>14. QED
    BY <1>1, <1>2, <1>3, <1>4, <1>5, <1>6, <1>7, <1>8, <1>9, <1>10, <1>11, <1>12, <1>13
       DEF Next, Processes, Truetop

(* A row is labelled from the map, or from what the startup's walk read;   *)
(* the hooks keep the first its process's own, and the order of the        *)
(* startup, hooks before walk, has a hook see whatever makes the second    *)
(* wrong (lib.rs:227-264, identity.rs).                                    *)
THEOREM ShownIsItsOwn == Spec => []ShownIsOwn
  <1>1. Rightly => ShownIsOwn
    <2> SUFFICES ASSUME Rightly, Ready, NEW p \in alive \ (lost \cup inherited), named(p) # Unknown
                 PROVE  Own(p, named(p))
      BY DEF ShownIsOwn, Own
    <2>1. Right(p)
      BY DEF Rightly
    <2>2. QED BY <2>1 DEF Right, named
  <1>2. QED BY <1>1, InitRightly, StepRightly, PTL DEF Spec

-----------------------------------------------------------------------------
(* Where a live process is to be found, as the walk goes on. *)
Known(p) == p \in DOMAIN COMM_MAP \cup DOMAIN seed
Found(p) ==
    /\ seeding = "list" => Known(p) \/ p \in todo \/ (half # <<>> /\ half[1] = p)
    /\ seeding = "done" => Known(p)

Listed == Rightly /\ \A p \in alive \ (lost \cup stripped) : Found(p)

LEMMA InitListed == Init => Listed
  BY InitRightly DEF Init, Listed, Found

(* A hook that writes, or a process that does what no hook sees.           *)
LEMMA WrittenListed ==
    ASSUME Listed, Rightly', NEW p \in Pids, NEW i \in Identities, Insert(p, i),
           UNCHANGED startup, alive' \subseteq alive \cup {p}, stripped \subseteq stripped' \cup {p}
    PROVE  Listed'
  <1> USE DEF Listed, Rightly
  <1>1. /\ p \in DOMAIN COMM_MAP'
        /\ \A q \in Pids : q # p =>
              (q \in DOMAIN COMM_MAP' \cup lost' <=> q \in DOMAIN COMM_MAP \cup lost)
    BY Inserted
  <1>2. ASSUME NEW q \in alive' \ (lost' \cup stripped')
        PROVE  Found(q)'
    <2>1. q \in Pids /\ (q = p \/ q \in alive \ stripped)
      BY <1>2 DEF Data, Living
    <2>2. q \in DOMAIN COMM_MAP' \/ q \in alive \ (lost \cup stripped \cup DOMAIN COMM_MAP)
      BY <1>1, <1>2, <2>1
    <2>3. QED BY <2>2 DEF Found, Known, startup
  <1>3. QED BY <1>2

LEMMA UnwrittenListed ==
    ASSUME Listed, Rightly', NoWrite, UNCHANGED startup,
           seeding # "before" => alive' \subseteq alive /\ stripped' = stripped
    PROVE  Listed'
  BY DEF Listed, Found, Known, NoWrite, startup

LEMMA ProcessListed ==
    ASSUME Listed, Rightly', Processes
    PROVE  Listed'
  <1> USE DEF Listed, Rightly
  <1>1. seeding # "before" => Hooked("sched_process_fork") /\ Hooked("sched_process_exec")
    BY Attached DEF Startup
  <1>2. ASSUME NEW p \in Pids, NEW n \in Names, NEW u \in Uids, sched_process_fork(p, n, u)
        PROVE  Listed'
    <2>1. [name |-> n, uid |-> u] \in Identities
      BY DEF Identities
    <2>2. QED
      BY <1>1, <1>2, <2>1, WrittenListed, UnwrittenListed DEF sched_process_fork
  <1>3. ASSUME NEW p \in Pids, NEW n \in Names, CreateThread(p, n)
        PROVE  Listed'
    <2>1. [name |-> n, uid |-> uid[p]] \in Identities
      BY DEF Identities, Data, Living
    <2>2. QED
      BY <1>3, <2>1, WrittenListed, UnwrittenListed DEF CreateThread, world
  <1>4. ASSUME NEW p \in Pids, NEW u \in Uids, sched_process_exec(p, u)
        PROVE  Listed'
    <2>1. [name |-> names + 1, uid |-> u] \in Identities
      BY <1>4, BoundsAssumption DEF sched_process_exec, Identities, Names, Data, Living
    <2>2. QED
      BY <1>1, <1>4, <2>1, WrittenListed, UnwrittenListed DEF sched_process_exec
  <1>5. ASSUME NEW p \in Pids, NEW leader \in BOOLEAN, Rename(p, leader)
        PROVE  Listed'
    BY <1>5, UnwrittenListed DEF Rename, NoWrite, flaws
  <1>6. ASSUME NEW p \in Pids, NEW n \in Names, NEW u \in Uids, commit_creds(p, n, u)
        PROVE  Listed'
    <2> DEFINE i == IF p \in DOMAIN COMM_MAP THEN [COMM_MAP[p] EXCEPT !.uid = u]
                    ELSE [name |-> n, uid |-> u]
    <2>1. i \in Identities
      BY DEF Identities, Data
    <2>2. creds = "attached" => Insert(p, i)
      BY <1>6 DEF commit_creds, set_uid
    <2>3. creds # "attached" => NoWrite
      BY <1>6 DEF commit_creds
    <2> HIDE DEF i
    <2>4. QED BY <1>6, <2>1, <2>2, <2>3, WrittenListed, UnwrittenListed DEF commit_creds
  <1>7. ASSUME NEW p \in Pids, sched_process_exit(p)
        PROVE  Listed'
    BY <1>7, UnwrittenListed DEF sched_process_exit, NoWrite, flaws
  <1>8. QED BY <1>2, <1>3, <1>4, <1>5, <1>6, <1>7 DEF Processes

LEMMA StepListed == Listed /\ [Next]_vars => Listed'
  <1> SUFFICES ASSUME Listed, [Next]_vars PROVE Listed'
    OBVIOUS
  <1> USE DEF Listed, world, flaws
  <1>1. Rightly'
    BY StepRightly
  <1>2. CASE Processes
    BY <1>1, <1>2, ProcessListed
  <1>3. CASE attach_raw_tracepoint \/ attach_creds
    BY <1>1, <1>3 DEF attach_raw_tracepoint, attach_creds, Found, Known
  <1>4. CASE backfill_begin
    BY <1>1, <1>4 DEF backfill_begin, Found, Known
  <1>5. ASSUME NEW p \in Pids, backfill_comm(p) PROVE Listed'
    <2>1. ASSUME NEW q \in alive' \ (lost' \cup stripped') PROVE Found(q)'
      BY <1>5, <2>1 DEF backfill_comm, Found, Known
    <2>2. QED BY <1>1, <2>1
  <1>6. CASE proc_uid
    <2>1. DOMAIN seed \subseteq DOMAIN seed' /\ (half[1] \in alive => half[1] \in DOMAIN seed')
      BY <1>6 DEF proc_uid
    <2>2. ASSUME NEW q \in alive' \ (lost' \cup stripped') PROVE Found(q)'
      BY <1>6, <2>1, <2>2 DEF proc_uid, Found, Known
    <2>3. QED BY <1>1, <2>2
  <1>7. CASE backfill_end
    BY <1>1, <1>7 DEF backfill_end, Found, Known
  <1>8. CASE forget
    <2> DEFINE p == Head(EXITS)
    <2>1. /\ DOMAIN COMM_MAP' = DOMAIN COMM_MAP \ {p} /\ DOMAIN seed' = DOMAIN seed \ {p}
          /\ stripped' = IF p \in alive THEN stripped \cup {p} ELSE stripped
          /\ UNCHANGED <<alive, lost, seeding>> /\ seeding # "list"
      BY <1>8 DEF forget, Remove, Ready
    <2>2. ASSUME NEW q \in alive' \ (lost' \cup stripped') PROVE Found(q)'
      BY <2>1, <2>2 DEF Found, Known
    <2>3. QED BY <1>1, <2>2
  <1>9. CASE UNCHANGED vars
    BY <1>1, <1>9 DEF vars, startup, Found, Known
  <1>10. QED
    BY <1>2, <1>3, <1>4, <1>5, <1>6, <1>7, <1>8, <1>9 DEF Next, Truetop

(* The walk, if /proc opened, misses nobody: a process it does not list    *)
(* was created after a hook was there to record it (lib.rs:227-264).       *)
THEOREM KnownFromTheStart == Spec => []KnownFromTheFirstTick
  <1>1. Listed => KnownFromTheFirstTick
    <2> SUFFICES ASSUME Listed, seeding = "done", NEW p \in alive \ (lost \cup stripped)
                 PROVE  named(p) # Unknown
      BY DEF KnownFromTheFirstTick
    <2>1. Known(p)
      BY DEF Listed, Found
    <2>2. named(p) \in Identities
      BY <2>1 DEF Known, named, Listed, Rightly, Data
    <2>3. "name" \in DOMAIN named(p) /\ "name" \notin DOMAIN Unknown
      BY <2>2 DEF Identities, Unknown, Nothing
    <2>4. QED BY <2>3
  <1>2. QED BY <1>1, InitListed, StepListed, PTL DEF Spec

-----------------------------------------------------------------------------
(* The capacities, and the types the above has no use for. *)
Bounded ==
    /\ IsFiniteSet(DOMAIN COMM_MAP) /\ Cardinality(DOMAIN COMM_MAP) <= MaxEntries
    /\ Len(EXITS) <= RingCapacity
    /\ creds \in {"untried", "attached", "failed"}
    /\ seeding \in {"before", "list", "done", "failed"}
    /\ todo \subseteq Pids /\ stripped \subseteq Pids

(* A full map makes room for the entry it takes. *)
LEMMA InsertBounded ==
    ASSUME Bounded, NEW p, NEW i, Insert(p, i)
    PROVE  IsFiniteSet(DOMAIN COMM_MAP') /\ Cardinality(DOMAIN COMM_MAP') <= MaxEntries
  <1> USE CapacityAssumption DEF Bounded
  <1> DEFINE D == DOMAIN COMM_MAP
             full == p \notin D /\ Cardinality(D) = MaxEntries
  <1>1. PICK out \in IF full THEN {{v} : v \in D} ELSE {{}} : DOMAIN COMM_MAP' = (D \ out) \cup {p}
    BY DEF Insert
  <1>2. Cardinality(D) \in Nat
    BY FS_CardinalityType
  <1>3. CASE full
    <2>1. PICK v \in D : out = {v}
      BY <1>1, <1>3
    <2>2. IsFiniteSet(D \ {v}) /\ Cardinality(D \ {v}) = Cardinality(D) - 1
      BY <2>1, FS_RemoveElement
    <2>3. IsFiniteSet((D \ {v}) \cup {p}) /\ Cardinality((D \ {v}) \cup {p}) = Cardinality(D \ {v}) + 1
      BY <1>3, <2>2, FS_AddElement
    <2>4. QED BY <1>1, <1>2, <1>3, <2>1, <2>2, <2>3
  <1>4. CASE ~full
    <2>1. DOMAIN COMM_MAP' = D \cup {p}
      BY <1>1, <1>4
    <2>2. IsFiniteSet(D \cup {p})
      BY FS_AddElement
    <2>3. Cardinality(D \cup {p}) = IF p \in D THEN Cardinality(D) ELSE Cardinality(D) + 1
      BY FS_AddElement
    <2>4. QED BY <1>2, <1>4, <2>1, <2>2, <2>3
  <1>5. QED BY <1>3, <1>4

LEMMA StepBounded == Rightly /\ Bounded /\ [Next]_vars => Bounded'
  <1> SUFFICES ASSUME Rightly, Bounded, [Next]_vars PROVE Bounded'
    OBVIOUS
  <1> DEFINE Map == IsFiniteSet(DOMAIN COMM_MAP) /\ Cardinality(DOMAIN COMM_MAP) <= MaxEntries
             Rest == /\ Len(EXITS) <= RingCapacity
                     /\ creds \in {"untried", "attached", "failed"}
                     /\ seeding \in {"before", "list", "done", "failed"}
                     /\ todo \subseteq Pids /\ stripped \subseteq Pids
  <1>1. EXITS \in Seq(Pids) /\ alive \subseteq Pids
    BY DEF Rightly, Data, Living
  <1>2. ASSUME NEW p, NEW i, Insert(p, i) PROVE Map'
    BY <1>2, InsertBounded
  <1>3. ASSUME COMM_MAP' = COMM_MAP PROVE Map'
    BY <1>3 DEF Bounded
  <1>4. ASSUME UNCHANGED <<EXITS, startup>>, stripped' \subseteq stripped PROVE Rest'
    BY <1>4 DEF Bounded, startup
  <1>5. ASSUME NEW p \in Pids, NEW n \in Names, NEW u \in Uids,
               sched_process_fork(p, n, u) \/ commit_creds(p, n, u)
        PROVE  Map' /\ Rest'
    <2> HIDE DEF Map, Rest
    <2>1. CASE sched_process_fork(p, n, u)
      BY <2>1, <1>2, <1>3, <1>4 DEF sched_process_fork, NoWrite
    <2>2. CASE commit_creds(p, n, u)
      BY <2>2, <1>2, <1>3, <1>4 DEF commit_creds, set_uid, NoWrite
    <2>3. QED BY <1>5, <2>1, <2>2
  <1>6. ASSUME NEW p \in Pids, NEW n \in Names, CreateThread(p, n) PROVE Map' /\ Rest'
    <2> HIDE DEF Map, Rest
    <2>1. QED BY <1>6, <1>2, <1>3, <1>4 DEF CreateThread, NoWrite
  <1>7. ASSUME NEW p \in Pids, NEW u \in Uids, sched_process_exec(p, u) PROVE Map' /\ Rest'
    <2> HIDE DEF Map, Rest
    <2>1. QED BY <1>7, <1>2, <1>3, <1>4 DEF sched_process_exec, NoWrite
  <1>8. ASSUME NEW p \in Pids, NEW leader \in BOOLEAN, Rename(p, leader) PROVE Map' /\ Rest'
    <2> HIDE DEF Map, Rest
    <2>1. QED BY <1>8, <1>3, <1>4 DEF Rename, flaws
  <1>9. ASSUME NEW p \in Pids, sched_process_exit(p) PROVE Map' /\ Rest'
    <2>1. Len(EXITS') <= RingCapacity
      BY <1>1, <1>9, CapacityAssumption DEF sched_process_exit, Bounded
    <2>2. Rest'
      BY <1>9, <2>1 DEF sched_process_exit, Bounded, startup, flaws
    <2>3. QED BY <1>9, <1>3, <2>2 DEF sched_process_exit
  <1>10. ASSUME attach_raw_tracepoint \/ attach_creds \/ backfill_begin \/ backfill_end \/ proc_uid
         PROVE  Map' /\ Rest'
    BY <1>1, <1>10 DEF attach_raw_tracepoint, attach_creds, backfill_begin, backfill_end, proc_uid,
                       Bounded, flaws
  <1>11. ASSUME NEW p \in Pids, backfill_comm(p) PROVE Map' /\ Rest'
    BY <1>11 DEF backfill_comm, Bounded, flaws
  <1>12. ASSUME forget PROVE Map' /\ Rest'
    <2> DEFINE p == Head(EXITS)
    <2>1. DOMAIN COMM_MAP' \subseteq DOMAIN COMM_MAP
      BY <1>12 DEF forget, Remove
    <2>2. Map'
      <3>1. IsFiniteSet(DOMAIN COMM_MAP') /\ Cardinality(DOMAIN COMM_MAP') <= Cardinality(DOMAIN COMM_MAP)
        BY <2>1, FS_Subset DEF Bounded
      <3>2. Cardinality(DOMAIN COMM_MAP') \in Nat /\ Cardinality(DOMAIN COMM_MAP) \in Nat
        BY <3>1, FS_CardinalityType DEF Bounded
      <3>3. QED BY <3>1, <3>2, CapacityAssumption DEF Bounded
    <2>3. EXITS # <<>> /\ EXITS' = Tail(EXITS)
      BY <1>12 DEF forget
    <2>4. Len(EXITS') <= RingCapacity
      BY <1>1, <2>3, CapacityAssumption DEF Bounded
    <2>5. stripped' \subseteq stripped \cup alive
      BY <1>12 DEF forget
    <2>6. Rest'
      BY <1>1, <1>12, <2>4, <2>5 DEF forget, Bounded
    <2>7. QED BY <2>2, <2>6
  <1>13. ASSUME UNCHANGED vars PROVE Map' /\ Rest'
    BY <1>3, <1>4, <1>13 DEF vars, flaws
  <1>14. Map' /\ Rest'
    <2> HIDE DEF Map, Rest
    <2>1. QED
      BY <1>5, <1>6, <1>7, <1>8, <1>9, <1>10, <1>11, <1>12, <1>13 DEF Next, Processes, Truetop
  <1>15. QED BY <1>14 DEF Bounded

(* comm.rs's map and exit_notify.rs's ring stay within what they were      *)
(* sized to, and every variable within its type.                           *)
THEOREM TypeCorrect == Spec => []TypeOK
  <1>1. Init => Bounded
    <2> SUFFICES ASSUME Init PROVE Bounded
      OBVIOUS
    <2>1. DOMAIN COMM_MAP = {} /\ IsFiniteSet({}) /\ Cardinality({}) = 0
      BY FS_EmptySet DEF Init, Nothing
    <2>2. QED BY <2>1, CapacityAssumption DEF Init, Bounded
  <1>2. Rightly /\ Bounded => TypeOK
    BY DEF Rightly, Data, Living, Startup, Bounded, TypeOK, Hooks
  <1>3. QED BY <1>1, <1>2, InitRightly, StepRightly, StepBounded, PTL DEF Spec
=============================================================================
