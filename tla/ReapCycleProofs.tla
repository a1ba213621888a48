-------------------------- MODULE ReapCycleProofs --------------------------
(***************************************************************************)
(* What the deltas report through exits, reaps, evictions, reads cut       *)
(* short, resurrected entries and recycled pids: never more than was used, *)
(* exactly what was used between two reads, and all of what has ended; and *)
(* whose entries a record can delete.  Proved for any set of pids, ring,   *)
(* budget and number of lives.                                             *)
(***************************************************************************)
EXTENDS ReapCycle, TLAPS

(* The data the argument is about has its types. *)
DataOK ==
    /\ inflight \in [Pids -> Nat]
    /\ DOMAIN CPU_NS \subseteq Pids
    /\ CPU_NS \in [DOMAIN CPU_NS -> Nat]
    /\ prev \in [DOMAIN prev -> Nat]
    /\ used \in [Pids -> Nat]
    /\ reported \in [Pids -> Nat]

(* What a read would show of p now. *)
Total(p) == ValueOf(CPU_NS, p) + inflight[p]

(* The next delta is part of what is used and not yet reported: with a     *)
(* baseline, the growth of the total over it is already paid for, unless   *)
(* the baseline was only a part of the total.                              *)
Covered(p) ==
    p \notin misread =>
       /\ reported[p] <= used[p]
       /\ p \in DOMAIN prev => reported[p] + Total(p) <= used[p] + prev[p]

(* NoInventedTime alone says nothing of the total the next read will find. *)
IInv == DataOK /\ \A p \in Pids : Covered(p)

-----------------------------------------------------------------------------
(* One more value in a map of counters, or one entry fewer. *)
LEMMA WithDomain ==
    ASSUME NEW m, m \in [DOMAIN m -> Nat], NEW p, NEW v \in Nat
    PROVE  DOMAIN With(m, p, v) = DOMAIN m \cup {p} /\ With(m, p, v) \in [DOMAIN m \cup {p} -> Nat]
  BY DEF With

LEMMA WithValue ==
    ASSUME NEW m, m \in [DOMAIN m -> Nat], NEW p, NEW v \in Nat, NEW q
    PROVE  ValueOf(With(m, p, v), q) = IF q = p THEN v ELSE ValueOf(m, q)
  BY DEF With, ValueOf

LEMMA WithoutDomain ==
    ASSUME NEW m, m \in [DOMAIN m -> Nat], NEW p
    PROVE  DOMAIN Without(m, p) = DOMAIN m \ {p} /\ Without(m, p) \in [DOMAIN m \ {p} -> Nat]
  BY DEF Without

LEMMA WithoutValue ==
    ASSUME NEW m, m \in [DOMAIN m -> Nat], NEW p, NEW q
    PROVE  /\ ValueOf(m, q) \in Nat /\ ValueOf(Without(m, p), q) \in Nat
           /\ ValueOf(Without(m, p), q) <= ValueOf(m, q)
  BY DEF Without, ValueOf

LEMMA InitIInv == Init => IInv
  BY DEF Init, IInv, DataOK, Covered, Nothing

(* A step that neither reads nor uses CPU time, and leaves no total        *)
(* larger, keeps every pid covered.                                        *)
LEMMA KeepsCovered ==
    ASSUME IInv, DataOK',
           UNCHANGED <<prev, used, reported, misread>>,
           \A p \in Pids : Total(p)' \in Nat /\ Total(p)' <= Total(p)
    PROVE  IInv'
  <1>1. ASSUME NEW p \in Pids
        PROVE  Covered(p)'
    <2>1. Covered(p) /\ reported[p] \in Nat /\ used[p] \in Nat
      BY DEF IInv, DataOK
    <2>2. ValueOf(CPU_NS, p) \in Nat /\ inflight[p] \in Nat
      BY DEF IInv, DataOK, ValueOf
    <2>3. Total(p) \in Nat /\ Total(p)' \in Nat /\ Total(p)' <= Total(p)
      BY <2>2 DEF Total
    <2>4. p \in DOMAIN prev => prev[p] \in Nat
      BY DEF IInv, DataOK
    <2>5. p \notin misread => reported'[p] <= used'[p]
      BY <2>1 DEF Covered
    <2>6. p \notin misread /\ p \in DOMAIN prev' => reported'[p] + Total(p)' <= used'[p] + prev'[p]
      <3>1. SUFFICES ASSUME p \notin misread, p \in DOMAIN prev
                     PROVE  reported[p] + Total(p)' <= used[p] + prev[p]
        OBVIOUS
      <3>2. reported[p] + Total(p) <= used[p] + prev[p]
        BY <2>1, <3>1 DEF Covered
      <3>3. QED BY <2>1, <2>3, <2>4, <3>1, <3>2
    <2>7. QED BY <2>5, <2>6 DEF Covered
  <1>2. QED BY <1>1 DEF IInv

(* Billing a slice moves it from the in-flight time to the entry.          *)
LEMMA BillIInv ==
    ASSUME IInv, NEW p \in Pids, NEW slice \in 0..inflight[p],
           Bill(p, slice), UNCHANGED <<prev, used, reported, misread>>
    PROVE  IInv'
  <1>1. /\ ValueOf(CPU_NS, p) \in Nat /\ inflight[p] \in Nat
        /\ CPU_NS \in [DOMAIN CPU_NS -> Nat] /\ inflight \in [Pids -> Nat]
    BY DEF IInv, DataOK, ValueOf
  <1>2. /\ slice \in Nat /\ slice <= inflight[p]
        /\ ValueOf(CPU_NS, p) + slice \in Nat
        /\ inflight[p] - slice \in Nat
    BY <1>1
  <1>3. /\ CPU_NS' \in [DOMAIN CPU_NS' -> Nat]
        /\ DOMAIN CPU_NS' = DOMAIN CPU_NS \cup {p}
    BY <1>1, <1>2, WithDomain DEF Bill
  <1>4. inflight' = [inflight EXCEPT ![p] = inflight[p] - slice]
    BY DEF Bill
  <1>5. ASSUME NEW q \in Pids
        PROVE  Total(q)' \in Nat /\ Total(q)' <= Total(q)
    <2>1. Total(q)' = ValueOf(CPU_NS', q) + inflight'[q]
      BY DEF Total, ValueOf
    <2>2. inflight'[q] = (IF q = p THEN inflight[p] - slice ELSE inflight[q])
          /\ inflight[q] \in Nat
      BY <1>1, <1>4
    <2>3. ValueOf(CPU_NS', q) = IF q = p THEN ValueOf(CPU_NS, p) + slice
                                         ELSE ValueOf(CPU_NS, q)
      BY <1>1, <1>2, WithValue DEF Bill
    <2>4. ValueOf(CPU_NS, q) \in Nat
      BY <1>1 DEF ValueOf
    <2>5. CASE q = p
      BY <1>1, <1>2, <2>1, <2>2, <2>3, <2>5 DEF Total
    <2>6. CASE q # p
      BY <2>1, <2>2, <2>3, <2>4, <2>6 DEF Total
    <2>7. QED BY <2>5, <2>6
  <1>6. inflight' \in [Pids -> Nat]
    BY <1>1, <1>2, <1>4
  <1>7. DataOK'
    BY <1>3, <1>6 DEF IInv, DataOK
  <1>8. QED BY <1>5, <1>7, KeepsCovered

-----------------------------------------------------------------------------
LEMMA RunIInv ==
    ASSUME IInv, NEW p \in Pids, Run(p)
    PROVE  IInv'
  <1>1. /\ inflight' = [inflight EXCEPT ![p] = inflight[p] + 1]
        /\ used' = [used EXCEPT ![p] = used[p] + 1]
        /\ CPU_NS' = CPU_NS /\ prev' = prev /\ reported' = reported
        /\ misread' = misread
    BY DEF Run, maps, collector
  <1>2. DataOK'
    BY <1>1 DEF IInv, DataOK
  <1>3. ASSUME NEW q \in Pids
        PROVE  Covered(q)'
    <2>1. /\ Covered(q) /\ reported[q] \in Nat /\ used[q] \in Nat
          /\ inflight[q] \in Nat /\ ValueOf(CPU_NS, q) \in Nat
          /\ q \in DOMAIN prev => prev[q] \in Nat
      BY DEF IInv, DataOK, ValueOf
    <2>2. Total(q)' = ValueOf(CPU_NS, q) + inflight'[q]
      BY <1>1 DEF Total, ValueOf
    <2>3. CASE q = p
      <3>1. used'[q] = used[q] + 1 /\ inflight'[q] = inflight[q] + 1
        BY <1>1, <2>3 DEF IInv, DataOK
      <3>2. QED BY <1>1, <2>1, <2>2, <3>1 DEF Covered, Total
    <2>4. CASE q # p
      <3>1. used'[q] = used[q] /\ inflight'[q] = inflight[q]
        BY <1>1, <2>4 DEF IInv, DataOK
      <3>2. QED BY <1>1, <2>1, <2>2, <3>1 DEF Covered, Total
    <2>5. QED BY <2>3, <2>4
  <1>4. QED BY <1>2, <1>3 DEF IInv

(* What one read may see: some of the entries, and the slices under way or *)
(* none of them.                                                           *)
ReadOf(keys, running) ==
    /\ keys \subseteq DOMAIN CPU_NS
    /\ running = Running \/ running = {}
    /\ prev' = Snapshot(keys, running)
    /\ cut' = (DOMAIN CPU_NS \ keys) \cup (Running \ running)
    /\ misread' = misread \cup (cut' \cap (keys \cup running))
    /\ reported' = [p \in Pids |-> IF p \in misread' THEN 0
                        ELSE reported[p] + deltas(Snapshot(keys, running))[p]]

LEMMA ReadSees ==
    ASSUME Read
    PROVE  \E keys, running : ReadOf(keys, running)
  BY DEF Read, ReadOf

(* A read shows no more than a pid's total, and all of it unless the pid   *)
(* is among those it cut.                                                  *)
LEMMA SnapshotShows ==
    ASSUME DataOK, NEW keys, NEW running, ReadOf(keys, running), NEW p \in Pids
    PROVE  /\ DOMAIN Snapshot(keys, running) = keys \cup running
           /\ p \in keys \cup running =>
                /\ Snapshot(keys, running)[p] \in Nat
                /\ Snapshot(keys, running)[p] <= Total(p)
                /\ p \notin cut' => Snapshot(keys, running)[p] = Total(p)
           /\ p \notin keys \cup running /\ p \notin cut' => Total(p) = 0
  <1>1. /\ inflight[p] \in Nat
        /\ p \in DOMAIN CPU_NS => CPU_NS[p] \in Nat
    BY DEF DataOK
  <1>2. /\ keys \subseteq DOMAIN CPU_NS
        /\ running \subseteq Running
        /\ cut' = (DOMAIN CPU_NS \ keys) \cup (Running \ running)
    BY DEF ReadOf
  <1>3. p \in Running <=> inflight[p] > 0
    BY DEF Running
  <1>4. DOMAIN Snapshot(keys, running) = keys \cup running
    BY DEF Snapshot
  <1>5. p \in keys \cup running =>
           Snapshot(keys, running)[p] = (IF p \in keys THEN CPU_NS[p] ELSE 0)
                                        + (IF p \in running THEN inflight[p] ELSE 0)
    BY DEF Snapshot
  <1>6. Total(p) = (IF p \in DOMAIN CPU_NS THEN CPU_NS[p] ELSE 0) + inflight[p]
    BY DEF Total, ValueOf
  <1>7. QED BY <1>1, <1>2, <1>3, <1>4, <1>5, <1>6

(* The delta of a pid is 0 or the growth over its baseline. *)
LEMMA DeltaIsGrowth ==
    ASSUME DataOK, NEW keys, NEW running, ReadOf(keys, running), NEW p \in Pids
    PROVE  /\ deltas(Snapshot(keys, running))[p] \in Nat
           /\ deltas(Snapshot(keys, running))[p] # 0 =>
                 /\ p \in DOMAIN prev /\ p \in keys \cup running
                 /\ deltas(Snapshot(keys, running))[p] = Snapshot(keys, running)[p] - prev[p]
  <1>1. /\ DOMAIN Snapshot(keys, running) = keys \cup running
        /\ p \in keys \cup running => Snapshot(keys, running)[p] \in Nat
    BY SnapshotShows
  <1>2. p \in DOMAIN prev => prev[p] \in Nat
    BY DEF DataOK
  <1>3. deltas(Snapshot(keys, running))[p] =
            IF p \in DOMAIN Snapshot(keys, running) \cap DOMAIN prev
               /\ Snapshot(keys, running)[p] > prev[p]
            THEN Snapshot(keys, running)[p] - prev[p] ELSE 0
    BY DEF deltas
  <1>4. QED BY <1>1, <1>2, <1>3

(* The read reports the growth over the baseline, and what it shows        *)
(* becomes the baseline.                                                   *)
LEMMA ReadIInv == IInv /\ Read => IInv'
  <1> SUFFICES ASSUME IInv, Read PROVE IInv'
    OBVIOUS
  <1>1. PICK keys, running : ReadOf(keys, running)
    BY ReadSees
  <1>2. /\ CPU_NS' = CPU_NS /\ inflight' = inflight /\ used' = used
        /\ prev' = Snapshot(keys, running)
        /\ misread' = misread \cup (cut' \cap (keys \cup running))
        /\ reported' = [p \in Pids |-> IF p \in misread' THEN 0
                            ELSE reported[p] + deltas(Snapshot(keys, running))[p]]
        /\ keys \subseteq DOMAIN CPU_NS /\ running \subseteq Running
        /\ DataOK
    BY <1>1 DEF Read, ReadOf, kernel, maps, IInv
  <1>3. ASSUME NEW p \in Pids
        PROVE  /\ Total(p) \in Nat /\ Total(p)' = Total(p)
               /\ reported[p] \in Nat /\ used[p] \in Nat
               /\ p \in DOMAIN prev => prev[p] \in Nat
               /\ Covered(p)
    BY <1>2 DEF IInv, DataOK, Total, ValueOf
  <1>4. ASSUME NEW p \in Pids
        PROVE  reported'[p] \in Nat /\ (p \notin misread' => reported'[p] <= used[p])
    <2>1. reported'[p] = IF p \in misread' THEN 0
                         ELSE reported[p] + deltas(Snapshot(keys, running))[p]
      BY <1>2
    <2>2. /\ deltas(Snapshot(keys, running))[p] \in Nat
          /\ deltas(Snapshot(keys, running))[p] # 0 =>
                /\ p \in DOMAIN prev /\ p \in keys \cup running
                /\ deltas(Snapshot(keys, running))[p] = Snapshot(keys, running)[p] - prev[p]
      BY <1>1, <1>2, DeltaIsGrowth
    <2>3. p \in keys \cup running => /\ Snapshot(keys, running)[p] \in Nat
                                     /\ Snapshot(keys, running)[p] <= Total(p)
      BY <1>1, <1>2, SnapshotShows
    <2>4. p \notin misread' => p \notin misread
      BY <1>2
    <2>5. CASE deltas(Snapshot(keys, running))[p] = 0
      BY <1>3, <2>1, <2>4, <2>5 DEF Covered
    <2>6. CASE deltas(Snapshot(keys, running))[p] # 0
      BY <1>3, <2>1, <2>2, <2>3, <2>4, <2>6 DEF Covered
    <2>7. QED BY <2>5, <2>6
  <1>5. DataOK'
    <2>1. running \subseteq Pids
      BY <1>2 DEF Running
    <2>2. DOMAIN Snapshot(keys, running) = keys \cup running
      BY DEF Snapshot
    <2>3. \A p \in keys \cup running : Snapshot(keys, running)[p] \in Nat
      BY <1>1, <1>2, <2>1, SnapshotShows DEF DataOK
    <2>4. prev' \in [DOMAIN prev' -> Nat]
      BY <1>2, <2>2, <2>3 DEF Snapshot
    <2>5. reported' \in [Pids -> Nat]
      BY <1>2, <1>4
    <2>6. QED BY <1>2, <2>4, <2>5 DEF DataOK
  <1>6. ASSUME NEW p \in Pids PROVE Covered(p)'
    <2>1. SUFFICES ASSUME p \notin misread'
                   PROVE  /\ reported'[p] <= used[p]
                          /\ p \in DOMAIN prev' =>
                               reported'[p] + Total(p) <= used[p] + prev'[p]
      BY <1>2, <1>3 DEF Covered
    <2>2. p \in DOMAIN prev' => prev'[p] = Total(p)
      <3>1. /\ DOMAIN Snapshot(keys, running) = keys \cup running
            /\ p \in keys \cup running /\ p \notin cut' => Snapshot(keys, running)[p] = Total(p)
        BY <1>1, <1>2, SnapshotShows
      <3>2. p \in keys \cup running => p \notin cut'
        BY <1>2, <2>1
      <3> HIDE DEF Snapshot, Total
      <3>3. QED BY <1>2, <3>1, <3>2
    <2>3. QED BY <1>3, <1>4, <2>1, <2>2
  <1>7. QED BY <1>5, <1>6 DEF IInv

(* An entry that is gone only takes time away from the next total.         *)
LEMMA LossIInv ==
    ASSUME IInv, NEW p, CPU_NS' = Without(CPU_NS, p), inflight' = inflight,
           UNCHANGED <<prev, used, reported, misread>>
    PROVE  IInv'
  <1>1. CPU_NS \in [DOMAIN CPU_NS -> Nat] /\ DOMAIN CPU_NS \subseteq Pids
    BY DEF IInv, DataOK
  <1>2. ASSUME NEW q \in Pids
        PROVE  Total(q)' \in Nat /\ Total(q)' <= Total(q)
    <2>1. inflight[q] \in Nat
      BY DEF IInv, DataOK
    <2>2. Total(q)' = ValueOf(CPU_NS', q) + inflight[q]
      BY DEF Total, ValueOf
    <2>3. /\ ValueOf(CPU_NS, q) \in Nat /\ ValueOf(CPU_NS', q) \in Nat
          /\ ValueOf(CPU_NS', q) <= ValueOf(CPU_NS, q)
      BY <1>1, WithoutValue
    <2>4. QED BY <2>1, <2>2, <2>3 DEF Total
  <1>3. DataOK'
    <2>1. DOMAIN CPU_NS' \subseteq Pids /\ CPU_NS' \in [DOMAIN CPU_NS' -> Nat]
      BY <1>1, WithoutDomain
    <2>2. QED BY <2>1 DEF IInv, DataOK
  <1>4. QED BY <1>2, <1>3, KeepsCovered

(* Steps that touch none of the data.                                      *)
LEMMA OtherIInv ==
    ASSUME IInv, UNCHANGED <<CPU_NS, inflight, prev, used, reported, misread>>
    PROVE  IInv'
  BY DEF IInv, DataOK, Covered, Total, ValueOf

-----------------------------------------------------------------------------
LEMMA StepIInv == IInv /\ [Next]_vars => IInv'
  <1> SUFFICES ASSUME IInv, [Next]_vars PROVE IInv'
    OBVIOUS
  <1>1. ASSUME NEW p \in Pids, Fork(p) PROVE IInv'
    BY <1>1, OtherIInv DEF Fork, collector, history
  <1>2. ASSUME NEW p \in Pids, Clone(p) PROVE IInv'
    BY <1>2, OtherIInv DEF Clone, collector, history
  <1>3. ASSUME NEW p \in Pids, Run(p) PROVE IInv'
    BY <1>3, RunIInv
  <1>4. ASSUME NEW p \in Pids, SwitchOut(p) PROVE IInv'
    <2>1. UNCHANGED <<prev, used, reported, misread>>
      BY <1>4 DEF SwitchOut, collector, history
    <2>2. PICK slice \in 1..inflight[p] : Bill(p, slice)
      BY <1>4 DEF SwitchOut
    <2>3. slice \in 0..inflight[p]
      BY DEF IInv, DataOK
    <2>4. QED BY <2>1, <2>2, <2>3, BillIInv
  <1>5. ASSUME NEW p \in Pids, EndWait(p) PROVE IInv'
    BY <1>5, OtherIInv DEF EndWait, kernel, collector, history
  <1>6. ASSUME NEW p \in Pids, ExitThread(p) PROVE IInv'
    BY <1>6, OtherIInv DEF ExitThread, maps, collector, history
  <1>7. ASSUME NEW p \in Pids, ExitHook(p) PROVE IInv'
    BY <1>7, OtherIInv DEF ExitHook, collector, history
  <1>8. ASSUME NEW p \in Pids, LastSwitch(p) PROVE IInv'
    <2>1. UNCHANGED <<prev, used, reported, misread>>
      BY <1>8 DEF LastSwitch, collector, history
    <2>2. PICK slice \in 0..inflight[p] :
             IF slice > 0 THEN Bill(p, slice) ELSE UNCHANGED <<CPU_NS, inflight>>
      BY <1>8 DEF LastSwitch
    <2>3. CASE slice > 0
      BY <2>1, <2>2, <2>3, BillIInv
    <2>4. CASE ~(slice > 0)
      BY <2>1, <2>2, <2>4, OtherIInv
    <2>5. QED BY <2>3, <2>4
  <1>9. CASE Read
    BY <1>9, ReadIInv
  <1>10. CASE BeginReap
    BY <1>10, OtherIInv DEF BeginReap, kernel, maps, history
  <1>11. CASE ReapOne
    BY <1>11, LossIInv DEF ReapOne, kernel
  <1>12. CASE EndTick
    BY <1>12, OtherIInv DEF EndTick, kernel, maps, history
  <1>13. ASSUME NEW p \in Pids, Evict(p) PROVE IInv'
    <2>1. CPU_NS' = CPU_NS \/ CPU_NS' = Without(CPU_NS, p)
      BY <1>13 DEF Evict
    <2>2. inflight' = inflight /\ UNCHANGED <<prev, used, reported, misread>>
      BY <1>13 DEF Evict, kernel, collector
    <2>3. QED BY <2>1, <2>2, LossIInv, OtherIInv
  <1>14. CASE UNCHANGED vars
    BY <1>14, OtherIInv DEF vars, kernel, maps, collector, history
  <1>15. QED
    BY <1>1, <1>2, <1>3, <1>4, <1>5, <1>6, <1>7, <1>8, <1>9, <1>10, <1>11, <1>12, <1>13, <1>14
       DEF Next, Tick

(* What the CPU deltas report for a pid never exceeds the CPU time its     *)
(* processes used: saturating_sub and the missing baseline of a first      *)
(* sight (metrics/cpu.rs:36-53) make every reset of the counter an under-  *)
(* count, whoever reset it and whenever, the reaper or an eviction.  Only  *)
(* a read that shows a part of a total breaks it, for that pid.            *)
THEOREM NothingInvented == Spec => []NoInventedTime
  <1>1. IInv => NoInventedTime
    BY DEF IInv, Covered, NoInventedTime
  <1>2. QED BY <1>1, InitIInv, StepIInv, PTL DEF Spec

-----------------------------------------------------------------------------
(* Whose record takes a live process's entries.  Proved for any number of  *)
(* threads as well.                                                        *)

Lived == [tgid : Pids, life : Nat]

QueueOK ==
    /\ live \in [Pids -> Nat]
    /\ lives \in [Pids -> Nat]
    /\ EXITS \in Seq(Lived)

(* A queued record is of a process the pid has had, and not of the one it  *)
(* has while any of its threads lives.                                     *)
Past(r) ==
    /\ r.life <= lives[r.tgid]
    /\ live[r.tgid] > 0 => r.life < lives[r.tgid]

(* OnlyPredecessorsStrip is about the record at the head; which record     *)
(* gets there is settled when it is announced, behind all the others.      *)
InOrder == QueueOK /\ \A i \in 1..Len(EXITS) : Past(EXITS[i])

-----------------------------------------------------------------------------
LEMMA InitInOrder == Init => InOrder
  BY DEF Init, InOrder, QueueOK

(* A step that queues and drains nothing, and after which every record of  *)
(* a past process is still one, keeps the queue in order.                  *)
LEMMA KeepsPast ==
    ASSUME InOrder, QueueOK', EXITS' = EXITS,
           ASSUME NEW r \in Lived, Past(r) PROVE Past(r)'
    PROVE  InOrder'
  <1>1. ASSUME NEW i \in 1..Len(EXITS)
        PROVE  Past(EXITS[i])'
    <2>1. EXITS[i] \in Lived /\ Past(EXITS[i])
      BY DEF InOrder, QueueOK
    <2>2. ASSUME NEW r, r = EXITS[i]
          PROVE  Past(r)'
      BY <2>1, <2>2
    <2>3. QED BY <2>2 DEF Past
  <1>2. QED BY <1>1 DEF InOrder

(* Steps that touch none of the data.                                      *)
LEMMA OtherInOrder ==
    ASSUME InOrder, UNCHANGED <<live, lives, EXITS>>
    PROVE  InOrder'
  BY DEF InOrder, QueueOK, Past

(* A new life comes after every queued record of the pid.                  *)
LEMMA ForkInOrder ==
    ASSUME InOrder, NEW p \in Pids, Fork(p)
    PROVE  InOrder'
  <1>1. /\ live' = [live EXCEPT ![p] = 1]
        /\ lives' = [lives EXCEPT ![p] = lives[p] + 1]
        /\ EXITS' = EXITS
    BY DEF Fork
  <1>2. live \in [Pids -> Nat] /\ lives \in [Pids -> Nat] /\ QueueOK'
    BY <1>1 DEF InOrder, QueueOK, Lived
  <1>3. ASSUME NEW r \in Lived, Past(r)
        PROVE  Past(r)'
    BY <1>1, <1>2, <1>3 DEF Past, Lived
  <1>4. QED BY <1>1, <1>2, <1>3, KeepsPast

(* A group that is alive gains a thread, or any group loses one.           *)
LEMMA CloneInOrder ==
    ASSUME InOrder, NEW p \in Pids, Clone(p)
    PROVE  InOrder'
  <1>1. /\ live[p] > 0 /\ live' = [live EXCEPT ![p] = live[p] + 1]
        /\ lives' = lives /\ EXITS' = EXITS
    BY DEF Clone
  <1>2. live \in [Pids -> Nat] /\ lives \in [Pids -> Nat] /\ QueueOK'
    BY <1>1 DEF InOrder, QueueOK, Lived
  <1>3. ASSUME NEW r \in Lived, Past(r)
        PROVE  Past(r)'
    BY <1>1, <1>2, <1>3 DEF Past, Lived
  <1>4. QED BY <1>1, <1>2, <1>3, KeepsPast

LEMMA ExitThreadInOrder ==
    ASSUME InOrder, NEW p \in Pids, ExitThread(p)
    PROVE  InOrder'
  <1>1. /\ live[p] > 0 /\ live' = [live EXCEPT ![p] = live[p] - 1]
        /\ lives' = lives /\ EXITS' = EXITS
    BY DEF ExitThread, maps
  <1>2. live \in [Pids -> Nat] /\ lives \in [Pids -> Nat] /\ QueueOK'
    BY <1>1 DEF InOrder, QueueOK, Lived
  <1>3. ASSUME NEW r \in Lived, Past(r)
        PROVE  Past(r)'
    BY <1>1, <1>2, <1>3 DEF Past, Lived
  <1>4. QED BY <1>1, <1>2, <1>3, KeepsPast

(* The hook announces a group only when signal->live is 0.                 *)
LEMMA ExitHookInOrder ==
    ASSUME InOrder, NEW p \in Pids, ExitHook(p)
    PROVE  InOrder'
  <1> DEFINE record == [tgid |-> p, life |-> lives[p]]
  <1>1. /\ live' = live /\ lives' = lives
        /\ EXITS' = EXITS \/ (live[p] = 0 /\ EXITS' = Append(EXITS, record))
    BY DEF ExitHook, group_is_dead, announce
  <1>2. CASE EXITS' = EXITS
    BY <1>1, <1>2, OtherInOrder
  <1>3. CASE live[p] = 0 /\ EXITS' = Append(EXITS, record)
    <2>1. /\ live \in [Pids -> Nat] /\ lives \in [Pids -> Nat]
          /\ EXITS \in Seq(Lived) /\ record \in Lived
      BY DEF InOrder, QueueOK, Lived
    <2>2. Past(record)
      BY <1>3, <2>1 DEF Past
    <2>3. /\ Len(EXITS') = Len(EXITS) + 1
          /\ \A i \in 1..Len(EXITS) : EXITS'[i] = EXITS[i]
          /\ EXITS'[Len(EXITS) + 1] = record
          /\ EXITS' \in Seq(Lived)
      <3> HIDE DEF record
      <3>1. QED BY <1>3, <2>1
    <2>4. ASSUME NEW i \in 1..Len(EXITS')
          PROVE  Past(EXITS'[i])
      <3>1. i \in 1..Len(EXITS) \/ i = Len(EXITS) + 1
        BY <2>1, <2>3
      <3>2. QED BY <2>2, <2>3, <3>1 DEF InOrder
    <2>5. QueueOK'
      BY <1>1, <2>1, <2>3 DEF QueueOK
    <2>6. \A i \in 1..Len(EXITS') : Past(EXITS[i])'
      BY <1>1, <2>4 DEF Past
    <2>7. QED BY <2>5, <2>6 DEF InOrder
  <1>4. QED BY <1>1, <1>2, <1>3

LEMMA ReapInOrder == InOrder /\ ReapOne => InOrder'
  <1> SUFFICES ASSUME InOrder, ReapOne PROVE InOrder'
    OBVIOUS
  <1>1. /\ EXITS # <<>> /\ EXITS' = Tail(EXITS)
        /\ live' = live /\ lives' = lives
    BY DEF ReapOne, kernel, threads
  <1>2. EXITS \in Seq(Lived)
    BY DEF InOrder, QueueOK
  <1>3. /\ EXITS' \in Seq(Lived)
        /\ \A i \in 1..Len(EXITS') : i + 1 \in 1..Len(EXITS) /\ EXITS'[i] = EXITS[i + 1]
    BY <1>1, <1>2
  <1>4. \A i \in 1..Len(EXITS') : Past(EXITS[i])'
    BY <1>1, <1>3 DEF InOrder, Past
  <1>5. QED BY <1>1, <1>3, <1>4 DEF InOrder, QueueOK

LEMMA StepInOrder == InOrder /\ [Next]_vars => InOrder'
  <1> SUFFICES ASSUME InOrder, [Next]_vars PROVE InOrder'
    OBVIOUS
  <1>1. ASSUME NEW p \in Pids, Fork(p) PROVE InOrder'
    BY <1>1, ForkInOrder
  <1>2. ASSUME NEW p \in Pids, Clone(p) PROVE InOrder'
    BY <1>2, CloneInOrder
  <1>3. ASSUME NEW p \in Pids, Run(p) PROVE InOrder'
    BY <1>3, OtherInOrder DEF Run, threads, maps
  <1>4. ASSUME NEW p \in Pids, SwitchOut(p) PROVE InOrder'
    BY <1>4, OtherInOrder DEF SwitchOut, threads
  <1>5. ASSUME NEW p \in Pids, EndWait(p) PROVE InOrder'
    BY <1>5, OtherInOrder DEF EndWait, kernel, threads
  <1>6. ASSUME NEW p \in Pids, ExitThread(p) PROVE InOrder'
    BY <1>6, ExitThreadInOrder
  <1>7. ASSUME NEW p \in Pids, ExitHook(p) PROVE InOrder'
    BY <1>7, ExitHookInOrder
  <1>8. ASSUME NEW p \in Pids, LastSwitch(p) PROVE InOrder'
    BY <1>8, OtherInOrder DEF LastSwitch
  <1>9. CASE Read
    BY <1>9, OtherInOrder DEF Read, kernel, threads, maps
  <1>10. CASE BeginReap
    BY <1>10, OtherInOrder DEF BeginReap, kernel, threads, maps
  <1>11. CASE ReapOne
    BY <1>11, ReapInOrder
  <1>12. CASE EndTick
    BY <1>12, OtherInOrder DEF EndTick, kernel, threads, maps
  <1>13. ASSUME NEW p \in Pids, Evict(p) PROVE InOrder'
    BY <1>13, OtherInOrder DEF Evict, kernel, threads
  <1>14. CASE UNCHANGED vars
    BY <1>14, OtherInOrder DEF vars, kernel, threads, maps
  <1>15. QED
    BY <1>1, <1>2, <1>3, <1>4, <1>5, <1>6, <1>7, <1>8, <1>9, <1>10, <1>11, <1>12, <1>13, <1>14
       DEF Next, Tick

-----------------------------------------------------------------------------
(* A record is taken only by the reaper, which deletes what it names.      *)
LEMMA OnlyReapDrains ==
    ASSUME InOrder, [Next]_vars, Drains
    PROVE  ReapOne
  <1>1. EXITS \in Seq(Lived) /\ EXITS # <<>>
    BY DEF InOrder, QueueOK, Drains
  <1>2. Len(EXITS') = Len(EXITS) - 1 /\ Len(EXITS) \in Nat
    BY <1>1 DEF Drains
  <1> USE DEF kernel, threads, maps, collector, history
  <1>3. ASSUME NEW q \in Pids, ExitHook(q) PROVE FALSE
    <2> DEFINE record == [tgid |-> q, life |-> lives[q]]
    <2>1. EXITS' = EXITS \/ EXITS' = Append(EXITS, record)
      BY <1>3 DEF ExitHook, announce
    <2> HIDE DEF record
    <2>2. QED BY <1>1, <1>2, <2>1
  <1>4. ASSUME NEW q \in Pids,
               \/ Fork(q) \/ Clone(q) \/ SwitchOut(q) \/ LastSwitch(q) \/ Run(q)
               \/ EndWait(q) \/ ExitThread(q) \/ Evict(q)
        PROVE  FALSE
    <2>1. EXITS' = EXITS
      BY <1>4 DEF Fork, Clone, SwitchOut, LastSwitch, Run, EndWait, ExitThread, Evict
    <2>2. QED BY <1>2, <2>1
  <1>5. ASSUME Read \/ BeginReap \/ EndTick \/ UNCHANGED vars PROVE FALSE
    <2>1. EXITS' = EXITS
      BY <1>5 DEF Read, BeginReap, EndTick, vars
    <2>2. QED BY <1>2, <2>1
  <1>6. QED BY <1>3, <1>4, <1>5 DEF Next, Tick

LEMMA OnlyReapDeletes ==
    ASSUME InOrder, [Next]_vars, NEW p \in Pids, Drains,
           \/ p \in DOMAIN CPU_NS /\ p \notin DOMAIN CPU_NS'
           \/ p \in DOMAIN COMM_MAP /\ p \notin DOMAIN COMM_MAP'
    PROVE  EXITS # <<>> /\ p = Head(EXITS).tgid
  <1>1. ReapOne
    BY OnlyReapDrains
  <1>2. QED BY <1>1 DEF ReapOne, Without

(* lifecycle.rs:26-28, what holds of it: neither a leader that exits       *)
(* before its threads nor last threads that race each other through the    *)
(* exit hook get their own live process stripped of counters or name.      *)
(* Only the record of an earlier process of the pid does that.             *)
THEOREM OnlyPredecessors == Spec => OnlyPredecessorsStrip
  <1>1. InOrder /\ [Next]_vars => [\A p \in Pids : Strips(p) => Head(EXITS).life < lives[p]]_vars
    <2> SUFFICES ASSUME InOrder, [Next]_vars, NEW p \in Pids, Strips(p)
                 PROVE  Head(EXITS).life < lives[p]
      OBVIOUS
    <2>1. EXITS # <<>> /\ p = Head(EXITS).tgid
      BY OnlyReapDeletes DEF Strips, Reaps
    <2>2. live[p] > 0
      BY DEF Strips
    <2>3. EXITS \in Seq(Lived)
      BY DEF InOrder, QueueOK
    <2>4. 1 \in 1..Len(EXITS) /\ Head(EXITS) = EXITS[1]
      BY <2>1, <2>3
    <2>5. Past(Head(EXITS))
      BY <2>4 DEF InOrder
    <2>6. QED BY <2>1, <2>2, <2>5 DEF Past
  <1>2. QED BY <1>1, InitInOrder, StepInOrder, PTL DEF Spec, OnlyPredecessorsStrip

-----------------------------------------------------------------------------
(* TypeOK is not inductive: the sum of a process's threads is what         *)
(* MaxThreads bounds, and only a pid that has been used has threads.       *)
Populated(p) ==
    /\ Left(p) <= MaxThreads
    /\ Left(p) > 0 => lives[p] > 0

Typed == TypeOK /\ \A p \in Pids : Populated(p)

LEMMA InitTyped == Init => Typed
  BY BudgetAssumption, RingAssumption, BoundsAssumption
     DEF Init, Typed, TypeOK, Populated, Left, Nothing, Records

(* The parts of a step that the types are about, a group at a time.        *)
LEMMA KeepsPopulated ==
    ASSUME Typed, UNCHANGED <<threads, lives>>
    PROVE  \A p \in Pids : Populated(p)'
  BY DEF Typed, Populated, Left, threads

LEMMA ForkTyped ==
    ASSUME Typed, NEW p \in Pids, Fork(p)
    PROVE  Typed'
  <1> USE DEF threads, kernel, maps, collector, history
  <1>1. /\ live \in [Pids -> 0..MaxThreads] /\ exiting \in [Pids -> 0..MaxThreads]
        /\ leaving \in [Pids -> 0..MaxThreads] /\ lives \in [Pids -> 0..MaxLives]
        /\ MaxThreads \in Nat \ {0} /\ MaxLives \in Nat
    BY BoundsAssumption DEF Typed, TypeOK
  <1>2. /\ live[p] = 0 /\ exiting[p] = 0 /\ leaving[p] = 0
        /\ lives[p] + 1 \in 1..MaxLives
    BY <1>1 DEF Fork, Free, Left
  <1>3. live' \in [Pids -> 0..MaxThreads] /\ lives' \in [Pids -> 0..MaxLives]
    BY <1>1, <1>2 DEF Fork
  <1>4. DOMAIN COMM_MAP' \subseteq Pids /\ COMM_MAP' \in [DOMAIN COMM_MAP' -> 1..MaxLives]
    BY <1>2 DEF Fork, With, Typed, TypeOK
  <1>5. TypeOK'
    BY <1>3, <1>4 DEF Fork, Typed, TypeOK
  <1>6. ASSUME NEW q \in Pids PROVE Populated(q)'
    BY <1>1, <1>2 DEF Fork, Typed, Populated, Left
  <1>7. QED BY <1>5, <1>6 DEF Typed

LEMMA CloneTyped ==
    ASSUME Typed, NEW p \in Pids, Clone(p)
    PROVE  Typed'
  <1> USE DEF threads, kernel, maps, collector, history
  <1>1. /\ live \in [Pids -> 0..MaxThreads] /\ exiting \in [Pids -> 0..MaxThreads]
        /\ leaving \in [Pids -> 0..MaxThreads] /\ lives \in [Pids -> 0..MaxLives]
        /\ MaxThreads \in Nat /\ MaxLives \in Nat
    BY BoundsAssumption DEF Typed, TypeOK
  <1>2. /\ live[p] + 1 \in 0..MaxThreads /\ lives[p] \in 1..MaxLives
        /\ live[p] + 1 + exiting[p] + leaving[p] <= MaxThreads
    BY <1>1 DEF Clone, Left, Typed, Populated
  <1>3. live' \in [Pids -> 0..MaxThreads]
    BY <1>1, <1>2 DEF Clone
  <1>4. DOMAIN COMM_MAP' \subseteq Pids /\ COMM_MAP' \in [DOMAIN COMM_MAP' -> 1..MaxLives]
    BY <1>2 DEF Clone, With, Typed, TypeOK
  <1>5. TypeOK'
    BY <1>3, <1>4 DEF Clone, Typed, TypeOK
  <1>6. ASSUME NEW q \in Pids PROVE Populated(q)'
    BY <1>1, <1>2 DEF Clone, Typed, Populated, Left
  <1>7. QED BY <1>5, <1>6 DEF Typed

LEMMA ExitThreadTyped ==
    ASSUME Typed, NEW p \in Pids, ExitThread(p)
    PROVE  Typed'
  <1> USE DEF threads, kernel, maps, collector, history
  <1>1. /\ live \in [Pids -> 0..MaxThreads] /\ exiting \in [Pids -> 0..MaxThreads]
        /\ leaving \in [Pids -> 0..MaxThreads] /\ lives \in [Pids -> 0..MaxLives]
        /\ MaxThreads \in Nat /\ Left(p) <= MaxThreads
    BY BoundsAssumption DEF Typed, TypeOK, Populated
  <1>2. live[p] - 1 \in 0..MaxThreads /\ exiting[p] + 1 \in 0..MaxThreads
    BY <1>1 DEF ExitThread, Left
  <1>3. live' \in [Pids -> 0..MaxThreads] /\ exiting' \in [Pids -> 0..MaxThreads]
    BY <1>1, <1>2 DEF ExitThread
  <1>4. TypeOK'
    BY <1>3 DEF ExitThread, Typed, TypeOK
  <1>5. ASSUME NEW q \in Pids PROVE Populated(q)'
    BY <1>1 DEF ExitThread, Typed, Populated, Left
  <1>6. QED BY <1>4, <1>5 DEF Typed

(* A record is queued only into a ring with room, and of a used pid.       *)
LEMMA ExitHookTyped ==
    ASSUME Typed, NEW p \in Pids, ExitHook(p)
    PROVE  Typed'
  <1> USE DEF threads, kernel, maps, collector, history
  <1>1. /\ live \in [Pids -> 0..MaxThreads] /\ exiting \in [Pids -> 0..MaxThreads]
        /\ leaving \in [Pids -> 0..MaxThreads] /\ lives \in [Pids -> 0..MaxLives]
        /\ MaxThreads \in Nat /\ Left(p) <= MaxThreads /\ Populated(p)
        /\ MaxLives \in Nat
    BY BoundsAssumption DEF Typed, TypeOK, Populated
  <1>2. exiting[p] - 1 \in 0..MaxThreads /\ leaving[p] + 1 \in 0..MaxThreads
        /\ lives[p] \in 1..MaxLives
    BY <1>1 DEF ExitHook, Left, Populated
  <1>3. exiting' \in [Pids -> 0..MaxThreads] /\ leaving' \in [Pids -> 0..MaxThreads]
    BY <1>1, <1>2 DEF ExitHook
  <1>4. EXITS' \in Seq(Records) /\ Len(EXITS') <= RingCapacity
    <2> DEFINE record == [tgid |-> p, life |-> lives[p]]
    <2>1. EXITS \in Seq(Records) /\ Len(EXITS) <= RingCapacity /\ record \in Records
      BY <1>2 DEF Records, Typed, TypeOK
    <2>2. \/ EXITS' = EXITS
          \/ Len(EXITS) < RingCapacity /\ EXITS' = Append(EXITS, record)
      BY DEF ExitHook, announce
    <2> HIDE DEF record
    <2>3. QED BY <2>1, <2>2, RingAssumption
  <1>5. TypeOK'
    BY <1>3, <1>4 DEF ExitHook, Typed, TypeOK
  <1>6. ASSUME NEW q \in Pids PROVE Populated(q)'
    BY <1>1 DEF ExitHook, Typed, Populated, Left
  <1>7. QED BY <1>5, <1>6 DEF Typed

LEMMA BillTyped ==
    ASSUME Typed, NEW p \in Pids, NEW slice \in 0..inflight[p], Bill(p, slice)
    PROVE  /\ inflight' \in [Pids -> Nat]
           /\ DOMAIN CPU_NS' \subseteq Pids /\ CPU_NS' \in [DOMAIN CPU_NS' -> Nat]
  <1>1. /\ inflight \in [Pids -> Nat] /\ DOMAIN CPU_NS \subseteq Pids
        /\ CPU_NS \in [DOMAIN CPU_NS -> Nat] /\ ValueOf(CPU_NS, p) \in Nat
    BY DEF Typed, TypeOK, ValueOf
  <1>2. inflight[p] - slice \in Nat /\ ValueOf(CPU_NS, p) + slice \in Nat
    BY <1>1
  <1>3. inflight' \in [Pids -> Nat]
    BY <1>1, <1>2 DEF Bill
  <1>4. DOMAIN CPU_NS' = DOMAIN CPU_NS \cup {p} /\ CPU_NS' \in [DOMAIN CPU_NS \cup {p} -> Nat]
    BY <1>1, <1>2, WithDomain DEF Bill
  <1>5. QED BY <1>1, <1>3, <1>4

LEMMA LastSwitchTyped ==
    ASSUME Typed, NEW p \in Pids, LastSwitch(p)
    PROVE  Typed'
  <1> USE DEF threads, kernel, maps, collector, history
  <1>1. /\ live \in [Pids -> 0..MaxThreads] /\ exiting \in [Pids -> 0..MaxThreads]
        /\ leaving \in [Pids -> 0..MaxThreads] /\ lives \in [Pids -> 0..MaxLives]
        /\ MaxThreads \in Nat
    BY BoundsAssumption DEF Typed, TypeOK
  <1>2. leaving' \in [Pids -> 0..MaxThreads]
    <2>1. leaving[p] - 1 \in 0..MaxThreads
      BY <1>1 DEF LastSwitch
    <2>2. QED BY <1>1, <2>1 DEF LastSwitch
  <1>3. /\ inflight' \in [Pids -> Nat]
        /\ DOMAIN CPU_NS' \subseteq Pids /\ CPU_NS' \in [DOMAIN CPU_NS' -> Nat]
    <2>1. PICK slice \in 0..inflight[p] :
             IF slice > 0 THEN Bill(p, slice) ELSE UNCHANGED <<CPU_NS, inflight>>
      BY DEF LastSwitch
    <2>2. CASE slice > 0
      BY <2>1, <2>2, BillTyped
    <2>3. CASE ~(slice > 0)
      BY <2>1, <2>3 DEF Typed, TypeOK
    <2>4. QED BY <2>2, <2>3
  <1>4. TypeOK'
    BY <1>2, <1>3 DEF LastSwitch, Typed, TypeOK
  <1>5. ASSUME NEW q \in Pids PROVE Populated(q)'
    BY <1>1 DEF LastSwitch, Typed, Populated, Left
  <1>6. QED BY <1>4, <1>5 DEF Typed

LEMMA ReadTyped == Typed /\ Read => Typed'
  <1> USE DEF threads, kernel, maps, collector, history
  <1> SUFFICES ASSUME Typed, Read PROVE Typed'
    OBVIOUS
  <1>1. PICK keys, running : ReadOf(keys, running)
    BY ReadSees
  <1>2. /\ DOMAIN CPU_NS \subseteq Pids /\ CPU_NS \in [DOMAIN CPU_NS -> Nat]
        /\ inflight \in [Pids -> Nat] /\ reported \in [Pids -> Nat]
        /\ DOMAIN prev \subseteq Pids /\ prev \in [DOMAIN prev -> Nat]
        /\ misread \subseteq Pids /\ DataOK
    BY DEF Typed, TypeOK, DataOK
  <1>3. keys \subseteq Pids /\ running \subseteq Pids /\ Running \subseteq Pids
    BY <1>1, <1>2 DEF ReadOf, Running
  <1>4. DOMAIN prev' \subseteq Pids /\ prev' \in [DOMAIN prev' -> Nat]
    <2>1. prev' = Snapshot(keys, running) /\ DOMAIN Snapshot(keys, running) = keys \cup running
      BY <1>1 DEF ReadOf, Snapshot
    <2>2. \A p \in keys \cup running : Snapshot(keys, running)[p] \in Nat
      BY <1>1, <1>2, <1>3, SnapshotShows
    <2>3. QED BY <1>3, <2>1, <2>2 DEF Snapshot
  <1>5. reported' \in [Pids -> Nat]
    <2>1. reported' = [p \in Pids |-> IF p \in misread' THEN 0
                          ELSE reported[p] + deltas(Snapshot(keys, running))[p]]
      BY <1>1 DEF ReadOf
    <2>2. \A p \in Pids : deltas(Snapshot(keys, running))[p] \in Nat
      BY <1>1, <1>2, DeltaIsGrowth
    <2>3. QED BY <1>2, <2>1, <2>2
  <1>6. cut' \subseteq Pids /\ misread' \subseteq Pids
    BY <1>1, <1>2, <1>3 DEF ReadOf
  <1>7. settled' \subseteq Pids \X (1..MaxLives)
    BY DEF Read
  <1>8. TypeOK'
    BY <1>4, <1>5, <1>6, <1>7 DEF Read, Typed, TypeOK
  <1>9. QED BY <1>8, KeepsPopulated DEF Read, Typed

(* An evicted entry leaves a smaller map. *)
LEMMA EvictTyped ==
    ASSUME Typed, NEW p \in Pids, Evict(p)
    PROVE  Typed'
  <1> USE DEF threads, kernel, maps, collector, history
  <1>1. DOMAIN CPU_NS' \subseteq Pids /\ CPU_NS' \in [DOMAIN CPU_NS' -> Nat]
    BY DEF Evict, Without, Typed, TypeOK
  <1>2. DOMAIN COMM_MAP' \subseteq Pids /\ COMM_MAP' \in [DOMAIN COMM_MAP' -> 1..MaxLives]
    BY DEF Evict, Without, Typed, TypeOK
  <1>3. IOWAIT_NS' \subseteq Pids /\ cut' \subseteq Pids
    BY DEF Evict, Typed, TypeOK
  <1>4. TypeOK'
    BY <1>1, <1>2, <1>3 DEF Evict, Typed, TypeOK
  <1>5. QED BY <1>4, KeepsPopulated DEF Evict, Typed

LEMMA ReapTyped == Typed /\ ReapOne => Typed'
  <1> USE DEF threads, kernel, maps, collector, history
  <1> SUFFICES ASSUME Typed, ReapOne PROVE Typed'
    OBVIOUS
  <1>1. EXITS \in Seq(Records) /\ Len(EXITS) <= RingCapacity /\ EXITS # <<>>
    BY DEF Typed, TypeOK, ReapOne
  <1>2. EXITS' \in Seq(Records) /\ Len(EXITS') <= RingCapacity /\ Head(EXITS) \in Records
    BY <1>1, RingAssumption DEF ReapOne
  <1>3. PICK p \in Pids : /\ CPU_NS' = Without(CPU_NS, p)
                          /\ IOWAIT_NS' = IOWAIT_NS \ {p}
                          /\ COMM_MAP' = Without(COMM_MAP, p)
                          /\ cut' = cut \cup {p}
    BY <1>2 DEF ReapOne, Records
  <1>4. DOMAIN CPU_NS' \subseteq Pids /\ CPU_NS' \in [DOMAIN CPU_NS' -> Nat]
    BY <1>3 DEF Without, Typed, TypeOK
  <1>5. DOMAIN COMM_MAP' \subseteq Pids /\ COMM_MAP' \in [DOMAIN COMM_MAP' -> 1..MaxLives]
    BY <1>3 DEF Without, Typed, TypeOK
  <1>6. left' \in 0..Budget
    BY BudgetAssumption DEF ReapOne, Typed, TypeOK
  <1>7. TypeOK'
    BY <1>2, <1>3, <1>4, <1>5, <1>6 DEF ReapOne, Typed, TypeOK
  <1>8. QED BY <1>7, KeepsPopulated DEF ReapOne, Typed

LEMMA StepTyped == Typed /\ [Next]_vars => Typed'
  <1> SUFFICES ASSUME Typed, [Next]_vars PROVE Typed'
    OBVIOUS
  <1> USE DEF threads, kernel, maps, collector, history
  <1>1. ASSUME NEW p \in Pids, Fork(p) PROVE Typed'
    BY <1>1, ForkTyped
  <1>2. ASSUME NEW p \in Pids, Clone(p) PROVE Typed'
    BY <1>2, CloneTyped
  <1>3. ASSUME NEW p \in Pids, Run(p) PROVE Typed'
    <2>1. inflight' \in [Pids -> Nat] /\ used' \in [Pids -> Nat]
      <3>1. inflight \in [Pids -> Nat] /\ used \in [Pids -> Nat]
        BY DEF Typed, TypeOK
      <3>2. inflight[p] + 1 \in Nat /\ used[p] + 1 \in Nat
        BY <3>1
      <3>3. /\ inflight' = [inflight EXCEPT ![p] = inflight[p] + 1]
            /\ used' = [used EXCEPT ![p] = used[p] + 1]
        BY <1>3 DEF Run
      <3>4. QED BY <3>1, <3>2, <3>3
    <2>2. TypeOK'
      BY <1>3, <2>1 DEF Run, Typed, TypeOK
    <2>3. QED BY <1>3, <2>2, KeepsPopulated DEF Run, Typed
  <1>4. ASSUME NEW p \in Pids, SwitchOut(p) PROVE Typed'
    <2>1. PICK slice \in 0..inflight[p] : Bill(p, slice)
      BY <1>4 DEF SwitchOut, Typed, TypeOK
    <2>2. TypeOK'
      BY <1>4, <2>1, BillTyped DEF SwitchOut, Typed, TypeOK
    <2>3. QED BY <1>4, <2>2, KeepsPopulated DEF SwitchOut, Typed
  <1>5. ASSUME NEW p \in Pids, EndWait(p) PROVE Typed'
    <2>1. TypeOK'
      BY <1>5 DEF EndWait, Typed, TypeOK
    <2>2. QED BY <1>5, <2>1, KeepsPopulated DEF EndWait, Typed
  <1>6. ASSUME NEW p \in Pids, ExitThread(p) PROVE Typed'
    BY <1>6, ExitThreadTyped
  <1>7. ASSUME NEW p \in Pids, ExitHook(p) PROVE Typed'
    BY <1>7, ExitHookTyped
  <1>8. ASSUME NEW p \in Pids, LastSwitch(p) PROVE Typed'
    BY <1>8, LastSwitchTyped
  <1>9. CASE Read
    BY <1>9, ReadTyped
  <1>10. CASE BeginReap
    <2>1. TypeOK'
      <3>1. left' \in 0..Budget
        BY <1>10, BudgetAssumption DEF BeginReap
      <3>2. QED BY <1>10, <3>1 DEF BeginReap, Typed, TypeOK
    <2>2. QED BY <1>10, <2>1, KeepsPopulated DEF BeginReap, Typed
  <1>11. CASE ReapOne
    BY <1>11, ReapTyped
  <1>12. CASE EndTick
    <2>1. TypeOK'
      <3>1. left' \in 0..Budget
        BY <1>12, BudgetAssumption DEF EndTick
      <3>2. QED BY <1>12, <3>1 DEF EndTick, Typed, TypeOK
    <2>2. QED BY <1>12, <2>1, KeepsPopulated DEF EndTick, Typed
  <1>13. ASSUME NEW p \in Pids, Evict(p) PROVE Typed'
    BY <1>13, EvictTyped
  <1>14. CASE UNCHANGED vars
    <2>1. TypeOK'
      BY <1>14 DEF vars, Typed, TypeOK
    <2>2. QED BY <1>14, <2>1, KeepsPopulated DEF vars, Typed
  <1>15. QED
    BY <1>1, <1>2, <1>3, <1>4, <1>5, <1>6, <1>7, <1>8, <1>9, <1>10, <1>11, <1>12, <1>13, <1>14
       DEF Next, Tick

(* Every variable keeps its type: the ring never holds more than EXITS has *)
(* room for, a reap never takes more than Reaper::BUDGET records, every    *)
(* record and every name is of a process the pid has had.                  *)
THEOREM TypeCorrect == Spec => []TypeOK
  <1>1. Typed => TypeOK
    BY DEF Typed
  <1>2. QED BY <1>1, InitTyped, StepTyped, PTL DEF Spec

-----------------------------------------------------------------------------
(* What an unbroken baseline is worth.  The total over the baseline is the *)
(* time used since the read, exactly, as long as the read left nothing out *)
(* and neither a reap nor an eviction took the entry: whether it is in     *)
(* flight, billed, or billed to a later process.                           *)
Exact(p) ==
    /\ usedAtRead[p] <= used[p]
    /\ p \in DOMAIN prev \ cut =>
         Total(p) + usedAtRead[p] = prev[p] + used[p]

(* A process that was finished at the read stays finished, its pid unused, *)
(* and what its entry holds is in the baseline.                            *)
Finished(p) ==
    <<p, lives[p]>> \in settled =>
       /\ Free(p)
       /\ p \in DOMAIN CPU_NS \ cut => p \in DOMAIN prev /\ prev[p] >= CPU_NS[p]

(* Only processes the pid has had are settled. *)
SettledPast(p) == \A n \in 1..MaxLives : <<p, n>> \in settled => n <= lives[p]

Baseline ==
    /\ Typed
    /\ \A p \in Pids : Exact(p) /\ Finished(p) /\ SettledPast(p)

-----------------------------------------------------------------------------
(* Billing moves time and loses none. *)
LEMMA BillTotal ==
    ASSUME TypeOK, NEW p \in Pids, NEW slice \in 0..inflight[p], Bill(p, slice),
           NEW q \in Pids
    PROVE  Total(q)' = Total(q)
  <1>1. /\ inflight \in [Pids -> Nat] /\ CPU_NS \in [DOMAIN CPU_NS -> Nat]
        /\ ValueOf(CPU_NS, p) \in Nat /\ ValueOf(CPU_NS, q) \in Nat
    BY DEF TypeOK, ValueOf
  <1>2. ValueOf(CPU_NS, p) + slice \in Nat /\ slice \in Nat /\ slice <= inflight[p]
    BY <1>1
  <1>3. Total(q)' = ValueOf(CPU_NS', q) + inflight'[q]
    BY DEF Total, ValueOf
  <1>4. ValueOf(CPU_NS', q) = IF q = p THEN ValueOf(CPU_NS, p) + slice ELSE ValueOf(CPU_NS, q)
    BY <1>1, <1>2, WithValue DEF Bill
  <1>5. inflight'[q] = IF q = p THEN inflight[p] - slice ELSE inflight[q]
    BY <1>1 DEF Bill
  <1>6. CASE q = p
    BY <1>1, <1>2, <1>3, <1>4, <1>5, <1>6 DEF Total
  <1>7. CASE q # p
    BY <1>1, <1>3, <1>4, <1>5, <1>7 DEF Total
  <1>8. QED BY <1>6, <1>7

LEMMA InitBaseline == Init => Baseline
  <1> SUFFICES ASSUME Init PROVE Baseline
    OBVIOUS
  <1>1. Typed
    BY InitTyped
  <1>2. \A p \in Pids : Exact(p) /\ Finished(p) /\ SettledPast(p)
    BY DEF Init, Exact, Finished, SettledPast, Nothing
  <1>3. QED BY <1>1, <1>2 DEF Baseline

(* Steps between the reads that lose no time keep the baseline exact.      *)
LEMMA KeepsExact ==
    ASSUME Baseline, UNCHANGED <<prev, used, usedAtRead, cut>>, NEW q \in Pids,
           Total(q)' = Total(q)
    PROVE  Exact(q)'
  BY DEF Baseline, Exact

(* Steps that leave the finished processes' entries and threads alone.     *)
LEMMA KeepsFinished ==
    ASSUME Baseline, UNCHANGED <<prev, settled, lives>>, cut \subseteq cut', NEW q \in Pids,
           <<q, lives[q]>> \in settled => UNCHANGED <<live[q], exiting[q], leaving[q]>>,
           <<q, lives[q]>> \in settled /\ q \in DOMAIN CPU_NS' =>
              q \in DOMAIN CPU_NS /\ CPU_NS'[q] = CPU_NS[q]
    PROVE  Finished(q)' /\ SettledPast(q)'
  BY DEF Baseline, Finished, SettledPast, Free, Left

LEMMA ForkBaseline ==
    ASSUME Baseline, NEW p \in Pids, Fork(p)
    PROVE  Baseline'
  <1> USE DEF threads, kernel, maps, collector, history
  <1>1. Typed /\ TypeOK
    BY DEF Baseline, Typed
  <1>2. ASSUME NEW q \in Pids PROVE Exact(q)'
    BY KeepsExact DEF Fork, Total, ValueOf
  <1>3. ASSUME NEW q \in Pids PROVE Finished(q)' /\ SettledPast(q)'
    <2>1. /\ Finished(q) /\ SettledPast(q)
          /\ lives \in [Pids -> 0..MaxLives] /\ MaxLives \in Nat
      BY <1>1, BoundsAssumption DEF Baseline, TypeOK
    <2>2. CASE q = p
      <3>1. /\ lives'[q] = lives[q] + 1 /\ lives'[q] \in 1..MaxLives
            /\ settled' = settled
        BY <2>1, <2>2 DEF Fork
      <3>2. <<q, lives'[q]>> \notin settled
        BY <2>1, <3>1 DEF SettledPast
      <3>3. SettledPast(q)'
        BY <2>1, <3>1 DEF SettledPast
      <3>4. QED BY <3>1, <3>2, <3>3 DEF Finished
    <2>3. CASE q # p
      <3>1. /\ lives'[q] = lives[q] /\ live'[q] = live[q]
            /\ UNCHANGED <<exiting, leaving, settled, prev, CPU_NS, cut>>
        BY <1>1, <2>3 DEF Fork, TypeOK
      <3>2. QED BY <2>1, <3>1 DEF Finished, SettledPast, Free, Left
    <2>4. QED BY <2>2, <2>3
  <1>4. QED BY <1>1, <1>2, <1>3, ForkTyped DEF Baseline

(* Only a process that is not finished has a thread that takes a step.     *)
LEMMA ThreadsOfUnfinished ==
    ASSUME Baseline, NEW p \in Pids,
           live[p] > 0 \/ exiting[p] > 0 \/ leaving[p] > 0 \/ ~Free(p)
    PROVE  <<p, lives[p]>> \notin settled
  <1>1. /\ live[p] \in Nat /\ exiting[p] \in Nat /\ leaving[p] \in Nat
    BY DEF Baseline, Typed, TypeOK
  <1>2. ~Free(p)
    <2>1. CASE ~Free(p)
      BY <2>1
    <2>2. CASE live[p] > 0 \/ exiting[p] > 0 \/ leaving[p] > 0
      BY <1>1, <2>2 DEF Free, Left
    <2>3. QED BY <2>1, <2>2
  <1>3. QED BY <1>2 DEF Baseline, Finished

LEMMA ThreadBaseline ==
    ASSUME Baseline, NEW p \in Pids, Clone(p) \/ ExitThread(p) \/ ExitHook(p)
    PROVE  Baseline'
  <1> USE DEF threads, kernel, maps, collector, history
  <1>1. TypeOK /\ Typed'
    BY CloneTyped, ExitThreadTyped, ExitHookTyped DEF Baseline, Typed
  <1>2. <<p, lives[p]>> \notin settled
    <2>1. live[p] > 0 \/ exiting[p] > 0
      BY DEF Clone, ExitThread, ExitHook
    <2>2. QED BY <2>1, ThreadsOfUnfinished
  <1>3. /\ UNCHANGED <<CPU_NS, inflight, lives, prev, used, usedAtRead, cut, settled>>
        /\ \A q \in Pids \ {p} : UNCHANGED <<live[q], exiting[q], leaving[q]>>
    BY <1>1 DEF Clone, ExitThread, ExitHook, TypeOK
  <1>4. ASSUME NEW q \in Pids PROVE Exact(q)' /\ Finished(q)' /\ SettledPast(q)'
    <2>1. Exact(q)'
      BY <1>3, KeepsExact DEF Total, ValueOf
    <2>2. <<q, lives[q]>> \in settled => UNCHANGED <<live[q], exiting[q], leaving[q]>>
      BY <1>2, <1>3
    <2>3. QED BY <1>3, <2>1, <2>2, KeepsFinished
  <1>5. QED BY <1>1, <1>4 DEF Baseline

LEMMA BillBaseline ==
    ASSUME Baseline, Typed', NEW p \in Pids, NEW slice \in 0..inflight[p], Bill(p, slice),
           <<p, lives[p]>> \notin settled,
           UNCHANGED <<lives, prev, used, usedAtRead, cut, settled>>,
           \A q \in Pids \ {p} : UNCHANGED <<live[q], exiting[q], leaving[q]>>
    PROVE  Baseline'
  <1>1. TypeOK
    BY DEF Baseline, Typed
  <1>2. ASSUME NEW q \in Pids PROVE Exact(q)' /\ Finished(q)' /\ SettledPast(q)'
    <2>1. Exact(q)'
      BY <1>1, BillTotal, KeepsExact
    <2>2. <<q, lives[q]>> \in settled =>
             /\ UNCHANGED <<live[q], exiting[q], leaving[q]>>
             /\ q \in DOMAIN CPU_NS' => q \in DOMAIN CPU_NS /\ CPU_NS'[q] = CPU_NS[q]
      BY DEF Bill, With
    <2>3. QED BY <2>1, <2>2, KeepsFinished
  <1>3. QED BY <1>2 DEF Baseline

LEMMA SwitchBaseline ==
    ASSUME Baseline, NEW p \in Pids, SwitchOut(p) \/ LastSwitch(p), Typed'
    PROVE  Baseline'
  <1> USE DEF threads, kernel, maps, collector, history
  <1>1. TypeOK
    BY DEF Baseline, Typed
  <1>2. <<p, lives[p]>> \notin settled
    <2>1. leaving[p] > 0 \/ ~Free(p)
      BY DEF SwitchOut, LastSwitch
    <2>2. QED BY <2>1, ThreadsOfUnfinished
  <1>3. /\ UNCHANGED <<lives, prev, used, usedAtRead, cut, settled>>
        /\ \A q \in Pids \ {p} : UNCHANGED <<live[q], exiting[q], leaving[q]>>
    BY <1>1 DEF SwitchOut, LastSwitch, TypeOK
  <1>4. PICK slice \in 0..inflight[p] : Bill(p, slice) \/ UNCHANGED <<CPU_NS, inflight>>
    BY <1>1 DEF SwitchOut, LastSwitch, TypeOK
  <1>5. CASE Bill(p, slice)
    BY <1>2, <1>3, <1>4, <1>5, BillBaseline
  <1>6. CASE UNCHANGED <<CPU_NS, inflight>>
    <2>1. ASSUME NEW q \in Pids PROVE Exact(q)' /\ Finished(q)' /\ SettledPast(q)'
      <3>1. Exact(q)'
        BY <1>3, <1>6, KeepsExact DEF Total, ValueOf
      <3>2. <<q, lives[q]>> \in settled => UNCHANGED <<live[q], exiting[q], leaving[q]>>
        BY <1>2, <1>3
      <3>3. QED BY <1>3, <1>6, <3>1, <3>2, KeepsFinished
    <2>2. QED BY <2>1 DEF Baseline
  <1>7. QED BY <1>4, <1>5, <1>6

LEMMA RunBaseline ==
    ASSUME Baseline, NEW p \in Pids, Run(p), Typed'
    PROVE  Baseline'
  <1> USE DEF threads, kernel, maps, collector, history
  <1>1. TypeOK
    BY DEF Baseline, Typed
  <1>2. ASSUME NEW q \in Pids PROVE Exact(q)'
    <2>1. /\ Exact(q) /\ inflight[q] \in Nat /\ used[q] \in Nat /\ usedAtRead[q] \in Nat
          /\ ValueOf(CPU_NS, q) \in Nat
          /\ q \in DOMAIN prev => prev[q] \in Nat
      BY <1>1 DEF Baseline, TypeOK, ValueOf
    <2>2. /\ used'[q] = IF q = p THEN used[q] + 1 ELSE used[q]
          /\ inflight'[q] = IF q = p THEN inflight[q] + 1 ELSE inflight[q]
          /\ UNCHANGED <<CPU_NS, prev, usedAtRead, cut>>
      BY <1>1 DEF Run, TypeOK
    <2>3. Total(q)' = ValueOf(CPU_NS, q) + inflight'[q]
      BY <2>2 DEF Total, ValueOf
    <2>4. CASE q = p
      BY <2>1, <2>2, <2>3, <2>4 DEF Exact, Total
    <2>5. CASE q # p
      BY <2>1, <2>2, <2>3, <2>5 DEF Exact, Total
    <2>6. QED BY <2>4, <2>5
  <1>3. ASSUME NEW q \in Pids PROVE Finished(q)' /\ SettledPast(q)'
    BY KeepsFinished DEF Run
  <1>4. QED BY <1>2, <1>3 DEF Baseline

(* The read makes every total the baseline, and settles every process that *)
(* has no thread left.                                                     *)
LEMMA ReadBaseline == Baseline /\ Read => Baseline'
  <1> USE DEF threads, kernel, maps, collector, history
  <1> SUFFICES ASSUME Baseline, Read PROVE Baseline'
    OBVIOUS
  <1>1. TypeOK /\ DataOK /\ Typed'
    BY ReadTyped DEF Baseline, Typed, TypeOK, DataOK
  <1>2. PICK keys, running : ReadOf(keys, running)
    BY ReadSees
  <1>3. /\ prev' = Snapshot(keys, running) /\ usedAtRead' = used /\ used' = used
        /\ cut' = (DOMAIN CPU_NS \ keys) \cup (Running \ running)
        /\ UNCHANGED <<live, exiting, leaving, lives, inflight, CPU_NS>>
        /\ settled' = {r \in Pids \X (1..MaxLives) :
              r[2] < lives[r[1]] \/ (r[2] = lives[r[1]] /\ Free(r[1]))}
    BY <1>2 DEF Read, ReadOf
  <1>4. ASSUME NEW q \in Pids PROVE Exact(q)'
    <2>1. /\ DOMAIN Snapshot(keys, running) = keys \cup running
          /\ q \in keys \cup running /\ q \notin cut' => Snapshot(keys, running)[q] = Total(q)
      BY <1>1, <1>2, SnapshotShows
    <2>2. Total(q)' = Total(q)
      BY <1>3 DEF Total, ValueOf
    <2>3. used[q] \in Nat /\ Total(q) \in Nat
      BY <1>1 DEF TypeOK, Total, ValueOf
    <2>4. QED BY <1>3, <2>1, <2>2, <2>3 DEF Exact
  <1>5. ASSUME NEW q \in Pids PROVE Finished(q)' /\ SettledPast(q)'
    <2>1. lives[q] \in Nat
      BY <1>1 DEF TypeOK
    <2>2. <<q, lives[q]>> \in settled' => Free(q)
      BY <1>3, <2>1
    <2>3. q \in DOMAIN CPU_NS \ cut' => q \in DOMAIN prev' /\ prev'[q] >= CPU_NS[q]
      <3>1. SUFFICES ASSUME q \in DOMAIN CPU_NS \ cut'
                     PROVE  q \in DOMAIN prev' /\ prev'[q] >= CPU_NS[q]
        OBVIOUS
      <3>2. q \in keys
        BY <1>3, <3>1
      <3>3. q \in DOMAIN prev' /\ prev'[q] = Total(q)
        <4>1. /\ DOMAIN Snapshot(keys, running) = keys \cup running
              /\ q \in keys \cup running /\ q \notin cut' => Snapshot(keys, running)[q] = Total(q)
          BY <1>1, <1>2, SnapshotShows
        <4>2. QED BY <1>3, <3>1, <3>2, <4>1
      <3>4. Total(q) = CPU_NS[q] + inflight[q] /\ CPU_NS[q] \in Nat /\ inflight[q] \in Nat
        BY <1>1, <3>1 DEF TypeOK, Total, ValueOf
      <3>5. QED BY <3>3, <3>4
    <2>4. Free(q)' <=> Free(q)
      BY <1>3 DEF Free, Left
    <2>5. Finished(q)'
      BY <1>3, <2>2, <2>3, <2>4 DEF Finished
    <2>6. SettledPast(q)'
      BY <1>3, <2>1 DEF SettledPast
    <2>7. QED BY <2>5, <2>6
  <1>6. QED BY <1>1, <1>4, <1>5 DEF Baseline

(* An entry that is gone takes its pid out of the exact ones.              *)
LEMMA LossBaseline ==
    ASSUME Baseline, Typed', NEW p, CPU_NS' = Without(CPU_NS, p), cut' = cut \cup {p},
           UNCHANGED <<live, exiting, leaving, lives, inflight, prev, used, usedAtRead, settled>>
    PROVE  Baseline'
  <1>1. ASSUME NEW q \in Pids PROVE Exact(q)'
    <2>1. CASE q = p
      BY <2>1 DEF Baseline, Exact
    <2>2. CASE q # p
      <3>1. ValueOf(CPU_NS', q) = ValueOf(CPU_NS, q)
        BY <2>2 DEF ValueOf, Without
      <3>2. Total(q)' = Total(q)
        BY <3>1 DEF Total, ValueOf
      <3>3. QED BY <2>2, <3>2 DEF Baseline, Exact
    <2>3. QED BY <2>1, <2>2
  <1>2. ASSUME NEW q \in Pids PROVE Finished(q)' /\ SettledPast(q)'
    <2>1. q \in DOMAIN CPU_NS' => q \in DOMAIN CPU_NS /\ CPU_NS'[q] = CPU_NS[q]
      BY DEF Without
    <2>2. QED BY <2>1, KeepsFinished
  <1>3. QED BY <1>1, <1>2 DEF Baseline

LEMMA OtherBaseline ==
    ASSUME Baseline, Typed',
           UNCHANGED <<threads, lives, inflight, CPU_NS, prev, used, usedAtRead, cut, settled>>
    PROVE  Baseline'
  BY DEF Baseline, Exact, Finished, SettledPast, Free, Left, Total, ValueOf, threads

LEMMA StepBaseline == Baseline /\ [Next]_vars => Baseline'
  <1> SUFFICES ASSUME Baseline, [Next]_vars PROVE Baseline'
    OBVIOUS
  <1> USE DEF threads, kernel, maps, collector, history
  <1>0. Typed'
    BY StepTyped DEF Baseline
  <1>1. ASSUME NEW p \in Pids, Fork(p) PROVE Baseline'
    BY <1>1, ForkBaseline
  <1>2. ASSUME NEW p \in Pids, Clone(p) \/ ExitThread(p) \/ ExitHook(p) PROVE Baseline'
    BY <1>2, ThreadBaseline
  <1>3. ASSUME NEW p \in Pids, Run(p) PROVE Baseline'
    BY <1>0, <1>3, RunBaseline
  <1>4. ASSUME NEW p \in Pids, SwitchOut(p) \/ LastSwitch(p) PROVE Baseline'
    BY <1>0, <1>4, SwitchBaseline
  <1>5. ASSUME NEW p \in Pids, EndWait(p) PROVE Baseline'
    BY <1>0, <1>5, OtherBaseline DEF EndWait
  <1>6. CASE Read
    BY <1>6, ReadBaseline
  <1>7. CASE BeginReap \/ EndTick \/ UNCHANGED vars
    BY <1>0, <1>7, OtherBaseline DEF BeginReap, EndTick, vars
  <1>8. CASE ReapOne
    BY <1>0, <1>8, LossBaseline DEF ReapOne
  <1>9. ASSUME NEW p \in Pids, Evict(p) PROVE Baseline'
    <2>1. \/ CPU_NS' = Without(CPU_NS, p) /\ cut' = cut \cup {p}
          \/ CPU_NS' = CPU_NS /\ cut' = cut
      BY <1>9 DEF Evict
    <2>2. UNCHANGED <<live, exiting, leaving, lives, inflight, prev, used, usedAtRead, settled>>
      BY <1>9 DEF Evict
    <2>3. QED BY <1>0, <2>1, <2>2, LossBaseline, OtherBaseline
  <1>10. QED
    BY <1>1, <1>2, <1>3, <1>4, <1>5, <1>6, <1>7, <1>8, <1>9 DEF Next, Tick

(* The new baseline has all of a pid that the read did not cut.            *)
LEMMA WholeRead ==
    ASSUME DataOK, Read, NEW p \in Pids, p \notin cut'
    PROVE  /\ p \in DOMAIN prev' => prev'[p] = Total(p)
           /\ p \notin DOMAIN prev' => Total(p) = 0
  <1>1. PICK keys, running : ReadOf(keys, running)
    BY ReadSees
  <1>2. /\ DOMAIN Snapshot(keys, running) = keys \cup running
        /\ p \in keys \cup running => Snapshot(keys, running)[p] = Total(p)
        /\ p \notin keys \cup running => Total(p) = 0
    BY <1>1, SnapshotShows
  <1>3. prev' = Snapshot(keys, running)
    BY <1>1 DEF ReadOf
  <1>4. QED BY <1>2, <1>3

(* What CpuCollector::deltas reports for a pid with a baseline is exactly  *)
(* the CPU time used between the two reads, if both showed it in full and  *)
(* no reap or eviction removed its entry in between: slices in flight at   *)
(* either read, exits and recycled pids lose nothing and count nothing     *)
(* twice.                                                                  *)
THEOREM DeltasAreExact == Spec => BaselineDeltaIsExact
  <1>1. ASSUME Baseline, Read, NEW p \in DOMAIN prev \ (cut \cup cut')
        PROVE  deltas(prev')[p] = used[p] - usedAtRead[p]
    <2>1. TypeOK /\ DataOK /\ p \in Pids
      BY <1>1 DEF Baseline, Typed, TypeOK, DataOK
    <2>2. Read /\ p \notin cut'
      BY <1>1
    <2>3. /\ used[p] \in Nat /\ usedAtRead[p] \in Nat
          /\ prev[p] \in Nat /\ Total(p) \in Nat
      BY <1>1, <2>1 DEF TypeOK, Total, ValueOf
    <2>4. /\ usedAtRead[p] <= used[p]
          /\ Total(p) + usedAtRead[p] = prev[p] + used[p]
      BY <1>1, <2>1 DEF Baseline, Exact
    <2>5. /\ p \in DOMAIN prev' => prev'[p] = Total(p)
          /\ p \notin DOMAIN prev' => Total(p) = 0
      BY <2>1, <2>2, WholeRead
    <2>6. deltas(prev')[p] = IF p \in DOMAIN prev' \cap DOMAIN prev /\ prev'[p] > prev[p]
                             THEN prev'[p] - prev[p] ELSE 0
      BY <2>1 DEF deltas
    <2>7. CASE p \in DOMAIN prev'
      BY <1>1, <2>3, <2>4, <2>5, <2>6, <2>7
    <2>8. CASE p \notin DOMAIN prev'
      BY <2>3, <2>4, <2>5, <2>6, <2>8
    <2>9. QED BY <2>7, <2>8
  <1>2. ASSUME Baseline, [Next]_vars, phase = "idle", phase' = "read"
        PROVE  Read
    BY <1>2 DEF Next, Tick, Fork, Clone, Run, SwitchOut, EndWait, Evict, ExitThread, ExitHook,
                LastSwitch, BeginReap, ReapOne, EndTick, vars, collector
  <1>3. Baseline /\ [Next]_vars =>
           [phase = "idle" /\ phase' = "read" =>
              \A p \in DOMAIN prev \ (cut \cup cut') :
                 deltas(prev')[p] = used[p] - usedAtRead[p]]_vars
    BY <1>1, <1>2
  <1>4. QED BY <1>3, InitBaseline, StepBaseline, PTL DEF Spec, BaselineDeltaIsExact

(* reaper.rs:35-38: the reaper deletes the entry of a process that was     *)
(* finished when the tick read only after that read had all of it, unless  *)
(* a call of the read failed, however long its record waited and whatever  *)
(* ran between the read and the reap.                                      *)
THEOREM SettledAreRead == Spec => SettledTotalsAreRead
  <1>1. Baseline /\ [Next]_vars =>
           [\A p \in Pids : Reaps(p) /\ <<p, lives[p]>> \in settled /\ p \notin cut =>
               p \in DOMAIN prev /\ prev[p] >= CPU_NS[p]]_vars
    BY DEF Baseline, Finished, Reaps
  <1>2. QED BY <1>1, InitBaseline, StepBaseline, PTL DEF Spec, SettledTotalsAreRead
=============================================================================
