--------------------------- MODULE CpuTimeProofs ---------------------------
(***************************************************************************)
(* Proofs about CpuTime for any number of CPUs, threads and processes, any *)
(* map capacity and any clock.                                             *)
(***************************************************************************)
EXTENDS CpuTime, TLAPS

(* The slot charged grows by the amount; every other unit of time stays or *)
(* leaves with an evicted entry.                                           *)
AddsUp(m, n, p, c, amount) ==
    /\ DOMAIN n \subseteq DOMAIN m \cup {p}
    /\ n \in [DOMAIN n -> Slots]
    /\ \A q : \A k \in Cpus :
          Held(n, q, k) + Left(m, n, q, k)
            = Held(m, q, k) + IF q = p /\ k = c THEN amount ELSE 0

(* Adding to a counter map, in place or by an insertion that may evict,    *)
(* loses and invents nothing (cpu.rs:46-52).                               *)
LEMMA ChargedAddsUp ==
    ASSUME NEW m, m \in [DOMAIN m -> Slots],
           NEW p, NEW c \in Cpus, NEW amount \in Nat,
           NEW n \in Charged(m, p, c, amount)
    PROVE  AddsUp(m, n, p, c, amount)
  <1>1. CASE p \in DOMAIN m
    <2>1. n = [m EXCEPT ![p][c] = m[p][c] + amount]
      BY <1>1 DEF Charged
    <2>2. m[p] \in Slots /\ [m[p] EXCEPT ![c] = m[p][c] + amount] \in Slots
      BY <1>1 DEF Slots
    <2>3. DOMAIN n = DOMAIN m /\ n \in [DOMAIN m -> Slots]
      BY <2>1, <2>2
    <2>4. ASSUME NEW q, NEW k \in Cpus
          PROVE  Held(n, q, k) + Left(m, n, q, k)
                   = Held(m, q, k) + IF q = p /\ k = c THEN amount ELSE 0
      BY <2>1, <2>2, <2>3, <1>1 DEF Held, Left, Slots
    <2>5. QED BY <2>3, <2>4, <1>1 DEF AddsUp
  <1>2. CASE p \notin DOMAIN m
    <2>1. PICK kept \in SUBSET (DOMAIN m) :
            n = [q \in kept \cup {p} |->
                    IF q = p THEN FreshSlots(c, amount) ELSE m[q]]
      BY <1>2 DEF Charged, Survivors
    <2>2. FreshSlots(c, amount) \in Slots
      BY DEF FreshSlots, Slots
    <2>3. DOMAIN n = kept \cup {p} /\ n \in [DOMAIN n -> Slots]
      BY <2>1, <2>2
    <2>4. ASSUME NEW q, NEW k \in Cpus
          PROVE  Held(n, q, k) + Left(m, n, q, k)
                   = Held(m, q, k) + IF q = p /\ k = c THEN amount ELSE 0
      <3>1. CASE q = p
        BY <3>1, <2>1, <2>3, <1>2 DEF Held, Left, FreshSlots
      <3>2. CASE q # p
        <4>1. Held(m, q, k) \in Nat
          BY DEF Held, Slots
        <4>2. Held(n, q, k) + Left(m, n, q, k) = Held(m, q, k)
          BY <3>2, <2>1, <2>3, <4>1 DEF Held, Left, Slots
        <4>3. QED BY <3>2, <4>1, <4>2
      <3>3. QED BY <3>1, <3>2
    <2>5. QED BY <2>1, <2>3, <2>4 DEF AddsUp
  <1>3. QED BY <1>1, <1>2

-----------------------------------------------------------------------------
(* CURRENT_TGID follows the running thread from the first switch on.       *)
CurrentIsRunning ==
    \A c \in Cpus :
        CURRENT_TGID[c] = IF switched[c] THEN TgidOf(running[c]) ELSE Idle

(* Every unit p ran on c is counted, dropped with its entry, unseen, or    *)
(* part of the slice under way.                                            *)
OpenSlice(p, c) == IF TgidOf(running[c]) = p THEN onCpu[c] ELSE 0
SlicesAddUp ==
    \A p \in Procs, c \in Cpus :
        ran[p][c] = Counted(p, c) + gone[p][c] + unseen[p][c] + OpenSlice(p, c)

(* ReadIsExact is not inductive: a switch turns the in-flight slice into a *)
(* counted one, which is exact only because the stamp is the schedule-in   *)
(* time and CURRENT_TGID names the thread that really ran.                 *)
IInv == TypeOK /\ StampIsScheduleIn /\ CurrentIsRunning /\ SlicesAddUp

-----------------------------------------------------------------------------
(* A tid's group is a process, or idle for the idle thread only.           *)
LEMMA TgidType ==
    \A t \in Tids : /\ TgidOf(t) \in Procs \cup {Idle}
                    /\ TgidOf(t) = Idle <=> t = Idle
  BY GroupAssumption, IdleAssumption DEF Tids, TgidOf

-----------------------------------------------------------------------------
LEMMA InitIInv == Init => IInv
  <1> SUFFICES ASSUME Init PROVE IInv
    OBVIOUS
  <1> USE DEF Init, NoTime, Slots
  <1>1. TypeOK
    BY IdleAssumption DEF TypeOK, Tids
  <1>2. StampIsScheduleIn
    BY DEF StampIsScheduleIn
  <1>3. CurrentIsRunning
    BY DEF CurrentIsRunning
  <1>4. SlicesAddUp
    BY DEF SlicesAddUp, Counted, Held, OpenSlice
  <1>5. QED BY <1>1, <1>2, <1>3, <1>4 DEF IInv

-----------------------------------------------------------------------------
(* The clock advances: the open slices and the true times grow together.   *)
LEMMA TickIInv == IInv /\ Tick => IInv'
  <1> SUFFICES ASSUME IInv, Tick PROVE IInv'
    OBVIOUS
  <1> USE DEF IInv, Tick, maps
  <1>0. TypeOK /\ StampIsScheduleIn /\ CurrentIsRunning /\ SlicesAddUp
    OBVIOUS
  <1>1. TypeOK'
    BY DEF TypeOK, Slots
  <1>2. StampIsScheduleIn'
    <2> SUFFICES ASSUME NEW c \in Cpus, running[c] # Idle
                 PROVE  IF switched[c]
                        THEN START_TIME[c] # 0 /\ now' - START_TIME[c] = onCpu'[c]
                        ELSE START_TIME[c] = 0
      BY DEF StampIsScheduleIn
    <2>1. /\ onCpu'[c] = onCpu[c] + 1 /\ now' = now + 1
          /\ now \in Nat /\ START_TIME[c] \in Nat /\ onCpu[c] \in Nat
      BY DEF TypeOK, Slots
    <2>2. IF switched[c] THEN START_TIME[c] # 0 /\ now - START_TIME[c] = onCpu[c]
                         ELSE START_TIME[c] = 0
      BY DEF StampIsScheduleIn
    <2> HIDE DEF IInv, Tick, maps
    <2>3. CASE switched[c]
      BY <2>1, <2>2, <2>3
    <2>4. CASE ~switched[c]
      BY <2>2, <2>4
    <2>5. QED BY <2>3, <2>4
  <1>3. CurrentIsRunning'
    BY DEF CurrentIsRunning, TgidOf
  <1>4. ASSUME NEW p \in Procs, NEW c \in Cpus
        PROVE  (ran[p][c] = Counted(p, c) + gone[p][c] + unseen[p][c] + OpenSlice(p, c))'
    <2>1. ran[p][c] = Counted(p, c) + gone[p][c] + unseen[p][c] + OpenSlice(p, c)
      BY DEF SlicesAddUp
    <2>2. Counted(p, c)' = Counted(p, c) /\ Counted(p, c) \in Nat
      BY DEF Counted, Held, TypeOK, Slots
    <2>3. /\ ran[p][c] \in Nat /\ gone[p][c] \in Nat
          /\ unseen[p][c] \in Nat /\ onCpu[c] \in Nat
      BY DEF TypeOK, Slots
    <2>4. /\ ran'[p][c] = ran[p][c] + IF TgidOf(running[c]) = p THEN 1 ELSE 0
          /\ onCpu'[c] = onCpu[c] + 1
          /\ OpenSlice(p, c)' = OpenSlice(p, c) + IF TgidOf(running[c]) = p THEN 1 ELSE 0
      BY <2>3 DEF OpenSlice, TgidOf
    <2>5. OpenSlice(p, c) \in Nat
      BY <2>3 DEF OpenSlice
    <2>6. gone'[p][c] = gone[p][c] /\ unseen'[p][c] = unseen[p][c]
      OBVIOUS
    <2>7. CASE TgidOf(running[c]) = p
      <3>1. /\ ran'[p][c] = ran[p][c] + 1
            /\ OpenSlice(p, c)' = OpenSlice(p, c) + 1
        BY <2>4, <2>7
      <3> HIDE DEF IInv, Tick
      <3>2. QED BY <2>1, <2>2, <2>3, <2>5, <2>6, <3>1
    <2>8. CASE TgidOf(running[c]) # p
      <3>1. /\ ran'[p][c] = ran[p][c]
            /\ OpenSlice(p, c)' = OpenSlice(p, c)
        BY <2>3, <2>4, <2>5, <2>8
      <3> HIDE DEF IInv, Tick
      <3>2. QED BY <2>1, <2>2, <2>3, <2>5, <2>6, <3>1
    <2>9. QED BY <2>7, <2>8
  <1>5. SlicesAddUp'
    BY <1>4 DEF SlicesAddUp
  <1>6. QED BY <1>1, <1>2, <1>3, <1>5

-----------------------------------------------------------------------------
(* The hook: the slice that closes is the slice that was open.             *)
LEMMA SwitchIInv ==
    ASSUME IInv, NEW c \in Cpus, NEW next \in Tids, sched_switch(c, next)
    PROVE  IInv'
  <1> DEFINE prev == running[c]
             tgid == TgidOf(prev)
             slice == now - START_TIME[c]
             charged == prev # Idle /\ START_TIME[c] # 0
  <1> USE DEF IInv
  <1>1. /\ TypeOK /\ StampIsScheduleIn /\ CurrentIsRunning /\ SlicesAddUp
        /\ prev \in Tids /\ now \in Nat /\ now # 0
        /\ onCpu[c] \in Nat /\ START_TIME[c] \in Nat
        /\ switched[c] \in BOOLEAN
    BY DEF TypeOK, Slots
  <1>2. /\ tgid \in Procs \cup {Idle} /\ (tgid = Idle <=> prev = Idle)
        /\ TgidOf(next) \in Procs \cup {Idle}
    BY <1>1, TgidType
  <1>3. charged <=> prev # Idle /\ switched[c]
    BY <1>1 DEF StampIsScheduleIn
  <1>4. charged => slice = onCpu[c] /\ slice \in Nat
    BY <1>1, <1>3 DEF StampIsScheduleIn
  <1>5. /\ charged => CPU_NS' \in Charged(CPU_NS, tgid, c, slice)
        /\ ~charged => CPU_NS' = CPU_NS
    BY DEF sched_switch, charge_out
  <1>6. /\ DOMAIN CPU_NS \subseteq Procs /\ CPU_NS \in [DOMAIN CPU_NS -> Slots]
    BY <1>1 DEF TypeOK
  <1>7. /\ DOMAIN CPU_NS' \subseteq Procs
        /\ CPU_NS' \in [DOMAIN CPU_NS' -> Slots]
        /\ \A q \in Procs, k \in Cpus :
             Held(CPU_NS', q, k) + Left(CPU_NS, CPU_NS', q, k)
               = Held(CPU_NS, q, k)
                 + IF charged /\ q = tgid /\ k = c THEN onCpu[c] ELSE 0
    <2>1. CASE charged
      <3>1. tgid \in Procs
        BY <2>1, <1>2
      <3>2. AddsUp(CPU_NS, CPU_NS', tgid, c, slice)
        BY <2>1, <1>4, <1>5, <1>6, ChargedAddsUp
      <3>3. QED BY <2>1, <3>1, <3>2, <1>4, <1>6 DEF AddsUp
    <2>2. CASE ~charged
      <3>1. CPU_NS' = CPU_NS
        BY <2>2, <1>5
      <3>2. \A q \in Procs, k \in Cpus :
              Held(CPU_NS, q, k) \in Nat /\ Left(CPU_NS, CPU_NS', q, k) = 0
        BY <3>1, <1>6 DEF Held, Left, Slots
      <3>3. QED BY <2>2, <3>1, <3>2, <1>6
    <2>3. QED BY <2>1, <2>2
  <1>8. /\ \A p \in Procs, k \in Cpus :
             gone'[p][k] = gone[p][k] + Left(CPU_NS, CPU_NS', p, k)
        /\ gone' \in [Procs -> Slots]
    <2>1. gone' = [p \in Procs |-> [k \in Cpus |->
                     gone[p][k] + Left(CPU_NS, CPU_NS', p, k)]]
      BY DEF sched_switch, RecordDepartures
    <2>2. \A p \in Procs, k \in Cpus :
             gone[p][k] \in Nat /\ Left(CPU_NS, CPU_NS', p, k) \in Nat
      BY <1>1, <1>6 DEF TypeOK, Slots, Left
    <2>3. QED BY <2>1, <2>2 DEF Slots
  <1>9. /\ \A p \in Procs, k \in Cpus :
             unseen'[p][k] = unseen[p][k]
                + IF k = c /\ ~switched[c] /\ tgid = p THEN onCpu[c] ELSE 0
        /\ unseen' \in [Procs -> Slots]
    <2>1. \A p \in Procs, k \in Cpus : unseen[p][k] \in Nat
      BY <1>1 DEF TypeOK, Slots
    <2>2. QED BY <1>1, <2>1 DEF sched_switch, RecordUnseen, Slots
  <1>10. /\ running' = [running EXCEPT ![c] = next]
         /\ onCpu' = [onCpu EXCEPT ![c] = 0]
         /\ switched' = [switched EXCEPT ![c] = TRUE]
         /\ now' = now /\ ran' = ran
         /\ START_TIME' = IF next = Idle THEN START_TIME
                          ELSE [START_TIME EXCEPT ![c] = now]
         /\ CURRENT_TGID' = [CURRENT_TGID EXCEPT ![c] = TgidOf(next)]
    BY DEF sched_switch, mark_in
  <1>11. TypeOK'
    BY <1>1, <1>2, <1>7, <1>8, <1>9, <1>10 DEF TypeOK, Slots
  <1>12. StampIsScheduleIn'
    BY <1>1, <1>10 DEF StampIsScheduleIn, TypeOK, Slots
  <1>13. CurrentIsRunning'
    <2>1. \A t \in Tids : TgidOf(t)' = TgidOf(t)
      BY DEF TgidOf
    <2>2. QED BY <1>1, <1>10, <2>1 DEF CurrentIsRunning, TypeOK, TgidOf
  <1>14. ASSUME NEW p \in Procs, NEW k \in Cpus
         PROVE  (ran[p][k] = Counted(p, k) + gone[p][k] + unseen[p][k] + OpenSlice(p, k))'
    <2>1. ran[p][k] = Held(CPU_NS, p, k) + gone[p][k] + unseen[p][k] + OpenSlice(p, k)
      BY <1>1 DEF SlicesAddUp, Counted, Held
    <2>2. Counted(p, k)' = Held(CPU_NS', p, k)
      BY DEF Counted, Held
    <2>3. /\ Held(CPU_NS, p, k) \in Nat /\ Held(CPU_NS', p, k) \in Nat
          /\ Left(CPU_NS, CPU_NS', p, k) \in Nat
          /\ gone[p][k] \in Nat /\ unseen[p][k] \in Nat /\ onCpu[k] \in Nat
          /\ ran[p][k] \in Nat
      BY <1>1, <1>6, <1>7 DEF TypeOK, Slots, Held, Left
    <2>4. Held(CPU_NS', p, k) + Left(CPU_NS, CPU_NS', p, k)
            = Held(CPU_NS, p, k)
              + IF charged /\ p = tgid /\ k = c THEN onCpu[c] ELSE 0
      BY <1>7
    <2>5. OpenSlice(p, k)' = IF k = c THEN 0 ELSE OpenSlice(p, k)
      <3>1. CASE k = c
        <4>1. onCpu'[c] = 0
          BY <1>1, <1>10 DEF TypeOK, Slots
        <4>2. QED BY <3>1, <4>1 DEF OpenSlice
      <3>2. CASE k # c
        <4>1. onCpu'[k] = onCpu[k] /\ running'[k] = running[k]
          BY <3>2, <1>1, <1>10 DEF TypeOK, Slots
        <4>2. QED BY <3>2, <4>1 DEF OpenSlice, TgidOf
      <3>3. QED BY <3>1, <3>2
    <2>6. OpenSlice(p, c) = IF p = tgid THEN onCpu[c] ELSE 0
      BY DEF OpenSlice
    <2>7. OpenSlice(p, k) \in Nat
      BY <2>3 DEF OpenSlice
    <2>8. p = tgid => prev # Idle
      BY <1>2, IdleAssumption
    <2>9. CASE k = c
      <3>1. gone'[p][k] + Held(CPU_NS', p, k)
              = gone[p][k] + Held(CPU_NS, p, k)
                + IF charged /\ p = tgid THEN onCpu[c] ELSE 0
        BY <2>3, <2>4, <2>9, <1>1, <1>8
      <3>2. unseen'[p][k] = unseen[p][k]
              + IF ~switched[c] /\ p = tgid THEN onCpu[c] ELSE 0
        BY <2>9, <1>9
      <3>3. OpenSlice(p, k)' = 0 /\ ran'[p][k] = ran[p][k]
        BY <2>5, <2>9, <1>10
      <3>4. gone'[p][k] \in Nat /\ unseen'[p][k] \in Nat
        BY <1>8, <1>9 DEF Slots
      <3>5. CASE p = tgid
        BY <3>5, <3>1, <3>2, <3>3, <3>4, <2>1, <2>2, <2>3, <2>6, <2>8, <2>9, <1>1, <1>3
      <3>6. CASE p # tgid
        BY <3>6, <3>1, <3>2, <3>3, <3>4, <2>1, <2>2, <2>3, <2>6, <2>9
      <3>7. QED BY <3>5, <3>6
    <2>10. CASE k # c
      <3>1. gone'[p][k] + Held(CPU_NS', p, k) = gone[p][k] + Held(CPU_NS, p, k)
        BY <2>3, <2>4, <2>10, <1>8
      <3>2. /\ unseen'[p][k] = unseen[p][k] /\ ran'[p][k] = ran[p][k]
            /\ OpenSlice(p, k)' = OpenSlice(p, k)
        BY <2>3, <2>5, <2>10, <1>9, <1>10
      <3>3. gone'[p][k] \in Nat
        BY <1>8 DEF Slots
      <3>4. QED BY <3>1, <3>2, <3>3, <2>1, <2>2, <2>3, <2>7
    <2>11. QED BY <2>9, <2>10
  <1>15. SlicesAddUp'
    BY <1>14 DEF SlicesAddUp
  <1>16. QED BY <1>11, <1>12, <1>13, <1>15

-----------------------------------------------------------------------------
(* The reaper: what leaves the map is recorded as gone.                    *)
LEMMA DeleteIInv ==
    ASSUME IInv, NEW p \in Procs, DeleteEntry(p)
    PROVE  IInv'
  <1> USE DEF IInv, DeleteEntry, Without, env
  <1>1. /\ TypeOK /\ StampIsScheduleIn /\ CurrentIsRunning /\ SlicesAddUp
        /\ DOMAIN CPU_NS \subseteq Procs /\ CPU_NS \in [DOMAIN CPU_NS -> Slots]
    BY DEF TypeOK
  <1>2. /\ DOMAIN CPU_NS' = DOMAIN CPU_NS \ {p}
        /\ \A q \in DOMAIN CPU_NS' : CPU_NS'[q] = CPU_NS[q]
        /\ CPU_NS' \in [DOMAIN CPU_NS' -> Slots]
    BY <1>1
  <1>3. /\ \A q \in Procs, k \in Cpus :
             gone'[q][k] = gone[q][k] + IF q = p THEN CPU_NS[q][k] ELSE 0
        /\ gone' \in [Procs -> Slots]
    <2>1. \A q \in Procs, k \in Cpus :
             Left(CPU_NS, CPU_NS', q, k) = IF q = p THEN CPU_NS[q][k] ELSE 0
      BY <1>1, <1>2 DEF Left
    <2>2. CPU_NS[p] \in Slots
      BY <1>1
    <2>3. \A q \in Procs, k \in Cpus : gone[q][k] \in Nat
      BY <1>1 DEF TypeOK, Slots
    <2>4. gone' = [q \in Procs |-> [k \in Cpus |->
                    gone[q][k] + Left(CPU_NS, CPU_NS', q, k)]]
      BY DEF RecordDepartures
    <2>5. \A q \in Procs, k \in Cpus :
            gone'[q][k] = gone[q][k] + IF q = p THEN CPU_NS[q][k] ELSE 0
      BY <2>1, <2>4
    <2>6. \A q \in Procs, k \in Cpus : Left(CPU_NS, CPU_NS', q, k) \in Nat
      BY <2>1, <2>2 DEF Slots
    <2>7. gone' \in [Procs -> Slots]
      <3> HIDE DEF IInv, DeleteEntry, Without, env
      <3>1. ASSUME NEW q \in Procs, NEW k \in Cpus
            PROVE  gone[q][k] + Left(CPU_NS, CPU_NS', q, k) \in Nat
        BY <2>3, <2>6
      <3>2. QED BY <3>1, <2>4 DEF Slots
    <2>8. QED BY <2>5, <2>7
  <1>4. TypeOK'
    BY <1>1, <1>2, <1>3 DEF TypeOK
  <1>5. StampIsScheduleIn' /\ CurrentIsRunning'
    BY <1>1 DEF StampIsScheduleIn, CurrentIsRunning, TgidOf
  <1>6. ASSUME NEW q \in Procs, NEW k \in Cpus
        PROVE  (ran[q][k] = Counted(q, k) + gone[q][k] + unseen[q][k] + OpenSlice(q, k))'
    <2>1. ran[q][k] = Counted(q, k) + gone[q][k] + unseen[q][k] + OpenSlice(q, k)
      BY <1>1 DEF SlicesAddUp
    <2>2. OpenSlice(q, k)' = OpenSlice(q, k) /\ OpenSlice(q, k) \in Nat
      BY <1>1 DEF OpenSlice, TgidOf, TypeOK, Slots
    <2>3. /\ gone[q][k] \in Nat /\ unseen[q][k] \in Nat
          /\ Counted(q, k) \in Nat /\ Counted(q, k)' \in Nat
      BY <1>1, <1>2 DEF TypeOK, Slots, Counted, Held
    <2>4. Counted(q, k)' + gone'[q][k] = Counted(q, k) + gone[q][k]
      BY <1>1, <1>2, <1>3, <2>3 DEF Counted, Held
    <2>5. gone'[q][k] \in Nat
      BY <1>3 DEF Slots
    <2>6. QED BY <2>1, <2>2, <2>3, <2>4, <2>5
  <1>7. SlicesAddUp'
    BY <1>6 DEF SlicesAddUp
  <1>8. QED BY <1>4, <1>5, <1>7

-----------------------------------------------------------------------------
LEMMA StepIInv == IInv /\ [Next]_vars => IInv'
  <1> SUFFICES ASSUME IInv, [Next]_vars PROVE IInv'
    OBVIOUS
  <1>1. CASE Tick
    BY <1>1, TickIInv
  <1>2. ASSUME NEW c \in Cpus, NEW next \in Tids, sched_switch(c, next)
        PROVE  IInv'
    BY <1>2, SwitchIInv
  <1>3. ASSUME NEW p \in Procs, DeleteEntry(p)
        PROVE  IInv'
    BY <1>3, DeleteIInv
  <1>4. CASE UNCHANGED vars
    BY <1>4 DEF vars, env, maps, history, IInv, TypeOK, StampIsScheduleIn,
                CurrentIsRunning, SlicesAddUp, Counted, Held, OpenSlice, TgidOf
  <1>5. QED BY <1>1, <1>2, <1>3, <1>4 DEF Next

(* In every reachable state each value has its type, whatever the number   *)
(* of CPUs, threads and processes (cpu.rs, all maps).                      *)
THEOREM TypeCorrect == Spec => []TypeOK
  <1>1. IInv => TypeOK
    BY DEF IInv
  <1>2. QED BY <1>1, InitIInv, StepIInv, PTL DEF Spec

(* A real outgoing thread always finds its own schedule-in time in its     *)
(* CPU's slot (cpu.rs:8-11), for any interleaving of switches and idling.  *)
THEOREM StampCorrect == Spec => []StampIsScheduleIn
  <1>1. IInv => StampIsScheduleIn
    BY DEF IInv
  <1>2. QED BY <1>1, InitIInv, StepIInv, PTL DEF Spec

(* What the collector reads is exactly the time each process ran, less     *)
(* what left with evicted or deleted entries and the slice under way at    *)
(* attach (charge_out, mark_in, add_inflight).                             *)
THEOREM ReadCorrect == Spec => []ReadIsExact
  <1>1. IInv => ReadIsExact
    <2> SUFFICES ASSUME IInv, NEW p \in Procs, NEW c \in Cpus
                 PROVE  ran[p][c] = Counted(p, c) + Inflight(p, c)
                                      + gone[p][c] + Unstamped(p, c)
      BY DEF ReadIsExact
    <2>1. /\ ran[p][c] = Counted(p, c) + gone[p][c] + unseen[p][c] + OpenSlice(p, c)
          /\ running[c] \in Tids /\ switched[c] \in BOOLEAN
          /\ now \in Nat /\ START_TIME[c] \in Nat /\ onCpu[c] \in Nat
          /\ gone[p][c] \in Nat /\ unseen[p][c] \in Nat
          /\ Counted(p, c) \in Nat
      BY DEF IInv, SlicesAddUp, TypeOK, Slots, Counted, Held
    <2>2. CURRENT_TGID[c] = IF switched[c] THEN TgidOf(running[c]) ELSE Idle
      BY DEF IInv, CurrentIsRunning
    <2>3. p # Idle /\ (TgidOf(running[c]) = p => running[c] # Idle)
      BY <2>1, TgidType, IdleAssumption
    <2>4. running[c] # Idle =>
             IF switched[c] THEN START_TIME[c] # 0 /\ now - START_TIME[c] = onCpu[c]
                            ELSE START_TIME[c] = 0
      BY DEF IInv, StampIsScheduleIn
    <2>5. CASE TgidOf(running[c]) = p /\ switched[c]
      <3>1. Inflight(p, c) = onCpu[c]
        BY <2>1, <2>2, <2>3, <2>4, <2>5 DEF Inflight
      <3>2. OpenSlice(p, c) = onCpu[c] /\ Unstamped(p, c) = unseen[p][c]
        BY <2>1, <2>5 DEF OpenSlice, Unstamped
      <3>3. QED BY <2>1, <3>1, <3>2
    <2>6. CASE TgidOf(running[c]) = p /\ ~switched[c]
      <3>1. Inflight(p, c) = 0
        BY <2>2, <2>3, <2>6 DEF Inflight
      <3>2. OpenSlice(p, c) = onCpu[c] /\ Unstamped(p, c) = unseen[p][c] + onCpu[c]
        BY <2>6 DEF OpenSlice, Unstamped
      <3>3. QED BY <2>1, <3>1, <3>2
    <2>7. CASE TgidOf(running[c]) # p
      <3>1. Inflight(p, c) = 0
        BY <2>2, <2>3, <2>7 DEF Inflight
      <3>2. OpenSlice(p, c) = 0 /\ Unstamped(p, c) = unseen[p][c]
        BY <2>1, <2>7 DEF OpenSlice, Unstamped
      <3>3. QED BY <2>1, <3>1, <3>2
    <2>8. QED BY <2>5, <2>6, <2>7
  <1>2. QED BY <1>1, InitIInv, StepIInv, PTL DEF Spec

-----------------------------------------------------------------------------
(* A step that never un-counts time advances the meter: what is counted    *)
(* and what is gone stay, together, within what was consumed.              *)
LEMMA AdvanceStep ==
    ASSUME IInv, IInv',
           \A p \in Procs, c \in Cpus :
              /\ ran'[p][c] >= ran[p][c]
              /\ gone'[p][c] >= gone[p][c]
              /\ Counted(p, c)' + gone'[p][c] >= Counted(p, c) + gone[p][c]
    PROVE  M!Advance
  <1> DEFINE cnt == [k \in SlotKeys |-> Counted(k[1], k[2])]
             out == [k \in SlotKeys |-> gone[k[1]][k[2]]]
             use == [k \in SlotKeys |-> ran[k[1]][k[2]]]
  <1>1. ASSUME NEW p \in Procs, NEW c \in Cpus
        PROVE  /\ Counted(p, c)' \in Nat /\ gone'[p][c] \in Nat
               /\ ran'[p][c] \in Nat
               /\ Counted(p, c)' + gone'[p][c] <= ran'[p][c]
    <2>1. /\ Counted(p, c)' \in Nat /\ gone'[p][c] \in Nat
          /\ unseen'[p][c] \in Nat /\ onCpu'[c] \in Nat
          /\ ran'[p][c] \in Nat
      BY DEF IInv, TypeOK, Slots, Counted, Held
    <2>2. OpenSlice(p, c)' \in Nat
      BY <2>1 DEF OpenSlice
    <2>3. ran'[p][c] = Counted(p, c)' + gone'[p][c] + unseen'[p][c] + OpenSlice(p, c)'
      BY DEF IInv, SlicesAddUp
    <2>4. QED BY <2>1, <2>2, <2>3
  <1>2. /\ cnt' \in [SlotKeys -> Nat] /\ out' \in [SlotKeys -> Nat]
        /\ use' \in [SlotKeys -> Nat]
    BY <1>1 DEF SlotKeys
  <1>3. ASSUME NEW k \in SlotKeys
        PROVE  /\ use'[k] >= use[k]
               /\ out'[k] >= out[k]
               /\ cnt'[k] + out'[k] >= cnt[k] + out[k]
               /\ cnt'[k] + out'[k] <= use'[k]
    <2>1. k[1] \in Procs /\ k[2] \in Cpus
      BY DEF SlotKeys
    <2>2. /\ cnt[k] = Counted(k[1], k[2]) /\ out[k] = gone[k[1]][k[2]]
          /\ use[k] = ran[k[1]][k[2]] /\ use'[k] = ran'[k[1]][k[2]]
          /\ cnt'[k] = Counted(k[1], k[2])' /\ out'[k] = gone'[k[1]][k[2]]
      OBVIOUS
    <2>3. QED BY <2>1, <2>2, <1>1
  <1>4. QED BY <1>2, <1>3 DEF M!Advance

(* CPU accounting keeps the promise of the abstract meter for every slot   *)
(* of every process (charge_out and the deletions of the reaper).          *)
THEOREM MeterRefinement == Spec => ImplementsMeter
  <1>1. Init => M!Init
    BY DEF Init, M!Init, NoTime, SlotKeys, Counted, Held
  <1>2. IInv /\ IInv' /\ [Next]_vars => [M!Advance]_M!vars
    <2> SUFFICES ASSUME IInv, IInv', [Next]_vars
                 PROVE  [M!Advance]_M!vars
      OBVIOUS
    <2>0. ASSUME NEW p \in Procs, NEW c \in Cpus
          PROVE  /\ ran[p][c] \in Nat /\ gone[p][c] \in Nat
                 /\ Counted(p, c) \in Nat /\ Counted(p, c)' \in Nat
                 /\ gone'[p][c] \in Nat
      BY DEF IInv, TypeOK, Slots, Counted, Held
    <2>1. CASE Tick
      <3>1. UNCHANGED <<CPU_NS, gone>>
        BY <2>1 DEF Tick, maps
      <3>2. ASSUME NEW p \in Procs, NEW c \in Cpus
            PROVE  /\ ran'[p][c] >= ran[p][c] /\ gone'[p][c] >= gone[p][c]
                   /\ Counted(p, c)' + gone'[p][c] >= Counted(p, c) + gone[p][c]
        <4>1. Counted(p, c)' = Counted(p, c)
          BY <3>1 DEF Counted, Held
        <4>2. ran'[p][c] >= ran[p][c]
          BY <2>0, <2>1 DEF Tick
        <4>3. QED BY <2>0, <3>1, <4>1, <4>2
      <3>3. QED BY <3>2, AdvanceStep
    <2>2. ASSUME NEW c \in Cpus, NEW next \in Tids, sched_switch(c, next)
          PROVE  M!Advance
      <3>1. /\ UNCHANGED ran /\ now' = now
            /\ gone' = [p \in Procs |-> [k \in Cpus |->
                           gone[p][k] + Left(CPU_NS, CPU_NS', p, k)]]
        BY <2>2 DEF sched_switch, RecordDepartures
      <3>2. ASSUME NEW p \in Procs, NEW k \in Cpus
            PROVE  Held(CPU_NS', p, k) + Left(CPU_NS, CPU_NS', p, k) >= Held(CPU_NS, p, k)
        <4>1. ASSUME NEW n \in Charged(CPU_NS, TgidOf(running[c]), c,
                                       now - START_TIME[c]),
                     running[c] # Idle, START_TIME[c] # 0
              PROVE  Held(n, p, k) + Left(CPU_NS, n, p, k) >= Held(CPU_NS, p, k)
          <5>1. /\ now - START_TIME[c] \in Nat
                /\ TgidOf(running[c]) \in Procs
                /\ DOMAIN CPU_NS \subseteq Procs
                /\ CPU_NS \in [DOMAIN CPU_NS -> Slots]
            <6>1. /\ running[c] \in Tids /\ switched[c] \in BOOLEAN
                  /\ onCpu[c] \in Nat
                  /\ DOMAIN CPU_NS \subseteq Procs
                  /\ CPU_NS \in [DOMAIN CPU_NS -> Slots]
              BY DEF IInv, TypeOK, Slots
            <6>2. now - START_TIME[c] = onCpu[c]
              BY <4>1, <6>1 DEF IInv, StampIsScheduleIn
            <6>3. QED BY <4>1, <6>1, <6>2, TgidType
          <5>2a. AddsUp(CPU_NS, n, TgidOf(running[c]), c, now - START_TIME[c])
            BY <4>1, <5>1, ChargedAddsUp
          <5>2. Held(n, p, k) + Left(CPU_NS, n, p, k)
                  = Held(CPU_NS, p, k)
                    + IF p = TgidOf(running[c]) /\ k = c
                      THEN now - START_TIME[c] ELSE 0
            BY <5>2a DEF AddsUp
          <5>3. Held(CPU_NS, p, k) \in Nat
            BY <5>1 DEF Held, Slots
          <5>4. QED BY <5>1, <5>2, <5>3
        <4>2. CASE CPU_NS' = CPU_NS
          BY <2>0, <4>2 DEF Held, Left, Counted
        <4>3. QED BY <2>2, <4>1, <4>2 DEF sched_switch, charge_out
      <3>3. ASSUME NEW p \in Procs, NEW k \in Cpus
            PROVE  /\ gone'[p][k] >= gone[p][k]
                   /\ Counted(p, k)' + gone'[p][k] >= Counted(p, k) + gone[p][k]
        <4>1. /\ Left(CPU_NS, CPU_NS', p, k) \in Nat
              /\ Counted(p, k) = Held(CPU_NS, p, k)
              /\ Counted(p, k)' = Held(CPU_NS', p, k)
          BY DEF IInv, TypeOK, Slots, Left, Counted, Held
        <4>2. gone'[p][k] = gone[p][k] + Left(CPU_NS, CPU_NS', p, k)
          BY <3>1
        <4>3. QED BY <2>0, <3>2, <4>1, <4>2
      <3>4. \A p \in Procs, k \in Cpus : ran'[p][k] >= ran[p][k]
        BY <2>0, <3>1
      <3>5. QED BY <3>3, <3>4, AdvanceStep
    <2>3. ASSUME NEW p \in Procs, DeleteEntry(p)
          PROVE  M!Advance
      <3>1. /\ UNCHANGED ran
            /\ CPU_NS' = [q \in DOMAIN CPU_NS \ {p} |-> CPU_NS[q]]
            /\ gone' = [q \in Procs |-> [k \in Cpus |->
                           gone[q][k] + Left(CPU_NS, CPU_NS', q, k)]]
        BY <2>3 DEF DeleteEntry, RecordDepartures, Without
      <3>2. ASSUME NEW q \in Procs, NEW k \in Cpus
            PROVE  /\ gone'[q][k] >= gone[q][k]
                   /\ Counted(q, k)' + gone'[q][k] >= Counted(q, k) + gone[q][k]
        <4>0. CPU_NS \in [DOMAIN CPU_NS -> Slots]
          BY DEF IInv, TypeOK
        <4>1. /\ Left(CPU_NS, CPU_NS', q, k) \in Nat
              /\ Counted(q, k)' + Left(CPU_NS, CPU_NS', q, k) = Counted(q, k)
          <5>1. CASE q = p
            BY <2>0, <3>1, <4>0, <5>1 DEF Slots, Left, Counted, Held
          <5>2. CASE q # p
            BY <2>0, <3>1, <4>0, <5>2 DEF Slots, Left, Counted, Held
          <5>3. QED BY <5>1, <5>2
        <4>2. gone'[q][k] = gone[q][k] + Left(CPU_NS, CPU_NS', q, k)
          BY <3>1
        <4>3. QED BY <2>0, <4>1, <4>2
      <3>3. ASSUME NEW q \in Procs, NEW k \in Cpus
            PROVE  ran'[q][k] >= ran[q][k]
        <4>1. ran' = ran
          BY <2>3 DEF DeleteEntry
        <4>2. QED BY <2>0, <4>1
      <3>4. QED BY <3>2, <3>3, AdvanceStep
    <2>4. CASE UNCHANGED vars
      BY <2>4 DEF vars, maps, history, M!vars, Counted, Held
    <2>5. QED BY <2>1, <2>2, <2>3, <2>4 DEF Next, M!Advance
  <1>3. QED BY <1>1, <1>2, InitIInv, StepIInv, PTL DEF Spec, ImplementsMeter, M!Spec
=============================================================================
