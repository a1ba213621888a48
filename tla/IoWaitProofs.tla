---------------------------- MODULE IoWaitProofs ----------------------------
(***************************************************************************)
(* The I/O-wait accounting for any set of CPUs, threads and processes, any *)
(* capacity of both maps, and either way of reading prev_state.            *)
(***************************************************************************)
EXTENDS IoWait, TLAPS

(* The slot charged grows by the amount; every other unit of time stays or *)
(* leaves with an evicted entry.                                           *)
AddsUp(m, n, p, c, amount) ==
    /\ DOMAIN n \subseteq DOMAIN m \cup {p}
    /\ n \in [DOMAIN n -> Slots]
    /\ \A q : \A k \in Cpus :
          Held(n, q, k) + Left(m, n, q, k)
            = Held(m, q, k) + IF q = p /\ k = c THEN amount ELSE 0

(* Adding to a counter map, in place or by an insertion that may evict,    *)
(* loses and invents nothing (iowait.rs:55-61); the same law as of CPU time. *)
LEMMA ChargedAddsUp ==
    ASSUME NEW m, m \in [DOMAIN m -> Slots],
           NEW p, NEW c \in Cpus, NEW amount \in Nat,
           NEW n \in Charged(m, p, c, amount)
    PROVE  AddsUp(m, n, p, c, amount)
  <1>1. CASE p \in DOMAIN m
    <2>1. n = [m EXCEPT ![p][c] = m[p][c] + amount]
      BY <1>1 DEF Charged
    <2>2. m[p] \in Slots /\ [m[p] EXCEPT ![c] = m[p][c] + amount] \in Slots
      BY <1>1 DEF Slots
    <2>3. DOMAIN n = DOMAIN m /\ n \in [DOMAIN m -> Slots]
      BY <2>1, <2>2
    <2>4. ASSUME NEW q, NEW k \in Cpus
          PROVE  Held(n, q, k) + Left(m, n, q, k)
                   = Held(m, q, k) + IF q = p /\ k = c THEN amount ELSE 0
      BY <2>1, <2>2, <2>3, <1>1 DEF Held, Left, Slots
    <2>5. QED BY <2>3, <2>4, <1>1 DEF AddsUp
  <1>2. CASE p \notin DOMAIN m
    <2>1. PICK kept \in SUBSET (DOMAIN m) :
            n = [q \in kept \cup {p} |->
                    IF q = p THEN FreshSlots(c, amount) ELSE m[q]]
      BY <1>2 DEF Charged, Survivors
    <2>2. FreshSlots(c, amount) \in Slots
      BY DEF FreshSlots, Slots
    <2>3. DOMAIN n = kept \cup {p} /\ n \in [DOMAIN n -> Slots]
      BY <2>1, <2>2
    <2>4. ASSUME NEW q, NEW k \in Cpus
          PROVE  Held(n, q, k) + Left(m, n, q, k)
                   = Held(m, q, k) + IF q = p /\ k = c THEN amount ELSE 0
      <3>1. CASE q = p
        BY <3>1, <2>1, <2>3, <1>2 DEF Held, Left, FreshSlots
      <3>2. CASE q # p
        <4>1. Held(m, q, k) \in Nat
          BY DEF Held, Slots
        <4>2. Held(n, q, k) + Left(m, n, q, k) = Held(m, q, k)
          BY <3>2, <2>1, <2>3, <4>1 DEF Held, Left, Slots
        <4>3. QED BY <3>2, <4>1, <4>2
      <3>3. QED BY <3>1, <3>2
    <2>5. QED BY <2>1, <2>3, <2>4 DEF AddsUp
  <1>3. QED BY <1>1, <1>2

-----------------------------------------------------------------------------
(* A running thread is on one CPU, and not asleep. *)
RunningIsPlaced ==
    \A c \in Cpus : running[c] # Idle =>
        /\ place[running[c]] = "cpu"
        /\ \A d \in Cpus : running[d] = running[c] => d = c

(* Who left a CPU in state D carries a stamp, unless none could be taken.  *)
SleepersAreStamped ==
    \A t \in Threads :
        /\ inD[t] => place[t] \in {"ready", "blocked"}
        /\ t \in DOMAIN SLEEP_SINCE <=> inD[t] /\ t \notin unseen

(* WaitsAreBilled is not inductive: the wait billed at a switch-in is the  *)
(* one that ended only because the stamp found is that of its beginning,   *)
(* and because a thread without a stamp is one whose stamp was missed.     *)
IInv ==
    /\ TypeOK
    /\ RunningIsPlaced
    /\ SleepersAreStamped
    /\ StampsAreSleepers
    /\ WaitsAreBilled

-----------------------------------------------------------------------------
LEMMA TgidType ==
    \A t \in Tids : /\ TgidOf(t) \in Procs \cup {Idle}
                    /\ TgidOf(t) = Idle <=> t = Idle
  BY GroupAssumption, IdleAssumption DEF Tids, TgidOf

LEMMA InitIInv == Init => IInv
  <1> SUFFICES ASSUME Init PROVE IInv
    OBVIOUS
  <1> USE DEF Init, NoTime, Slots
  <1>1. TypeOK
    BY IdleAssumption DEF TypeOK, Tids
  <1>2. RunningIsPlaced /\ SleepersAreStamped /\ StampsAreSleepers
    BY DEF RunningIsPlaced, SleepersAreStamped, StampsAreSleepers
  <1>3. WaitsAreBilled
    BY DEF WaitsAreBilled, Counted, Held
  <1>4. QED BY <1>1, <1>2, <1>3 DEF IInv

(* Steps that leave the counters and what they are compared with alone.    *)
LEMMA SameBills ==
    ASSUME WaitsAreBilled, UNCHANGED <<IOWAIT_NS, waited, missed, gone>>
    PROVE  WaitsAreBilled'
  BY DEF WaitsAreBilled, Counted, Held

-----------------------------------------------------------------------------
(* The stamp table after a switch from prev, seen in state `seen`, to next. *)
LEMMA StampTable ==
    ASSUME TypeOK, NEW c \in Cpus, NEW prev \in Tids, NEW next \in Tids, NEW seen,
           prev # next, prev \notin DOMAIN SLEEP_SINCE,
           wake_in(sleep_out(SLEEP_SINCE, seen, prev), TgidOf(next), next, c)
    PROVE  /\ \A t \in Threads : t \in DOMAIN SLEEP_SINCE' <=>
                 \/ t \in DOMAIN SLEEP_SINCE /\ t # next
                 \/ t = prev /\ seen = "D" /\ HasRoom(SLEEP_SINCE)
           /\ DOMAIN SLEEP_SINCE' \subseteq Threads
           /\ \A t \in DOMAIN SLEEP_SINCE' :
                 SLEEP_SINCE'[t] = IF t = prev THEN now ELSE SLEEP_SINCE[t]
           /\ SLEEP_SINCE' \in [DOMAIN SLEEP_SINCE' -> Nat]
           /\ IF next \in DOMAIN SLEEP_SINCE
              THEN IOWAIT_NS' \in Charged(IOWAIT_NS, TgidOf(next), c, now - SLEEP_SINCE[next])
              ELSE IOWAIT_NS' = IOWAIT_NS
  <1> DEFINE m == sleep_out(SLEEP_SINCE, seen, prev)
             stamped == prev # Idle /\ seen = "D" /\ HasRoom(SLEEP_SINCE)
  <1>1. /\ DOMAIN SLEEP_SINCE \subseteq Threads /\ now \in Nat
        /\ SLEEP_SINCE \in [DOMAIN SLEEP_SINCE -> Nat]
        /\ Idle \notin DOMAIN SLEEP_SINCE
    BY IdleAssumption DEF TypeOK
  <1>2. /\ DOMAIN m = IF stamped THEN DOMAIN SLEEP_SINCE \cup {prev} ELSE DOMAIN SLEEP_SINCE
        /\ \A t \in DOMAIN m : m[t] = IF t = prev THEN now ELSE SLEEP_SINCE[t]
    BY <1>1 DEF sleep_out, Stamped
  <1>3. next \in DOMAIN m <=> next \in DOMAIN SLEEP_SINCE
    BY <1>2
  <1>4. m = [t \in DOMAIN m |-> m[t]]
    BY <1>1 DEF sleep_out, Stamped
  <1> HIDE DEF m
  <1>5. CASE next \in DOMAIN SLEEP_SINCE
    <2>1. next # Idle /\ TgidOf(next) # Idle /\ m[next] = SLEEP_SINCE[next]
      BY <1>1, <1>2, <1>3, <1>5, TgidType
    <2>2. /\ SLEEP_SINCE' = Without(m, next)
          /\ IOWAIT_NS' \in Charged(IOWAIT_NS, TgidOf(next), c, now - m[next])
      BY <1>3, <1>5, <2>1 DEF wake_in, m
    <2>3. /\ DOMAIN SLEEP_SINCE' = DOMAIN m \ {next}
          /\ \A t \in DOMAIN SLEEP_SINCE' : SLEEP_SINCE'[t] = m[t]
          /\ SLEEP_SINCE' = [t \in DOMAIN SLEEP_SINCE' |-> SLEEP_SINCE'[t]]
      BY <2>2 DEF Without
    <2>4. QED BY <1>1, <1>2, <1>5, <2>1, <2>2, <2>3, IdleAssumption DEF Tids
  <1>6. CASE next \notin DOMAIN SLEEP_SINCE
    <2>1. SLEEP_SINCE' = m /\ IOWAIT_NS' = IOWAIT_NS
      BY <1>3, <1>6 DEF wake_in, m
    <2>2. QED BY <1>1, <1>2, <1>4, <1>6, <2>1, IdleAssumption DEF Tids
  <1>7. QED BY <1>5, <1>6

(* What a sched_switch does to the data, with its alternatives resolved.   *)
LEMMA SwitchEffect ==
    ASSUME IInv, NEW c \in Cpus, NEW next \in Tids, NEW preempt \in BOOLEAN,
           NEW state \in States, sched_switch(c, next, preempt, state)
    PROVE  /\ running[c] \notin DOMAIN SLEEP_SINCE
           /\ next # Idle => place[next] = "ready"
           /\ next \in DOMAIN SLEEP_SINCE <=> next # Idle /\ inD[next] /\ next \notin unseen
           /\ next \in DOMAIN SLEEP_SINCE => now - SLEEP_SINCE[next] = off[next]
  <1>1. running[c] \in Tids
    BY DEF IInv, TypeOK
  <1>2. running[c] # Idle => place[running[c]] = "cpu"
    BY DEF IInv, RunningIsPlaced
  <1>3. DOMAIN SLEEP_SINCE \subseteq Threads
    BY DEF IInv, TypeOK
  <1>4. running[c] \notin DOMAIN SLEEP_SINCE
    BY <1>1, <1>2, <1>3, IdleAssumption DEF IInv, StampsAreSleepers
  <1>5. next # Idle => place[next] = "ready"
    BY DEF sched_switch
  <1>6. next \in DOMAIN SLEEP_SINCE <=> next # Idle /\ inD[next] /\ next \notin unseen
    BY <1>3, IdleAssumption DEF IInv, SleepersAreStamped, Tids
  <1>7. next \in DOMAIN SLEEP_SINCE => now - SLEEP_SINCE[next] = off[next]
    BY DEF IInv, StampsAreSleepers
  <1>8. QED BY <1>4, <1>5, <1>6, <1>7

(* The counters at a switch: the wait that ends is added to its slot, and  *)
(* the rest stays or leaves with an evicted entry.                         *)
LEMMA SwitchBills ==
    ASSUME IInv, NEW c \in Cpus, NEW next \in Tids, NEW preempt \in BOOLEAN,
           NEW state \in States, sched_switch(c, next, preempt, state)
    PROVE  /\ DOMAIN IOWAIT_NS' \subseteq Procs
           /\ IOWAIT_NS' \in [DOMAIN IOWAIT_NS' -> Slots]
           /\ gone' \in [Procs -> Slots]
           /\ \A p \in Procs, k \in Cpus :
                /\ gone'[p][k] >= gone[p][k]
                /\ Counted(p, k)' + gone'[p][k]
                     = Counted(p, k) + gone[p][k]
                       + IF next \in DOMAIN SLEEP_SINCE /\ p = TgidOf(next) /\ k = c
                         THEN off[next] ELSE 0
  <1> DEFINE billed == next \in DOMAIN SLEEP_SINCE
  <1>1. /\ TypeOK /\ DOMAIN IOWAIT_NS \subseteq Procs
        /\ IOWAIT_NS \in [DOMAIN IOWAIT_NS -> Slots]
        /\ running[c] \in Tids /\ off \in [Threads -> Nat]
    BY DEF IInv, TypeOK
  <1>2. billed => next \in Threads /\ off[next] \in Nat /\ TgidOf(next) \in Procs
    BY <1>1, TgidType, IdleAssumption DEF TypeOK
  <1>3. PICK seen : wake_in(sleep_out(SLEEP_SINCE, seen, running[c]), TgidOf(next), next, c)
    BY DEF sched_switch
  <1>4. next # running[c]
    BY DEF sched_switch
  <1>5. IF billed THEN IOWAIT_NS' \in Charged(IOWAIT_NS, TgidOf(next), c, off[next])
        ELSE IOWAIT_NS' = IOWAIT_NS
    BY <1>1, <1>3, <1>4, SwitchEffect, StampTable
  <1>6. /\ DOMAIN IOWAIT_NS' \subseteq Procs
        /\ IOWAIT_NS' \in [DOMAIN IOWAIT_NS' -> Slots]
        /\ \A p \in Procs, k \in Cpus :
             Held(IOWAIT_NS', p, k) + Left(IOWAIT_NS, IOWAIT_NS', p, k)
               = Held(IOWAIT_NS, p, k)
                 + IF billed /\ p = TgidOf(next) /\ k = c THEN off[next] ELSE 0
    <2>1. CASE billed
      <3>1. AddsUp(IOWAIT_NS, IOWAIT_NS', TgidOf(next), c, off[next])
        BY <2>1, <1>1, <1>2, <1>5, ChargedAddsUp
      <3>2. QED BY <2>1, <3>1, <1>1, <1>2 DEF AddsUp
    <2>2. CASE ~billed
      <3>1. \A p \in Procs, k \in Cpus :
              Held(IOWAIT_NS, p, k) \in Nat /\ Left(IOWAIT_NS, IOWAIT_NS', p, k) = 0
        BY <2>2, <1>1, <1>5 DEF Held, Left, Slots
      <3>2. QED BY <2>2, <3>1, <1>1, <1>5
    <2>3. QED BY <2>1, <2>2
  <1>7. \A p \in Procs, k \in Cpus :
          /\ Held(IOWAIT_NS, p, k) \in Nat /\ Held(IOWAIT_NS', p, k) \in Nat
          /\ Left(IOWAIT_NS, IOWAIT_NS', p, k) \in Nat /\ gone[p][k] \in Nat
          /\ Counted(p, k) = Held(IOWAIT_NS, p, k) /\ Counted(p, k)' = Held(IOWAIT_NS', p, k)
    BY <1>1, <1>6 DEF TypeOK, Slots, Held, Left, Counted
  <1>8. gone' = [p \in Procs |-> [k \in Cpus |->
                   gone[p][k] + Left(IOWAIT_NS, IOWAIT_NS', p, k)]]
    BY DEF sched_switch, RecordDepartures
  <1>9. gone' \in [Procs -> Slots]
    BY <1>7, <1>8 DEF Slots
  <1>10. ASSUME NEW p \in Procs, NEW k \in Cpus
         PROVE  /\ gone'[p][k] >= gone[p][k]
                /\ Counted(p, k)' + gone'[p][k]
                     = Counted(p, k) + gone[p][k]
                       + IF billed /\ p = TgidOf(next) /\ k = c THEN off[next] ELSE 0
    <2>1. gone'[p][k] = gone[p][k] + Left(IOWAIT_NS, IOWAIT_NS', p, k)
      BY <1>8
    <2>2. Held(IOWAIT_NS', p, k) + Left(IOWAIT_NS, IOWAIT_NS', p, k)
            = Held(IOWAIT_NS, p, k)
              + IF billed /\ p = TgidOf(next) /\ k = c THEN off[next] ELSE 0
      BY <1>6
    <2>3. CASE billed
      BY <2>1, <2>2, <2>3, <1>2, <1>7
    <2>4. CASE ~billed
      BY <2>1, <2>2, <2>4, <1>7
    <2>5. QED BY <2>3, <2>4
  <1>11. QED BY <1>6, <1>9, <1>10

(* What the switch adds to the waits that happened and to those missed.    *)
LEMMA SwitchWaits ==
    ASSUME IInv, NEW c \in Cpus, NEW next \in Tids, NEW preempt \in BOOLEAN,
           NEW state \in States, sched_switch(c, next, preempt, state)
    PROVE  /\ waited' \in [Procs -> Slots] /\ missed' \in [Procs -> Slots]
           /\ \A p \in Procs, k \in Cpus :
                /\ waited'[p][k] = waited[p][k]
                     + IF next # Idle /\ inD[next] /\ p = TgidOf(next) /\ k = c
                       THEN off[next] ELSE 0
                /\ missed'[p][k] = missed[p][k]
                     + IF next # Idle /\ inD[next] /\ p = TgidOf(next) /\ k = c /\ next \in unseen
                       THEN off[next] ELSE 0
  <1>1. /\ waited \in [Procs -> Slots] /\ missed \in [Procs -> Slots]
        /\ next # Idle => off[next] \in Nat
    BY DEF IInv, TypeOK, Tids
  <1>2. /\ waited' = [p \in Procs |-> [k \in Cpus |-> waited[p][k]
                + IF next # Idle /\ inD[next] /\ p = TgidOf(next) /\ k = c
                  THEN off[next] ELSE 0]]
        /\ missed' = [p \in Procs |-> [k \in Cpus |-> missed[p][k]
                + IF (next # Idle /\ inD[next] /\ p = TgidOf(next) /\ k = c) /\ next \in unseen
                  THEN off[next] ELSE 0]]
    BY DEF sched_switch
  <1>3. \A p \in Procs, k \in Cpus : waited[p][k] \in Nat /\ missed[p][k] \in Nat
    BY <1>1 DEF Slots
  <1>4. waited' \in [Procs -> Slots]
    BY <1>1, <1>2, <1>3 DEF Slots
  <1>5. missed' \in [Procs -> Slots]
    BY <1>1, <1>2, <1>3 DEF Slots
  <1>6. QED BY <1>2, <1>4, <1>5

LEMMA SwitchIInv ==
    ASSUME IInv, NEW c \in Cpus, NEW next \in Tids, NEW preempt \in BOOLEAN,
           NEW state \in States, sched_switch(c, next, preempt, state)
    PROVE  IInv'
  <1> DEFINE prev == running[c]
             leaves == prev # Idle /\ ~preempt /\ state # "R"
  <1>1. /\ TypeOK /\ RunningIsPlaced /\ SleepersAreStamped /\ StampsAreSleepers
        /\ WaitsAreBilled /\ prev \in Tids /\ DOMAIN SLEEP_SINCE \subseteq Threads
    BY DEF IInv, TypeOK
  <1>2. /\ prev \notin DOMAIN SLEEP_SINCE /\ prev # next
        /\ next # Idle => place[next] = "ready"
        /\ prev = Idle => state = "R"
    <2>1. prev # next /\ (prev = Idle => state = "R")
      BY DEF sched_switch
    <2>2. QED BY <2>1, SwitchEffect
  <1>3. PICK seen \in SeenStates(state, leaves) :
           /\ wake_in(sleep_out(SLEEP_SINCE, seen, prev), TgidOf(next), next, c)
           /\ unseen' = IF state = "D" /\ (seen # "D" \/ ~HasRoom(SLEEP_SINCE))
                        THEN (unseen \ {next}) \cup {prev} ELSE unseen \ {prev, next}
    BY DEF sched_switch
  <1>4. seen = "D" => state = "D"
    BY DEF SeenStates
  <1>5. /\ \A t \in Threads : t \in DOMAIN SLEEP_SINCE' <=>
              \/ t \in DOMAIN SLEEP_SINCE /\ t # next
              \/ t = prev /\ seen = "D" /\ HasRoom(SLEEP_SINCE)
        /\ DOMAIN SLEEP_SINCE' \subseteq Threads
        /\ \A t \in DOMAIN SLEEP_SINCE' :
              SLEEP_SINCE'[t] = IF t = prev THEN now ELSE SLEEP_SINCE[t]
        /\ SLEEP_SINCE' \in [DOMAIN SLEEP_SINCE' -> Nat]
    BY <1>1, <1>2, <1>3, StampTable
  <1>6. /\ running' = [running EXCEPT ![c] = next]
        /\ place' = [t \in Threads |->
              IF t = next THEN "cpu"
              ELSE IF t # prev THEN place[t]
              ELSE IF state = "dead" THEN "absent"
              ELSE IF leaves THEN "blocked" ELSE "ready"]
        /\ inD' = [t \in Threads |-> IF t = prev THEN state = "D" ELSE inD[t] /\ t # next]
        /\ off' = [t \in Threads |-> IF t \in {prev, next} THEN 0 ELSE off[t]]
        /\ blocked' = IF leaves /\ state = "D" THEN blocked \cup {TgidOf(prev)} ELSE blocked
        /\ now' = now /\ exiting' = exiting
    BY DEF sched_switch
  <1>7. TypeOK'
    <2>1. place' \in [Threads -> {"absent", "ready", "cpu", "blocked"}]
      BY <1>1, <1>6 DEF TypeOK
    <2>2. inD' \in [Threads -> BOOLEAN]
      BY <1>1, <1>6, ZenonT(30) DEF TypeOK
    <2>3. off' \in [Threads -> Nat]
      BY <1>1, <1>6 DEF TypeOK
    <2>4. unseen' \subseteq Threads
      BY <1>1, <1>2, <1>3 DEF TypeOK, Tids
    <2>5. blocked' \subseteq Procs
      BY <1>1, <1>6, TgidType DEF TypeOK
    <2>6. running' \in [Cpus -> Tids]
      BY <1>1, <1>6 DEF TypeOK
    <2>7. QED BY <1>1, <1>5, <1>6, <2>1, <2>2, <2>3, <2>4, <2>5, <2>6,
                 SwitchBills, SwitchWaits DEF TypeOK
  <1>8. RunningIsPlaced'
    BY <1>1, <1>2, <1>6 DEF RunningIsPlaced, TypeOK, Tids
  <1>9. ASSUME NEW t \in Threads
        PROVE  /\ inD'[t] => place'[t] \in {"ready", "blocked"}
               /\ t \in DOMAIN SLEEP_SINCE' <=> inD'[t] /\ t \notin unseen'
    <2>1. inD'[t] <=> IF t = prev THEN state = "D" ELSE inD[t] /\ t # next
      BY <1>6
    <2>2. /\ inD[t] => place[t] \in {"ready", "blocked"}
          /\ t \in DOMAIN SLEEP_SINCE <=> inD[t] /\ t \notin unseen
      BY <1>1 DEF SleepersAreStamped
    <2>3. inD'[t] => place'[t] \in {"ready", "blocked"}
      BY <1>2, <1>6, <2>1, <2>2
    <2>4. CASE t = prev
      BY <1>2, <1>3, <1>4, <1>5, <2>1, <2>3, <2>4
    <2>5. CASE t # prev
      BY <1>3, <1>5, <2>1, <2>2, <2>3, <2>5
    <2>6. QED BY <2>4, <2>5
  <1>10. SleepersAreStamped'
    BY <1>9 DEF SleepersAreStamped
  <1>11. StampsAreSleepers'
    <2> SUFFICES ASSUME NEW t \in DOMAIN SLEEP_SINCE'
                 PROVE  /\ place'[t] \in {"ready", "blocked"}
                        /\ inD'[t]
                        /\ now' - SLEEP_SINCE'[t] = off'[t]
      BY DEF StampsAreSleepers
    <2>1. t \in Threads
      BY <1>5
    <2>2. inD'[t] /\ place'[t] \in {"ready", "blocked"}
      BY <1>9, <2>1
    <2>3. now' - SLEEP_SINCE'[t] = off'[t]
      <3>1. CASE t = prev
        BY <1>1, <1>5, <1>6, <2>1, <3>1 DEF TypeOK
      <3>2. CASE t # prev
        BY <1>1, <1>5, <1>6, <2>1, <3>2 DEF StampsAreSleepers
      <3>3. QED BY <3>1, <3>2
    <2>4. QED BY <2>2, <2>3
  <1>12. WaitsAreBilled'
    <2> SUFFICES ASSUME NEW p \in Procs, NEW k \in Cpus
                 PROVE  waited'[p][k] = Counted(p, k)' + gone'[p][k] + missed'[p][k]
      BY DEF WaitsAreBilled
    <2>1. waited[p][k] = Counted(p, k) + gone[p][k] + missed[p][k]
      BY <1>1 DEF WaitsAreBilled
    <2>2. /\ Counted(p, k) \in Nat /\ gone[p][k] \in Nat /\ missed[p][k] \in Nat
          /\ Counted(p, k)' \in Nat /\ gone'[p][k] \in Nat /\ missed'[p][k] \in Nat
          /\ waited[p][k] \in Nat /\ waited'[p][k] \in Nat
      BY <1>1, <1>7 DEF TypeOK, Slots, Counted, Held
    <2>3. next # Idle => off[next] \in Nat
      BY <1>1 DEF TypeOK, Tids
    <2>4. next \in DOMAIN SLEEP_SINCE <=> next # Idle /\ inD[next] /\ next \notin unseen
      BY SwitchEffect
    <2>5. Counted(p, k)' + gone'[p][k] = Counted(p, k) + gone[p][k]
             + IF next \in DOMAIN SLEEP_SINCE /\ p = TgidOf(next) /\ k = c THEN off[next] ELSE 0
      BY SwitchBills
    <2>6. /\ waited'[p][k] = waited[p][k]
               + IF next # Idle /\ inD[next] /\ p = TgidOf(next) /\ k = c THEN off[next] ELSE 0
          /\ missed'[p][k] = missed[p][k]
               + IF next # Idle /\ inD[next] /\ p = TgidOf(next) /\ k = c /\ next \in unseen
                 THEN off[next] ELSE 0
      BY SwitchWaits
    <2>7. CASE next # Idle /\ inD[next] /\ p = TgidOf(next) /\ k = c
      BY <2>1, <2>2, <2>3, <2>4, <2>5, <2>6, <2>7
    <2>8. CASE ~(next # Idle /\ inD[next] /\ p = TgidOf(next) /\ k = c)
      BY <2>1, <2>2, <2>4, <2>5, <2>6, <2>8
    <2>9. QED BY <2>7, <2>8
  <1>13. QED BY <1>7, <1>8, <1>10, <1>11, <1>12 DEF IInv

-----------------------------------------------------------------------------
(* The exit hook: the thread is on a CPU, so it had no stamp to forget; a  *)
(* thread that exited earlier under this tid left none either.             *)
LEMMA ExitIInv ==
    ASSUME IInv, NEW t \in Threads, sched_process_exit(t)
    PROVE  IInv'
  <1>1. /\ place[t] = "cpu" /\ SLEEP_SINCE' = Without(SLEEP_SINCE, t)
        /\ exiting' = [exiting EXCEPT ![t] = TRUE]
        /\ UNCHANGED <<now, running, place, IOWAIT_NS, inD, unseen, off, waited, missed,
                       blocked, gone>>
    BY DEF sched_process_exit, history
  <1>2. TypeOK /\ t \notin DOMAIN SLEEP_SINCE
    BY <1>1 DEF IInv, StampsAreSleepers
  <1>3. SLEEP_SINCE' = SLEEP_SINCE
    BY <1>1, <1>2 DEF Without, TypeOK
  <1>4. TypeOK'
    BY <1>1, <1>2, <1>3 DEF TypeOK
  <1>5. RunningIsPlaced' /\ SleepersAreStamped' /\ StampsAreSleepers'
    BY <1>1, <1>3 DEF IInv, RunningIsPlaced, SleepersAreStamped, StampsAreSleepers
  <1>6. QED BY <1>1, <1>4, <1>5, SameBills DEF IInv

LEMMA WakeIInv ==
    ASSUME IInv, NEW t \in Threads, Wake(t)
    PROVE  IInv'
  <1>1. /\ place[t] = "blocked" /\ place' = [place EXCEPT ![t] = "ready"]
        /\ UNCHANGED <<now, running, exiting, SLEEP_SINCE, IOWAIT_NS, inD, unseen, off,
                       waited, missed, blocked, gone>>
    BY DEF Wake, maps, history
  <1>2. TypeOK /\ TypeOK'
    BY <1>1 DEF IInv, TypeOK
  <1>3. RunningIsPlaced' /\ SleepersAreStamped' /\ StampsAreSleepers'
    BY <1>1, <1>2 DEF IInv, TypeOK, RunningIsPlaced, SleepersAreStamped, StampsAreSleepers
  <1>4. QED BY <1>1, <1>2, <1>3, SameBills DEF IInv

(* A recycled tid starts without a stamp, as its last thread left none.    *)
LEMMA ForkIInv ==
    ASSUME IInv, NEW t \in Threads, Fork(t)
    PROVE  IInv'
  <1>1. /\ place[t] = "absent" /\ place' = [place EXCEPT ![t] = "ready"]
        /\ exiting' = [exiting EXCEPT ![t] = FALSE]
        /\ inD' = [inD EXCEPT ![t] = FALSE] /\ off' = [off EXCEPT ![t] = 0]
        /\ unseen' = unseen \ {t}
        /\ UNCHANGED <<now, running, SLEEP_SINCE, IOWAIT_NS, waited, missed, blocked, gone>>
    BY DEF Fork, maps
  <1>2. TypeOK /\ t \notin DOMAIN SLEEP_SINCE
    BY <1>1 DEF IInv, StampsAreSleepers
  <1>3. TypeOK'
    BY <1>1, <1>2 DEF TypeOK
  <1>4. RunningIsPlaced'
    BY <1>1, <1>2 DEF IInv, TypeOK, RunningIsPlaced
  <1>5. SleepersAreStamped' /\ StampsAreSleepers'
    <2>1. \A u \in Threads : u # t =>
             (inD'[u] <=> inD[u]) /\ place'[u] = place[u] /\ off'[u] = off[u]
      BY <1>1, <1>2 DEF TypeOK
    <2>2. ~inD'[t]
      BY <1>1, <1>2 DEF TypeOK
    <2>3. SleepersAreStamped'
      BY <1>1, <1>2, <2>1, <2>2 DEF IInv, SleepersAreStamped
    <2>4. \A u \in DOMAIN SLEEP_SINCE : u \in Threads /\ u # t
      BY <1>2 DEF TypeOK
    <2>5. StampsAreSleepers'
      BY <1>1, <2>1, <2>4 DEF IInv, StampsAreSleepers
    <2>6. QED BY <2>3, <2>5
  <1>6. QED BY <1>1, <1>3, <1>4, <1>5, SameBills DEF IInv

LEMMA TickIInv == IInv /\ Tick => IInv'
  <1> SUFFICES ASSUME IInv, Tick PROVE IInv'
    OBVIOUS
  <1>1. /\ now' = now + 1
        /\ off' = [t \in Threads |-> IF inD[t] THEN off[t] + 1 ELSE 0]
        /\ UNCHANGED <<running, place, exiting, SLEEP_SINCE, IOWAIT_NS, inD, unseen,
                       waited, missed, blocked, gone>>
    BY DEF Tick, maps
  <1>2. TypeOK /\ TypeOK'
    BY <1>1 DEF IInv, TypeOK
  <1>3. RunningIsPlaced' /\ SleepersAreStamped'
    BY <1>1 DEF IInv, RunningIsPlaced, SleepersAreStamped
  <1>4. StampsAreSleepers'
    <2> SUFFICES ASSUME NEW t \in DOMAIN SLEEP_SINCE
                 PROVE  /\ place[t] \in {"ready", "blocked"} /\ inD[t]
                        /\ now' - SLEEP_SINCE[t] = off'[t]
      BY <1>1 DEF StampsAreSleepers
    <2>1. /\ place[t] \in {"ready", "blocked"} /\ inD[t]
          /\ now - SLEEP_SINCE[t] = off[t]
      BY DEF IInv, StampsAreSleepers
    <2>2. t \in Threads /\ now \in Nat /\ SLEEP_SINCE[t] \in Nat
      BY <1>2 DEF TypeOK
    <2>3. off'[t] = off[t] + 1
      BY <1>1, <2>1, <2>2
    <2>4. QED BY <1>1, <2>1, <2>2, <2>3
  <1>5. QED BY <1>1, <1>2, <1>3, <1>4, SameBills DEF IInv

(* The reaper: what leaves the map is recorded as gone.                    *)
LEMMA DeleteBills ==
    ASSUME IInv, NEW p \in Procs, DeleteEntry(p)
    PROVE  /\ DOMAIN IOWAIT_NS' \subseteq Procs
           /\ IOWAIT_NS' \in [DOMAIN IOWAIT_NS' -> Slots]
           /\ gone' \in [Procs -> Slots]
           /\ \A q \in Procs, k \in Cpus :
                /\ gone'[q][k] >= gone[q][k]
                /\ Counted(q, k)' + gone'[q][k] = Counted(q, k) + gone[q][k]
  <1>1. /\ DOMAIN IOWAIT_NS \subseteq Procs /\ IOWAIT_NS \in [DOMAIN IOWAIT_NS -> Slots]
        /\ \A q \in Procs, k \in Cpus : gone[q][k] \in Nat
    BY DEF IInv, TypeOK, Slots
  <1>2. /\ IOWAIT_NS' = Without(IOWAIT_NS, p)
        /\ gone' = [q \in Procs |-> [k \in Cpus |->
                      gone[q][k] + Left(IOWAIT_NS, IOWAIT_NS', q, k)]]
    BY DEF DeleteEntry, RecordDepartures
  <1>3. /\ DOMAIN IOWAIT_NS' = DOMAIN IOWAIT_NS \ {p}
        /\ \A q \in DOMAIN IOWAIT_NS' : IOWAIT_NS'[q] = IOWAIT_NS[q]
        /\ IOWAIT_NS' \in [DOMAIN IOWAIT_NS' -> Slots]
    BY <1>1, <1>2 DEF Without
  <1>4. ASSUME NEW q \in Procs, NEW k \in Cpus
        PROVE  /\ Left(IOWAIT_NS, IOWAIT_NS', q, k) \in Nat
               /\ Counted(q, k) \in Nat
               /\ Counted(q, k)' + Left(IOWAIT_NS, IOWAIT_NS', q, k) = Counted(q, k)
    <2>1. q \in DOMAIN IOWAIT_NS => IOWAIT_NS[q][k] \in Nat
      BY <1>1 DEF Slots
    <2>2. CASE q = p
      BY <1>3, <2>1, <2>2 DEF Left, Counted, Held
    <2>3. CASE q # p
      BY <1>3, <2>1, <2>3 DEF Left, Counted, Held
    <2>4. QED BY <2>2, <2>3
  <1>5. gone' \in [Procs -> Slots]
    BY <1>1, <1>2, <1>4 DEF Slots
  <1>6. ASSUME NEW q \in Procs, NEW k \in Cpus
        PROVE  /\ gone'[q][k] >= gone[q][k]
               /\ Counted(q, k)' + gone'[q][k] = Counted(q, k) + gone[q][k]
    <2>1. gone'[q][k] = gone[q][k] + Left(IOWAIT_NS, IOWAIT_NS', q, k)
      BY <1>2
    <2>2. Counted(q, k)' \in Nat
      BY <1>1, <1>3 DEF Counted, Held, Slots
    <2>3. QED BY <1>1, <1>4, <2>1, <2>2
  <1>7. QED BY <1>1, <1>3, <1>5, <1>6

LEMMA DeleteIInv ==
    ASSUME IInv, NEW p \in Procs, DeleteEntry(p)
    PROVE  IInv'
  <1>1. UNCHANGED <<now, running, place, exiting, SLEEP_SINCE, inD, unseen, off,
                    waited, missed, blocked>>
    BY DEF DeleteEntry, env
  <1>2. TypeOK'
    BY <1>1, DeleteBills DEF IInv, TypeOK
  <1>3. RunningIsPlaced' /\ SleepersAreStamped' /\ StampsAreSleepers'
    BY <1>1 DEF IInv, RunningIsPlaced, SleepersAreStamped, StampsAreSleepers
  <1>4. WaitsAreBilled'
    <2> SUFFICES ASSUME NEW q \in Procs, NEW k \in Cpus
                 PROVE  waited'[q][k] = Counted(q, k)' + gone'[q][k] + missed'[q][k]
      BY DEF WaitsAreBilled
    <2>1. waited[q][k] = Counted(q, k) + gone[q][k] + missed[q][k]
      BY DEF IInv, WaitsAreBilled
    <2>2. Counted(q, k)' + gone'[q][k] = Counted(q, k) + gone[q][k]
      BY DeleteBills
    <2>3. QED BY <1>1, <2>1, <2>2
  <1>5. QED BY <1>2, <1>3, <1>4 DEF IInv

LEMMA StepIInv == IInv /\ [Next]_vars => IInv'
  <1> SUFFICES ASSUME IInv, [Next]_vars PROVE IInv'
    OBVIOUS
  <1>1. CASE Tick
    BY <1>1, TickIInv
  <1>2. ASSUME NEW c \in Cpus, NEW next \in Tids, NEW preempt \in BOOLEAN,
               NEW state \in States, sched_switch(c, next, preempt, state)
        PROVE  IInv'
    BY <1>2, SwitchIInv
  <1>3. ASSUME NEW t \in Threads, sched_process_exit(t) \/ Wake(t) \/ Fork(t)
        PROVE  IInv'
    BY <1>3, ExitIInv, WakeIInv, ForkIInv
  <1>4. ASSUME NEW p \in Procs, DeleteEntry(p)
        PROVE  IInv'
    BY <1>4, DeleteIInv
  <1>5. CASE UNCHANGED vars
    <2>1. UNCHANGED <<now, running, place, exiting, SLEEP_SINCE, IOWAIT_NS, inD, unseen,
                      off, waited, missed, blocked, gone>>
      BY <1>5 DEF vars, env, maps, history
    <2>2. TypeOK' /\ RunningIsPlaced' /\ SleepersAreStamped' /\ StampsAreSleepers'
      BY <2>1 DEF IInv, TypeOK, RunningIsPlaced, SleepersAreStamped, StampsAreSleepers
    <2>3. QED BY <2>1, <2>2, SameBills DEF IInv
  <1>6. QED BY <1>1, <1>2, <1>3, <1>4, <1>5 DEF Next

(* What the hooks keep (SLEEP_SINCE, IOWAIT_NS) and what the kernel does   *)
(* stay well typed; in particular only threads are ever stamped and only   *)
(* processes ever billed, never idle.                                      *)
THEOREM TypeCorrect == Spec => []TypeOK
  <1>1. IInv => TypeOK
    BY DEF IInv
  <1>2. QED BY <1>1, InitIInv, StepIInv, PTL DEF Spec

(* iowait.rs:20-22, for any schedule: a stamp lives from a D switch-out to *)
(* the next switch-in of that thread and is the time it left; no running,  *)
(* dead or new thread under a recycled tid ever has one.                   *)
THEOREM StampsCorrect == Spec => []StampsAreSleepers
  <1>1. IInv => StampsAreSleepers
    BY DEF IInv
  <1>2. QED BY <1>1, InitIInv, StepIInv, PTL DEF Spec

(* Every completed wait is billed once and in full to its process, but for *)
(* those that no stamp could be taken for (sleep_out, wake_in).            *)
THEOREM BillsCorrect == Spec => []WaitsAreBilled
  <1>1. IInv => WaitsAreBilled
    BY DEF IInv
  <1>2. QED BY <1>1, InitIInv, StepIInv, PTL DEF Spec

-----------------------------------------------------------------------------
(* A step that completes waits, and bills at most those, advances the      *)
(* meter.                                                                  *)
LEMMA AdvanceStep ==
    ASSUME IInv, IInv',
           \A p \in Procs, c \in Cpus :
              /\ waited'[p][c] >= waited[p][c]
              /\ gone'[p][c] >= gone[p][c]
              /\ Counted(p, c)' + gone'[p][c] >= Counted(p, c) + gone[p][c]
    PROVE  M!Advance
  <1> DEFINE cnt == [k \in SlotKeys |-> Counted(k[1], k[2])]
             out == [k \in SlotKeys |-> gone[k[1]][k[2]]]
             use == [k \in SlotKeys |-> waited[k[1]][k[2]]]
  <1>1. ASSUME NEW p \in Procs, NEW c \in Cpus
        PROVE  /\ Counted(p, c)' \in Nat /\ gone'[p][c] \in Nat
               /\ waited'[p][c] \in Nat
               /\ Counted(p, c)' + gone'[p][c] <= waited'[p][c]
    <2>1. /\ Counted(p, c)' \in Nat /\ gone'[p][c] \in Nat
          /\ missed'[p][c] \in Nat /\ waited'[p][c] \in Nat
      BY DEF IInv, TypeOK, Slots, Counted, Held
    <2>2. waited'[p][c] = Counted(p, c)' + gone'[p][c] + missed'[p][c]
      BY DEF IInv, WaitsAreBilled
    <2>3. QED BY <2>1, <2>2
  <1>2. /\ cnt' \in [SlotKeys -> Nat] /\ out' \in [SlotKeys -> Nat]
        /\ use' \in [SlotKeys -> Nat]
    BY <1>1 DEF SlotKeys
  <1>3. ASSUME NEW k \in SlotKeys
        PROVE  /\ use'[k] >= use[k]
               /\ out'[k] >= out[k]
               /\ cnt'[k] + out'[k] >= cnt[k] + out[k]
               /\ cnt'[k] + out'[k] <= use'[k]
    <2>1. k[1] \in Procs /\ k[2] \in Cpus
      BY DEF SlotKeys
    <2>2. /\ cnt[k] = Counted(k[1], k[2]) /\ out[k] = gone[k[1]][k[2]]
          /\ use[k] = waited[k[1]][k[2]] /\ use'[k] = waited'[k[1]][k[2]]
          /\ cnt'[k] = Counted(k[1], k[2])' /\ out'[k] = gone'[k[1]][k[2]]
      OBVIOUS
    <2>3. QED BY <2>1, <2>2, <1>1
  <1>4. QED BY <1>2, <1>3 DEF M!Advance

(* I/O-wait accounting keeps the promise of the abstract meter, whatever   *)
(* stamps are refused, states overwritten, entries evicted or deleted.     *)
THEOREM MeterRefinement == Spec => ImplementsMeter
  <1>1. Init => M!Init
    BY DEF Init, M!Init, NoTime, SlotKeys, Counted, Held
  <1>2. IInv /\ IInv' /\ [Next]_vars => [M!Advance]_M!vars
    <2> SUFFICES ASSUME IInv, IInv', [Next]_vars
                 PROVE  [M!Advance]_M!vars
      OBVIOUS
    <2>1. ASSUME NEW p \in Procs, NEW c \in Cpus
          PROVE  /\ waited[p][c] \in Nat /\ gone[p][c] \in Nat /\ Counted(p, c) \in Nat
      BY DEF IInv, TypeOK, Slots, Counted, Held
    <2>2. ASSUME NEW c \in Cpus, NEW next \in Tids, NEW preempt \in BOOLEAN,
                 NEW state \in States, sched_switch(c, next, preempt, state)
          PROVE  M!Advance
      <3>1. next # Idle => off[next] \in Nat
        BY DEF IInv, TypeOK, Tids
      <3>2. next \in DOMAIN SLEEP_SINCE => next # Idle
        BY <2>2, SwitchEffect
      <3>3. ASSUME NEW p \in Procs, NEW k \in Cpus
            PROVE  /\ waited'[p][k] >= waited[p][k]
                   /\ gone'[p][k] >= gone[p][k]
                   /\ Counted(p, k)' + gone'[p][k] >= Counted(p, k) + gone[p][k]
        <4>1. waited'[p][k] >= waited[p][k]
          BY <2>1, <2>2, <3>1, SwitchWaits
        <4>2. gone'[p][k] >= gone[p][k]
          BY <2>2, SwitchBills
        <4>3. Counted(p, k)' + gone'[p][k] = Counted(p, k) + gone[p][k]
                + IF next \in DOMAIN SLEEP_SINCE /\ p = TgidOf(next) /\ k = c
                  THEN off[next] ELSE 0
          BY <2>2, SwitchBills
        <4>4. QED BY <2>1, <3>1, <3>2, <4>1, <4>2, <4>3
      <3>4. QED BY <3>3, AdvanceStep
    <2>3. ASSUME NEW q \in Procs, DeleteEntry(q)
          PROVE  M!Advance
      <3>1. waited' = waited
        BY <2>3 DEF DeleteEntry
      <3>2. ASSUME NEW p \in Procs, NEW k \in Cpus
            PROVE  /\ waited'[p][k] >= waited[p][k]
                   /\ gone'[p][k] >= gone[p][k]
                   /\ Counted(p, k)' + gone'[p][k] >= Counted(p, k) + gone[p][k]
        <4>1. /\ gone'[p][k] >= gone[p][k]
              /\ Counted(p, k)' + gone'[p][k] = Counted(p, k) + gone[p][k]
          BY <2>3, DeleteBills
        <4>2. QED BY <2>1, <3>1, <4>1
      <3>3. QED BY <3>2, AdvanceStep
    <2>4. ASSUME UNCHANGED <<IOWAIT_NS, waited, gone>>
          PROVE  UNCHANGED M!vars
      BY <2>4 DEF M!vars, Counted, Held
    <2>5. CASE Tick
      BY <2>4, <2>5 DEF Tick, maps
    <2>6. ASSUME NEW t \in Threads, sched_process_exit(t) \/ Wake(t) \/ Fork(t)
          PROVE  UNCHANGED M!vars
      BY <2>4, <2>6 DEF sched_process_exit, Wake, Fork, maps, history
    <2>7. CASE UNCHANGED vars
      BY <2>4, <2>7 DEF vars, maps, history
    <2>8. QED BY <2>2, <2>3, <2>5, <2>6, <2>7 DEF Next
  <1>3. QED BY <1>1, <1>2, InitIInv, StepIInv, PTL DEF Spec, ImplementsMeter, M!Spec
=============================================================================
