------------------------ MODULE InflightReadProofs ------------------------
(***************************************************************************)
(* The order in which the hook stores and the read loads, and what their   *)
(* race can add to a process: its slices under way during the read, or     *)
(* nothing.  Proved for any number of CPUs, processes, switches and time.  *)
(***************************************************************************)
EXTENDS InflightRead, FiniteSetTheorems, WellFoundedInduction, TLAPS

Stamped(c) == reader = "clock" \/ (reader = "starts" /\ c \notin todo)
Loaded(c) == reader \in {"starts", "clock"} \/ (reader = "tgids" /\ c \notin todo)

(* Stamps only grow, a slot's tgid is never newer than its stamp, and so   *)
(* neither is one that was read before the stamp is.                       *)
Order(c) ==
    /\ START_TIME[c] <= now
    /\ hook[c].at # "off" => hook[c].time <= now /\ tenure[c] <= hook[c].time
    /\ hook[c].at \in {"charge", "start"} => START_TIME[c] <= hook[c].time
    /\ hook[c].at = "current" /\ hook[c].next # Idle => START_TIME[c] >= hook[c].time
    /\ tenure[c] <= now
    /\ CURRENT_TGID[c] # Idle => START_TIME[c] >= tenure[c]
    /\ Loaded(c) /\ tgids[c] # Idle => START_TIME[c] >= tenureRead[c]
    /\ Stamped(c) /\ tgids[c] # Idle => starts[c] >= tenureRead[c]

Ordered == TypeOK /\ \A c \in Cpus : Order(c)

-----------------------------------------------------------------------------
LEMMA InitOrdered == Init => Ordered
  <1> SUFFICES ASSUME Init PROVE Ordered
    OBVIOUS
  <1> USE DEF Init
  <1>1. NoHook \in Hooks /\ NoHook.at = "off" /\ Idle \in Tgids
    BY DEF NoHook, Hooks, Tgids, Stages
  <1>2. Zero \in [Procs -> Nat] /\ ZeroCpu \in [Cpus -> Nat] /\ ZeroCpu \in [Cpus -> 0..MaxSwitches]
    BY BoundsAssumption DEF Zero, ZeroCpu
  <1>3. TypeOK
    <2>1. hook \in [Cpus -> Hooks] /\ CURRENT_TGID \in [Cpus -> Tgids]
          /\ tgids \in [Cpus -> Tgids] /\ owner \in [Cpus -> Tgids]
      BY <1>1
    <2>2. now \in 1..MaxClock /\ START_TIME \in [Cpus -> Nat] /\ stuck \subseteq Cpus /\ todo \subseteq Procs \cup Cpus
      BY BoundsAssumption
    <2>3. QED
      BY <1>2, <2>1, <2>2 DEF TypeOK
  <1>4. ASSUME NEW c \in Cpus PROVE Order(c)
    <2>1. hook[c].at = "off" /\ tenure[c] = 0 /\ START_TIME[c] \in {0, 1} /\ CURRENT_TGID[c] = Idle
      BY <1>1 DEF ZeroCpu
    <2>2. now = 1 /\ reader = "idle"
      OBVIOUS
    <2>3. QED
      BY <2>1, <2>2 DEF Order, Loaded, Stamped
  <1>5. QED
    BY <1>3, <1>4 DEF Ordered

(* The types, a kind of step at a time. *)
LEMMA TickType == Ordered /\ Tick => TypeOK'
  <1> SUFFICES ASSUME Ordered, Tick PROVE TypeOK'
    OBVIOUS
  <1>1. \A p \in Procs : Cardinality({c \in Cpus : owner[c] = p}) \in Nat
    <2> SUFFICES ASSUME NEW p \in Procs PROVE Cardinality({c \in Cpus : owner[c] = p}) \in Nat
      OBVIOUS
    <2>1. {c \in Cpus : owner[c] = p} \in SUBSET Cpus
      OBVIOUS
    <2>2. QED BY <2>1, CpusAssumption, FS_Subset, FS_CardinalityType
  <1>2. ran' \in [Procs -> Nat] /\ now' \in 1..MaxClock
    BY <1>1, BoundsAssumption DEF Tick, Ordered, TypeOK
  <1>3. QED BY <1>2 DEF Tick, Ordered, TypeOK, maps, reading, race

LEMMA HookType == ASSUME Ordered, NEW c \in Cpus, Hook(c) PROVE TypeOK'
  <1> USE DEF Ordered, TypeOK, maps, reading, race
  <1>1. hook[c] \in Hooks /\ hook[c].time \in Nat /\ hook[c].prev \in Tgids /\ hook[c].next \in Tgids
    BY DEF Hooks
  <1>2. ASSUME NEW next \in Tgids, EnterHook(c, next) PROVE TypeOK'
    <2>1. [at |-> "charge", time |-> now, prev |-> owner[c], next |-> next] \in Hooks
      BY BoundsAssumption DEF Hooks, Stages
    <2>2. hook' \in [Cpus -> Hooks]
      BY <1>2, <2>1 DEF EnterHook
    <2>3. owner' \in [Cpus -> Tgids] /\ switches' \in [Cpus -> 0..MaxSwitches]
      BY <1>2, BoundsAssumption DEF EnterHook
    <2>4. QED BY <1>2, <2>2, <2>3 DEF EnterHook
  <1>3. CASE charge_out(c)
    <2>1. [hook[c] EXCEPT !.at = "start"] \in Hooks
      BY <1>1 DEF Hooks, Stages
    <2>2. hook' \in [Cpus -> Hooks]
      BY <1>3, <2>1 DEF charge_out
    <2>3. CPU_NS' \in [Procs -> Nat]
      <3>1. START_TIME[c] <= hook[c].time
        BY <1>3 DEF charge_out, Order
      <3>2. hook[c].prev # Idle => CPU_NS[hook[c].prev] + hook[c].time - START_TIME[c] \in Nat
        BY <1>1, <3>1 DEF Tgids
      <3>3. QED BY <1>1, <1>3, <3>2 DEF charge_out
    <2>4. QED BY <1>3, <2>2, <2>3 DEF charge_out
  <1>4. CASE mark_in_start(c)
    <2>1. [hook[c] EXCEPT !.at = "current"] \in Hooks
      BY <1>1 DEF Hooks, Stages
    <2>2. hook' \in [Cpus -> Hooks] /\ START_TIME' \in [Cpus -> Nat] /\ stuck' \subseteq Cpus
      BY <1>1, <1>4, <2>1 DEF mark_in_start
    <2>3. QED BY <1>4, <2>2 DEF mark_in_start
  <1>5. CASE mark_in_current(c)
    <2>1. NoHook \in Hooks
      BY DEF NoHook, Hooks, Stages, Tgids
    <2>2. /\ hook' \in [Cpus -> Hooks] /\ CURRENT_TGID' \in [Cpus -> Tgids]
          /\ tenure' \in [Cpus -> Nat] /\ stuck' \subseteq Cpus
      BY <1>1, <1>5, <2>1 DEF mark_in_current
    <2>3. QED BY <1>5, <2>2 DEF mark_in_current
  <1>6. QED BY <1>2, <1>3, <1>4, <1>5 DEF Hook

LEMMA BillsInNat ==
    ASSUME Ordered, NEW p \in Procs
    PROVE  Bills(p) \in Nat
  <1> DEFINE mine == {c \in Cpus : tgids[c] = p}
             bills == {b \in mine \X (1..MaxClock) : b[2] <= Bill(b[1])}
  <1>1. IsFiniteSet(mine)
    <2>1. mine \in SUBSET Cpus
      OBVIOUS
    <2>2. QED BY <2>1, CpusAssumption, FS_Subset
  <1>2. IsFiniteSet(1..MaxClock)
    BY BoundsAssumption, FS_Interval
  <1>3. IsFiniteSet(mine \X (1..MaxClock))
    BY <1>1, <1>2, FS_Product
  <1>4. bills \in SUBSET (mine \X (1..MaxClock))
    OBVIOUS
  <1>5. Cardinality(bills) \in Nat
    BY <1>3, <1>4, FS_Subset, FS_CardinalityType
  <1>6. QED BY <1>5 DEF Bills

(* A set of natural numbers that is not empty has a least one. *)
LEMMA Least ==
    ASSUME NEW S, S \subseteq Nat, S # {}
    PROVE  \E t \in S : \A u \in S : t <= u
  <1>1. \E t \in S : \A u \in S : ~(<<u, t>> \in OpToRel(<, Nat))
    BY NatLessThanWellFounded, WFMin
  <1>2. PICK t \in S : \A u \in S : ~(<<u, t>> \in OpToRel(<, Nat))
    BY <1>1
  <1>3. ASSUME NEW u \in S
        PROVE  t <= u
    <2>1. <<u, t>> \notin {ss \in Nat \X Nat : ss[1] < ss[2]}
      BY <1>2 DEF OpToRel
    <2>2. ~(u < t)
      BY <2>1
    <2>3. QED BY <2>2
  <1>4. QED
    BY <1>3

(* A read that begins counts from now, or from the sample of the earliest  *)
(* hook under way.                                                         *)
LEMMA Began ==
    ASSUME Ordered, BeginRead
    PROVE  /\ began' \in Nat /\ began' <= now
           /\ \A c \in Cpus : hook[c].at # "off" => began' <= hook[c].time
  <1> DEFINE opened == {now} \cup {hook[c].time : c \in {k \in Cpus : hook[k].at # "off"}}
  <1>1. opened \subseteq 0..now /\ now \in opened
    <2>1. ASSUME NEW c \in Cpus, hook[c].at # "off"
          PROVE  hook[c].time \in 0..now
      BY <2>1 DEF Ordered, TypeOK, Order, Hooks
    <2>2. now \in 0..now
      BY BoundsAssumption DEF Ordered, TypeOK
    <2>3. QED BY <2>1, <2>2
  <1>2. \A c \in Cpus : hook[c].at # "off" => hook[c].time \in opened
    OBVIOUS
  <1>3. began' = CHOOSE t \in 0..now : t \in opened /\ \A u \in opened : t <= u
    BY DEF BeginRead
  <1> HIDE DEF opened
  <1>4. \E t \in opened : \A u \in opened : t <= u
    <2>1. opened \subseteq Nat /\ opened # {}
      BY <1>1
    <2>2. QED BY <2>1, Least
  <1>5. \E t \in 0..now : t \in opened /\ \A u \in opened : t <= u
    BY <1>1, <1>4
  <1>6. began' \in 0..now /\ \A u \in opened : began' <= u
    BY <1>3, <1>5
  <1>7. QED BY <1>2, <1>6

LEMMA ReadType == Ordered /\ Read => TypeOK'
  <1> SUFFICES ASSUME Ordered, Read PROVE TypeOK'
    OBVIOUS
  <1> USE DEF Ordered, TypeOK, maps, reading, race
  <1>1. CASE BeginRead
    <2>1. began' \in Nat
      BY <1>1, Began
    <2>2. QED BY <1>1, <2>1 DEF BeginRead
  <1>2. ASSUME NEW p \in Procs, ReadCounter(p) PROVE TypeOK'
    BY <1>2 DEF ReadCounter
  <1>3. ASSUME NEW c \in Cpus, ReadTgid(c) PROVE TypeOK'
    BY <1>3 DEF ReadTgid
  <1>4. ASSUME NEW c \in Cpus, ReadStart(c) PROVE TypeOK'
    BY <1>4 DEF ReadStart
  <1>5. CASE ReadClock
    <2>1. \A p \in Procs : counters[p] + Bills(p) \in Nat
      BY BillsInNat
    <2>2. QED BY <1>5, <2>1 DEF ReadClock
  <1>6. QED BY <1>1, <1>2, <1>3, <1>4, <1>5 DEF Read

LEMMA NextType == Ordered /\ [Next]_vars => TypeOK'
  <1>1. Ordered /\ UNCHANGED vars => TypeOK'
    BY DEF vars, maps, reading, race, Ordered, TypeOK
  <1>2. QED BY <1>1, TickType, HookType, ReadType DEF Next

-----------------------------------------------------------------------------
LEMMA HookOrder == ASSUME Ordered, NEW c \in Cpus, NEW k \in Cpus, Hook(k) PROVE Order(c)'
  <1> USE DEF Ordered, TypeOK, Order, maps, reading, race, Loaded, Stamped
  <1>1. /\ hook[k].time \in Nat /\ START_TIME[c] \in Nat /\ now \in Nat /\ tenure[c] \in Nat
        /\ tenureRead[c] \in Nat /\ starts[c] \in Nat /\ hook[c].time \in Nat
    BY BoundsAssumption DEF Hooks
  <1>2. ASSUME NEW next \in Tgids, EnterHook(k, next) PROVE Order(c)'
    BY <1>1, <1>2 DEF EnterHook
  <1>3. CASE charge_out(k)
    BY <1>1, <1>3 DEF charge_out
  <1>4. CASE mark_in_start(k)
    BY <1>1, <1>4 DEF mark_in_start
  <1>5. CASE mark_in_current(k)
    BY <1>1, <1>5 DEF mark_in_current, NoHook
  <1>6. QED BY <1>2, <1>3, <1>4, <1>5 DEF Hook

LEMMA ReadOrder == ASSUME Ordered, NEW c \in Cpus, Read PROVE Order(c)'
  <1> USE DEF Ordered, TypeOK, Order, maps, reading, race, Loaded, Stamped
  <1>1. CASE BeginRead
    BY <1>1 DEF BeginRead
  <1>2. ASSUME NEW p \in Procs, ReadCounter(p) PROVE Order(c)'
    BY <1>2 DEF ReadCounter
  <1>3. ASSUME NEW k \in Cpus, ReadTgid(k) PROVE Order(c)'
    BY <1>3 DEF ReadTgid
  <1>4. ASSUME NEW k \in Cpus, ReadStart(k) PROVE Order(c)'
    BY <1>4 DEF ReadStart
  <1>5. CASE ReadClock
    BY <1>5 DEF ReadClock
  <1>6. QED BY <1>1, <1>2, <1>3, <1>4, <1>5 DEF Read

LEMMA NextOrdered == Ordered /\ [Next]_vars => Ordered'
  <1> SUFFICES ASSUME Ordered, [Next]_vars PROVE Ordered'
    OBVIOUS
  <1>1. ASSUME NEW c \in Cpus PROVE Order(c)'
    <2>1. CASE Tick
      <3>1. now \in Nat /\ START_TIME[c] \in Nat /\ hook[c].time \in Nat /\ tenure[c] \in Nat
        BY BoundsAssumption DEF Ordered, TypeOK, Hooks
      <3>2. QED
        BY <2>1, <3>1 DEF Tick, Ordered, Order, Loaded, Stamped, maps, reading
    <2>2. CASE UNCHANGED vars
      BY <2>2 DEF vars, maps, reading, Ordered, Order, Loaded, Stamped
    <2>3. QED
      BY <2>1, <2>2, HookOrder, ReadOrder DEF Next
  <1>2. QED
    BY <1>1, NextType DEF Ordered

LEMMA OrderedHolds == Spec => []Ordered
  BY InitOrdered, NextOrdered, PTL DEF Spec

(* Every variable stays within its type: no bill is ever negative.         *)
THEOREM TypeCorrect == Spec => []TypeOK
  <1>1. Ordered => TypeOK
    BY DEF Ordered
  <1>2. QED
    BY <1>1, OrderedHolds, PTL

(* As the hook stores the stamp before the tgid and the read loads them in *)
(* the other order, no process is billed from a stamp that is older than   *)
(* the switch that brought it in.                                          *)
THEOREM StampsAreFresh == Spec => []IncomingNeverStale
  <1>1. Ordered => IncomingNeverStale
    BY DEF Ordered, Order, Stamped, IncomingNeverStale
  <1>2. QED
    BY <1>1, OrderedHolds, PTL

-----------------------------------------------------------------------------
(* The accounts.  Time is counted in units <<c, t>>, the t-th of CPU c, so *)
(* that the sums over CPUs of ran and Bills are sizes of sets of units.    *)
CpuTimes == Cpus \X (1..MaxClock)

(* The last switch the hook of c has sampled. *)
Since(c) == IF hook[c].at = "off" THEN START_TIME[c] ELSE hook[c].time

(* Unit t of c was p's and is not billed: it is of the slice under way, or *)
(* of the slice a hook is about to bill.                                   *)
Unbilled(p, c, t) ==
    \/ owner[c] = p /\ Since(c) < t /\ t <= now
    \/ /\ hook[c].at = "charge" /\ hook[c].prev = p
       /\ START_TIME[c] < t /\ t <= hook[c].time

Units(p) == {b \in CpuTimes : Unbilled(p, b[1], b[2])}

(* What the slots of c say of the process the hook is at. *)
Slots(c) ==
    /\ hook[c].at = "off" => /\ owner[c] = CURRENT_TGID[c]
                             /\ owner[c] # Idle => START_TIME[c] > 0
    /\ hook[c].at # "off" => /\ CURRENT_TGID[c] = hook[c].prev
                             /\ owner[c] = hook[c].next
                             /\ hook[c].prev # hook[c].next
                             /\ hook[c].time > 0
    /\ hook[c].at = "charge" /\ hook[c].prev # Idle => START_TIME[c] > 0
    /\ hook[c].at = "current" /\ hook[c].next # Idle => START_TIME[c] = hook[c].time

(* A bill is exactly what the process has used and no slice still holds.   *)
Accounted ==
    /\ Ordered
    /\ \A c \in Cpus : Slots(c)
    /\ \A p \in Procs : ran[p] = CPU_NS[p] + Cardinality(Units(p))

(* What the read in progress has of c's slots, or would read there now.    *)
Slot(c) == IF Loaded(c) THEN tgids[c] ELSE CURRENT_TGID[c]
Stamp(c) == IF Stamped(c) THEN starts[c] ELSE START_TIME[c]

(* Time from before the read that it would still add to p's counter: a CPU *)
(* whose hook had billed its slice when the counter was read is left out   *)
(* while its tgid is not read.                                             *)
Owing(p, c, t) ==
    /\ Slot(c) = p
    /\ c \in stuck => Loaded(c)
    /\ Stamp(c) < t /\ t <= began

Owed(p) == {b \in CpuTimes : Owing(p, b[1], b[2])}

HasCounter(p) == reader \in {"tgids", "starts", "clock"} \/ (reader = "counters" /\ p \notin todo)

(* Every hook under way samples its time after the read, or what it        *)
(* overlaps, began; so what the read owes from before it only shrinks.     *)
Bounded ==
    /\ Accounted
    /\ reader # "idle" =>
         began <= now /\ \A c \in Cpus : hook[c].at # "off" => began <= hook[c].time
    /\ ~doubled => \A p \in Procs :
         HasCounter(p) => counters[p] + Cardinality(Owed(p)) <= ran[p]

(* Without a hook, what was read is what is there. *)
Quiet ==
    reader # "idle" /\ quiet =>
      /\ \A c \in Cpus : /\ hook[c].at = "off"
                         /\ Loaded(c) => tgids[c] = CURRENT_TGID[c]
                         /\ Stamped(c) => starts[c] = START_TIME[c]
      /\ \A p \in Procs : HasCounter(p) => counters[p] = CPU_NS[p]

-----------------------------------------------------------------------------
(* Sets of units are finite, and a slice of one CPU has as many as it is   *)
(* long.                                                                   *)
LEMMA CpuTimesFinite ==
    ASSUME NEW S \in SUBSET CpuTimes
    PROVE  IsFiniteSet(S) /\ Cardinality(S) \in Nat
  <1>1. IsFiniteSet(1..MaxClock)
    BY BoundsAssumption, FS_Interval
  <1>2. IsFiniteSet(CpuTimes)
    BY <1>1, CpusAssumption, FS_Product DEF CpuTimes
  <1>3. QED BY <1>2, FS_Subset, FS_CardinalityType

LEMMA Slice ==
    ASSUME NEW c, NEW a \in Nat, NEW b \in Nat, a <= b
    PROVE  Cardinality({c} \X ((a + 1)..b)) = b - a
  <1>1. IsFiniteSet((a + 1)..b) /\ Cardinality((a + 1)..b) = b - a
    <2>1. a + 1 \in Int /\ b \in Int
      OBVIOUS
    <2>2. Cardinality((a + 1)..b) = IF a + 1 > b THEN 0 ELSE b - (a + 1) + 1
      BY <2>1, FS_Interval
    <2>3. IsFiniteSet((a + 1)..b)
      BY <2>1, FS_Interval
    <2>4. Cardinality((a + 1)..b) = b - a
      BY <2>2
    <2>5. QED BY <2>3, <2>4
  <1>2. IsFiniteSet({c}) /\ Cardinality({c}) = 1
    BY FS_Singleton
  <1>3. Cardinality({c} \X ((a + 1)..b)) = 1 * (b - a)
    BY <1>1, <1>2, FS_Product
  <1>4. QED BY <1>3

(* The types of one CPU's part of the state. *)
LEMMA CpuType ==
    ASSUME TypeOK, NEW c \in Cpus
    PROVE  /\ now \in Nat /\ START_TIME[c] \in Nat /\ hook[c].time \in Nat
           /\ hook[c].prev \in Tgids /\ hook[c].next \in Tgids /\ hook[c] \in Hooks
           /\ starts[c] \in Nat
  BY BoundsAssumption DEF TypeOK, Hooks

LEMMA InitAccounted == Init => Accounted
  <1> SUFFICES ASSUME Init PROVE Accounted
    OBVIOUS
  <1>1. \A c \in Cpus : hook[c].at = "off" /\ owner[c] = Idle /\ CURRENT_TGID[c] = Idle
    BY DEF Init, NoHook
  <1>2. ASSUME NEW p \in Procs PROVE ran[p] = CPU_NS[p] + Cardinality(Units(p))
    <2>1. Units(p) = {}
      BY <1>1, IdleAssumption DEF Units, Unbilled, CpuTimes
    <2>2. ran[p] = 0 /\ CPU_NS[p] = 0
      BY DEF Init, Zero
    <2>3. QED BY <2>1, <2>2, FS_EmptySet
  <1>3. QED BY <1>1, <1>2, InitOrdered DEF Accounted, Slots

(* The tick adds a unit for each CPU, to the process that has it.          *)
LEMMA TickAccounted == Accounted /\ Tick => Accounted'
  <1> SUFFICES ASSUME Accounted, Tick PROVE Accounted'
    OBVIOUS
  <1>1. Ordered /\ Ordered' /\ TypeOK
    BY NextOrdered DEF Accounted, Ordered, Next
  <1>2. now' = now + 1 /\ now < MaxClock /\ UNCHANGED <<CPU_NS, START_TIME, CURRENT_TGID, hook, owner>>
    BY DEF Tick, maps
  <1>3. \A c \in Cpus : Slots(c)'
    BY <1>2 DEF Accounted, Slots
  <1>4. ASSUME NEW p \in Procs PROVE ran'[p] = CPU_NS'[p] + Cardinality(Units(p)')
    <2> DEFINE mine == {c \in Cpus : owner[c] = p}
               new == mine \X {now + 1}
    <2>1. ASSUME NEW c \in Cpus, NEW t \in 1..MaxClock
          PROVE  /\ Unbilled(p, c, t)' <=> Unbilled(p, c, t) \/ (owner[c] = p /\ t = now + 1)
                 /\ t = now + 1 => ~Unbilled(p, c, t)
      <3>1. Order(c)
        BY <1>1 DEF Ordered
      <3>2. QED BY <1>1, <1>2, <3>1, CpuType DEF Unbilled, Since, Order
    <2>2. now + 1 \in 1..MaxClock
      BY <1>1, <1>2, BoundsAssumption DEF TypeOK
    <2>3. Units(p)' = Units(p) \cup new
      BY <2>1, <2>2 DEF Units, CpuTimes
    <2>4. Units(p) \cap new = {}
      BY <2>1 DEF Units, CpuTimes
    <2>5. IsFiniteSet(mine)
      <3>1. mine \in SUBSET Cpus
        OBVIOUS
      <3>2. QED BY <3>1, CpusAssumption, FS_Subset
    <2> HIDE DEF mine
    <2>6. IsFiniteSet(new) /\ Cardinality(new) = Cardinality(mine)
      <3>1. IsFiniteSet({now + 1}) /\ Cardinality({now + 1}) = 1
        BY FS_Singleton
      <3>2. IsFiniteSet(new) /\ Cardinality(new) = Cardinality(mine) * 1
        BY <2>5, <3>1, FS_Product
      <3>3. Cardinality(mine) \in Nat
        BY <2>5, FS_CardinalityType
      <3>4. QED BY <3>2, <3>3
    <2> HIDE DEF new
    <2>7. IsFiniteSet(Units(p)) /\ Cardinality(Units(p)) \in Nat
      BY CpuTimesFinite DEF Units
    <2>8. Cardinality(Units(p)') = Cardinality(Units(p)) + Cardinality(mine)
      <3>1. Cardinality(Units(p) \cup new) =
              Cardinality(Units(p)) + Cardinality(new) - Cardinality({})
        BY <2>4, <2>6, <2>7, FS_Union
      <3>2. Cardinality(mine) \in Nat
        BY <2>5, FS_CardinalityType
      <3>3. QED BY <2>3, <2>6, <2>7, <3>1, <3>2, FS_EmptySet
    <2>9. ran'[p] = ran[p] + Cardinality(mine)
      BY DEF Tick, mine
    <2>10. ran[p] = CPU_NS[p] + Cardinality(Units(p)) /\ CPU_NS[p] \in Nat
      BY <1>1 DEF Accounted, TypeOK
    <2>11. Cardinality(mine) \in Nat
      BY <2>5, FS_CardinalityType
    <2>12. QED BY <1>2, <2>7, <2>8, <2>9, <2>10, <2>11
  <1>5. QED BY <1>1, <1>3, <1>4 DEF Accounted

(* A hook splits the slice under way, bills its first part, and has then   *)
(* stamped the second.                                                     *)
LEMMA HookSlots ==
    ASSUME Accounted, NEW k \in Cpus, Hook(k), NEW c \in Cpus
    PROVE  Slots(c)'
  <1>1. TypeOK /\ Slots(c) /\ Order(c)
    BY DEF Accounted, Ordered
  <1>2. /\ now \in Nat /\ now > 0 /\ START_TIME[c] \in Nat /\ hook[c].time \in Nat
        /\ hook \in [Cpus -> Hooks] /\ owner \in [Cpus -> Tgids]
        /\ CURRENT_TGID \in [Cpus -> Tgids] /\ START_TIME \in [Cpus -> Nat]
    BY <1>1, CpuType, BoundsAssumption DEF TypeOK
  <1>3. ASSUME NEW next \in Tgids, EnterHook(k, next) PROVE Slots(c)'
    BY <1>1, <1>2, <1>3 DEF EnterHook, Slots, maps
  <1>4. CASE charge_out(k)
    BY <1>1, <1>2, <1>4 DEF charge_out, Slots, Hooks
  <1>5. CASE mark_in_start(k)
    BY <1>1, <1>2, <1>5 DEF mark_in_start, Slots, Hooks
  <1>6. CASE mark_in_current(k)
    BY <1>1, <1>2, <1>6 DEF mark_in_current, Slots, NoHook, Hooks
  <1>7. QED BY <1>3, <1>4, <1>5, <1>6 DEF Hook

(* A step that moves no unit and neither uses nor bills time.              *)
LEMMA KeepsAccount ==
    ASSUME Accounted, NEW p \in Procs, UNCHANGED <<ran, CPU_NS>>,
           \A c \in Cpus, t \in 1..MaxClock : Unbilled(p, c, t)' <=> Unbilled(p, c, t)
    PROVE  ran'[p] = CPU_NS'[p] + Cardinality(Units(p)')
  <1>1. Units(p)' = Units(p)
    BY DEF Units, CpuTimes
  <1>2. QED BY <1>1 DEF Accounted

LEMMA ChargeAccount ==
    ASSUME Accounted, NEW k \in Cpus, charge_out(k), NEW p \in Procs
    PROVE  ran'[p] = CPU_NS'[p] + Cardinality(Units(p)')
  <1> DEFINE slice == {k} \X ((START_TIME[k] + 1)..hook[k].time)
  <1>1. TypeOK /\ Slots(k) /\ Order(k)
    BY DEF Accounted, Ordered
  <1>2. /\ START_TIME[k] \in Nat /\ hook[k].time \in Nat /\ START_TIME[k] <= hook[k].time
        /\ hook[k].time <= now /\ now \in 1..MaxClock
        /\ hook[k].prev # hook[k].next /\ owner[k] = hook[k].next
        /\ hook[k].prev # Idle => START_TIME[k] > 0
        /\ CPU_NS \in [Procs -> Nat] /\ CPU_NS[p] \in Nat
        /\ hook[k].at = "charge" /\ hook \in [Cpus -> Hooks] /\ p # Idle
    BY <1>1, CpuType, BoundsAssumption, IdleAssumption DEF Slots, Order, TypeOK, charge_out
  <1>3. /\ UNCHANGED <<START_TIME, owner, ran, now>>
        /\ hook' = [hook EXCEPT ![k].at = "start"]
        /\ CPU_NS' = IF hook[k].prev = Idle \/ START_TIME[k] = 0 THEN CPU_NS
                     ELSE [CPU_NS EXCEPT ![hook[k].prev] = @ + hook[k].time - START_TIME[k]]
    BY DEF charge_out
  <1>4. /\ hook'[k].at = "start" /\ hook'[k].time = hook[k].time /\ hook'[k].prev = hook[k].prev
        /\ \A c \in Cpus \ {k} : hook'[c] = hook[c]
    BY <1>2, <1>3 DEF Hooks
  <1>5. ASSUME NEW c \in Cpus, NEW t \in 1..MaxClock
        PROVE  Unbilled(p, c, t)' <=>
                  Unbilled(p, c, t) /\ ~(c = k /\ hook[k].prev = p /\ START_TIME[k] < t /\ t <= hook[k].time)
    <2>1. CASE c # k
      BY <1>3, <1>4, <2>1 DEF Unbilled, Since
    <2>2. CASE c = k
      BY <1>2, <1>3, <1>4, <2>2 DEF Unbilled, Since
    <2>3. QED BY <2>1, <2>2
  <1>6. CASE hook[k].prev # p
    <2>1. CPU_NS'[p] = CPU_NS[p]
      BY <1>2, <1>3, <1>6
    <2>2. Units(p)' = Units(p)
      BY <1>5, <1>6 DEF Units, CpuTimes
    <2>3. QED BY <1>3, <2>1, <2>2 DEF Accounted
  <1>7. CASE hook[k].prev = p
    <2>1. CPU_NS'[p] = CPU_NS[p] + hook[k].time - START_TIME[k]
      BY <1>2, <1>3, <1>7
    <2>2. slice \subseteq Units(p)
      <3>1. ASSUME NEW t \in (START_TIME[k] + 1)..hook[k].time
            PROVE  t \in 1..MaxClock /\ Unbilled(p, k, t)
        <4>1. t \in Nat /\ START_TIME[k] < t /\ t <= hook[k].time
          BY <1>2
        <4>2. t \in 1..MaxClock
          BY <1>2, <4>1, BoundsAssumption
        <4>3. QED BY <1>2, <1>7, <4>1, <4>2 DEF Unbilled
      <3>2. QED BY <3>1 DEF Units, CpuTimes
    <2>3. Units(p)' = Units(p) \ slice
      <3>1. ASSUME NEW b \in CpuTimes
            PROVE  Unbilled(p, b[1], b[2])' <=> Unbilled(p, b[1], b[2]) /\ b \notin slice
        <4>1. b[1] \in Cpus /\ b[2] \in 1..MaxClock /\ b = <<b[1], b[2]>>
          BY DEF CpuTimes
        <4>2. b \in slice <=> b[1] = k /\ START_TIME[k] < b[2] /\ b[2] <= hook[k].time
          BY <1>2, <4>1
        <4>3. QED BY <1>5, <1>7, <4>1, <4>2
      <3>2. QED BY <3>1 DEF Units
    <2>4. Cardinality(slice) = hook[k].time - START_TIME[k]
      BY <1>2, Slice
    <2> HIDE DEF slice
    <2>5. IsFiniteSet(Units(p)) /\ Cardinality(Units(p)) \in Nat
      BY CpuTimesFinite DEF Units
    <2>6. Cardinality(Units(p)') = Cardinality(Units(p)) - (hook[k].time - START_TIME[k])
      <3>1. Units(p) \cap slice = slice
        BY <2>2
      <3>2. Cardinality(Units(p) \ slice) = Cardinality(Units(p)) - Cardinality(slice)
        BY <2>5, <3>1, FS_Difference
      <3>3. QED BY <2>3, <2>4, <3>2
    <2>7. ran[p] = CPU_NS[p] + Cardinality(Units(p))
      BY DEF Accounted
    <2>8. QED BY <1>2, <1>3, <2>1, <2>5, <2>6, <2>7
  <1>8. QED BY <1>6, <1>7

LEMMA HookAccounted == ASSUME Accounted, NEW k \in Cpus, Hook(k) PROVE Accounted'
  <1>1. Ordered' /\ TypeOK
    BY NextOrdered DEF Accounted, Ordered, Next
  <1>2. \A c \in Cpus : Slots(c) /\ Order(c)
    BY DEF Accounted, Ordered
  <1>3. /\ now \in 1..MaxClock /\ START_TIME \in [Cpus -> Nat] /\ owner \in [Cpus -> Tgids]
        /\ hook \in [Cpus -> Hooks] /\ CURRENT_TGID \in [Cpus -> Tgids]
    BY <1>1 DEF TypeOK
  <1>4. ASSUME NEW p \in Procs PROVE ran'[p] = CPU_NS'[p] + Cardinality(Units(p)')
    <2>1. ASSUME NEW next \in Tgids, EnterHook(k, next)
          PROVE  ran'[p] = CPU_NS'[p] + Cardinality(Units(p)')
      <3>1. /\ hook' = [hook EXCEPT ![k] =
                  [at |-> "charge", time |-> now, prev |-> owner[k], next |-> next]]
            /\ owner' = [owner EXCEPT ![k] = next]
            /\ UNCHANGED <<now, START_TIME, ran, CPU_NS>> /\ hook[k].at = "off"
            /\ next # owner[k]
        BY <2>1 DEF EnterHook, maps
      <3>2. ASSUME NEW c \in Cpus, NEW t \in 1..MaxClock
            PROVE  Unbilled(p, c, t)' <=> Unbilled(p, c, t)
        BY <1>2, <1>3, <3>1, CpuType DEF Unbilled, Since
      <3>3. QED BY <3>1, <3>2, KeepsAccount
    <2>2. CASE charge_out(k)
      BY <2>2, ChargeAccount
    <2>3. CASE mark_in_start(k)
      <3>1. /\ hook' = [hook EXCEPT ![k].at = "current"] /\ hook[k].at = "start"
            /\ UNCHANGED <<now, owner, ran, CPU_NS>>
            /\ \A c \in Cpus \ {k} : START_TIME'[c] = START_TIME[c]
        BY <1>3, <2>3 DEF mark_in_start
      <3>2. /\ hook'[k].at = "current" /\ hook'[k].time = hook[k].time
            /\ \A c \in Cpus \ {k} : hook'[c] = hook[c]
        BY <1>3, <3>1 DEF Hooks
      <3>3. ASSUME NEW c \in Cpus, NEW t \in 1..MaxClock
            PROVE  Unbilled(p, c, t)' <=> Unbilled(p, c, t)
        BY <3>1, <3>2 DEF Unbilled, Since
      <3>4. QED BY <3>1, <3>3, KeepsAccount
    <2>4. CASE mark_in_current(k)
      <3>1. /\ hook' = [hook EXCEPT ![k] = NoHook] /\ hook[k].at = "current"
            /\ UNCHANGED <<now, owner, ran, CPU_NS, START_TIME>>
        BY <2>4 DEF mark_in_current
      <3>2. owner[k] = p => START_TIME[k] = hook[k].time
        BY <1>2, <3>1, IdleAssumption DEF Slots
      <3>3. ASSUME NEW c \in Cpus, NEW t \in 1..MaxClock
            PROVE  Unbilled(p, c, t)' <=> Unbilled(p, c, t)
        BY <1>3, <3>1, <3>2 DEF Unbilled, Since, NoHook
      <3>4. QED BY <3>1, <3>3, KeepsAccount
    <2>5. QED BY <2>1, <2>2, <2>3, <2>4 DEF Hook
  <1>5. QED BY <1>1, <1>4, HookSlots DEF Accounted

LEMMA NextAccounted == Accounted /\ [Next]_vars => Accounted'
  <1> SUFFICES ASSUME Accounted, [Next]_vars PROVE Accounted'
    OBVIOUS
  <1>1. CASE Read \/ UNCHANGED vars
    <2>1. UNCHANGED <<now, CPU_NS, START_TIME, CURRENT_TGID, hook, owner, ran>>
      BY <1>1 DEF Read, BeginRead, ReadCounter, ReadTgid, ReadStart, ReadClock, vars, maps
    <2>2. ASSUME NEW p \in Procs PROVE ran'[p] = CPU_NS'[p] + Cardinality(Units(p)')
      BY <2>1, KeepsAccount DEF Unbilled, Since
    <2>3. Ordered'
      BY NextOrdered DEF Accounted
    <2>4. QED BY <2>1, <2>2, <2>3 DEF Accounted, Slots
  <1>2. QED BY <1>1, TickAccounted, HookAccounted DEF Next

-----------------------------------------------------------------------------
(* What a read owes from before it began only shrinks.                     *)
LEMMA OwedShrinks ==
    ASSUME Bounded, NEW p \in Procs, HasCounter(p), ~doubled,
           counters'[p] = counters[p], ran'[p] \in Nat, ran[p] <= ran'[p],
           \A c \in Cpus, t \in 1..MaxClock : Owing(p, c, t)' => Owing(p, c, t)
    PROVE  counters'[p] + Cardinality(Owed(p)') <= ran'[p]
  <1>1. Owed(p)' \in SUBSET Owed(p)
    BY DEF Owed, CpuTimes
  <1>2. /\ IsFiniteSet(Owed(p)) /\ Cardinality(Owed(p)) \in Nat
        /\ Owed(p)' \in SUBSET CpuTimes
    <2>1. Owed(p) \in SUBSET CpuTimes
      BY DEF Owed
    <2>2. QED BY <1>1, <2>1, CpuTimesFinite
  <1>3. Cardinality(Owed(p)') <= Cardinality(Owed(p)) /\ Cardinality(Owed(p)') \in Nat
    BY <1>1, <1>2, FS_Subset, CpuTimesFinite
  <1>4. counters[p] \in Nat /\ ran[p] \in Nat /\ counters[p] + Cardinality(Owed(p)) <= ran[p]
    BY DEF Bounded, Accounted, Ordered, TypeOK
  <1>5. QED BY <1>2, <1>3, <1>4

LEMMA InitBounded == Init => Bounded /\ Quiet
  BY InitAccounted DEF Init, Bounded, Quiet, HasCounter

LEMMA TickBounded == Bounded /\ Tick => Bounded'
  <1> SUFFICES ASSUME Bounded, Tick PROVE Bounded'
    OBVIOUS
  <1>1. Accounted' /\ TypeOK /\ TypeOK'
    BY NextAccounted DEF Bounded, Accounted, Ordered, Next
  <1>2. now' = now + 1 /\ UNCHANGED <<maps, hook, reading, owner, tenure, race>>
    BY DEF Tick
  <1>3. reader' # "idle" =>
          began' <= now' /\ \A c \in Cpus : hook'[c].at # "off" => began' <= hook'[c].time
    BY <1>1, <1>2, BoundsAssumption DEF Bounded, TypeOK, reading
  <1>4. ASSUME ~doubled', NEW p \in Procs, HasCounter(p)'
        PROVE  counters'[p] + Cardinality(Owed(p)') <= ran'[p]
    <2>1. HasCounter(p) /\ ~doubled /\ counters' = counters
      BY <1>2, <1>4 DEF HasCounter, reading, race
    <2>2. ran[p] <= ran'[p] /\ ran'[p] \in Nat
      <3> DEFINE mine == {c \in Cpus : owner[c] = p}
      <3>1. mine \in SUBSET Cpus
        OBVIOUS
      <3>2. ran'[p] = ran[p] + Cardinality(mine)
        BY DEF Tick
      <3> HIDE DEF mine
      <3>3. Cardinality(mine) \in Nat
        BY <3>1, CpusAssumption, FS_Subset, FS_CardinalityType
      <3>4. QED BY <1>1, <3>2, <3>3 DEF TypeOK
    <2>3. ASSUME NEW c \in Cpus, NEW t \in 1..MaxClock PROVE Owing(p, c, t)' => Owing(p, c, t)
      BY <1>2 DEF Owing, Slot, Stamp, Loaded, Stamped, reading, race, maps
    <2>4. QED BY <2>1, <2>2, <2>3, OwedShrinks
  <1>5. QED BY <1>1, <1>3, <1>4 DEF Bounded

(* A hook that replaces a slice in the slots replaces it with one that     *)
(* began after the read did.                                               *)
LEMMA HookOwing ==
    ASSUME Bounded, NEW k \in Cpus, Hook(k), NEW p \in Procs, reader # "idle",
           NEW c \in Cpus, NEW t \in 1..MaxClock, Owing(p, c, t)'
    PROVE  Owing(p, c, t)
  <1> USE DEF Slot, Stamp, Loaded, Stamped, reading, maps
  <1>1. /\ TypeOK /\ Slots(k) /\ Order(k) /\ p # Idle
        /\ hook[k].at # "off" => began <= hook[k].time
    BY IdleAssumption DEF Bounded, Accounted, Ordered
  <1>2. /\ began \in Nat /\ START_TIME[k] \in Nat /\ hook[k].time \in Nat /\ starts[k] \in Nat
        /\ START_TIME \in [Cpus -> Nat] /\ CURRENT_TGID \in [Cpus -> Tgids]
    BY <1>1, CpuType DEF TypeOK
  <1>3. CASE \E next \in Tgids : EnterHook(k, next)
    BY <1>3 DEF EnterHook, Owing
  <1>4. CASE charge_out(k)
    BY <1>4 DEF charge_out, Owing
  <1>5. CASE mark_in_start(k)
    <2>1. /\ START_TIME' = IF hook[k].next = Idle THEN START_TIME
                           ELSE [START_TIME EXCEPT ![k] = hook[k].time]
          /\ stuck' = IF hook[k].next = Idle THEN stuck ELSE stuck \ {k}
          /\ hook[k].at = "start"
          /\ UNCHANGED <<reader, todo, tgids, starts, began, CURRENT_TGID>>
      BY <1>5 DEF mark_in_start
    <2>2. CASE c # k \/ hook[k].next = Idle
      BY <1>2, <2>1, <2>2 DEF Owing
    <2>3. CASE c = k /\ hook[k].next # Idle
      <3>1. START_TIME'[k] = hook[k].time /\ hook[k].time >= began
        BY <1>1, <1>2, <2>1, <2>3
      <3>2. CASE Stamped(k)
        BY <2>1, <2>3, <3>2 DEF Owing
      <3>3. CASE ~Stamped(k)
        <4>1. began' = began /\ Stamp(k)' = hook[k].time
          BY <2>1, <3>1, <3>3
        <4>2. hook[k].time < t /\ t <= began
          BY <2>3, <4>1 DEF Owing
        <4>3. FALSE
          BY <1>2, <3>1, <4>2
        <4>4. QED BY <4>3
      <3>4. QED BY <3>2, <3>3
    <2>4. QED BY <2>2, <2>3
  <1>6. CASE mark_in_current(k)
    <2>1. /\ CURRENT_TGID' = [CURRENT_TGID EXCEPT ![k] = hook[k].next]
          /\ stuck' = stuck \ {k} /\ hook[k].at = "current"
          /\ UNCHANGED <<reader, todo, tgids, starts, began, START_TIME>>
      BY <1>6 DEF mark_in_current
    <2>2. CASE c # k \/ Loaded(k)
      BY <1>2, <2>1, <2>2 DEF Owing
    <2>3. CASE c = k /\ ~Loaded(k)
      <3>1. hook[k].next = p
        BY <1>2, <2>1, <2>3 DEF Owing
      <3>2. START_TIME[k] = hook[k].time /\ began <= hook[k].time
        BY <1>1, <2>1, <3>1 DEF Slots
      <3>3. Stamp(k)' = START_TIME[k] /\ began' = began
        BY <2>1, <2>3
      <3>4. START_TIME[k] < t /\ t <= began
        BY <2>3, <3>3 DEF Owing
      <3>5. FALSE
        BY <1>2, <3>2, <3>4
      <3>6. QED BY <3>5
    <2>4. QED BY <2>2, <2>3
  <1>7. QED BY <1>3, <1>4, <1>5, <1>6 DEF Hook

LEMMA HookBounded == ASSUME Bounded, NEW k \in Cpus, Hook(k) PROVE Bounded'
  <1>1. Accounted' /\ TypeOK
    BY NextAccounted DEF Bounded, Accounted, Ordered, Next
  <1>2. UNCHANGED <<now, reading, ran, doubled>>
    BY DEF Hook, EnterHook, charge_out, mark_in_start, mark_in_current, reading
  <1>3. reader' # "idle" =>
          began' <= now' /\ \A c \in Cpus : hook'[c].at # "off" => began' <= hook'[c].time
    <2> SUFFICES ASSUME reader # "idle", NEW c \in Cpus
                 PROVE  began <= now /\ (hook'[c].at # "off" => began <= hook'[c].time)
      BY <1>2 DEF reading
    <2>1. began <= now /\ (hook[c].at # "off" => began <= hook[c].time)
      BY DEF Bounded
    <2>2. hook \in [Cpus -> Hooks]
      BY <1>1 DEF TypeOK
    <2>3. hook'[c].at # "off" => hook'[c].time = now \/ (hook[c].at # "off" /\ hook'[c].time = hook[c].time)
      BY <2>2 DEF Hook, EnterHook, charge_out, mark_in_start, mark_in_current, NoHook, Hooks
    <2>4. QED BY <2>1, <2>3
  <1>4. ASSUME ~doubled', NEW p \in Procs, HasCounter(p)'
        PROVE  counters'[p] + Cardinality(Owed(p)') <= ran'[p]
    <2>1. HasCounter(p) /\ ~doubled /\ counters' = counters /\ reader # "idle"
      BY <1>2, <1>4 DEF HasCounter, reading
    <2>2. ran[p] <= ran'[p] /\ ran'[p] \in Nat
      BY <1>1, <1>2 DEF TypeOK
    <2>3. ASSUME NEW c \in Cpus, NEW t \in 1..MaxClock, Owing(p, c, t)' PROVE Owing(p, c, t)
      BY <2>1, <2>3, HookOwing
    <2>4. QED BY <2>1, <2>2, <2>3, OwedShrinks
  <1>5. QED BY <1>1, <1>3, <1>4 DEF Bounded

(* A counter that is read holds all that was used and that no slot still   *)
(* shows, of the time before the read began.                               *)
LEMMA CounterOwed ==
    ASSUME Bounded, NEW p \in Procs, ReadCounter(p)
    PROVE  counters'[p] + Cardinality(Owed(p)') <= ran'[p]
  <1>1. TypeOK /\ p # Idle
    BY IdleAssumption DEF Bounded, Accounted, Ordered
  <1>2. /\ reader = "counters" /\ reader' \in {"counters", "tgids"}
        /\ reader' = "tgids" => todo' = Cpus
        /\ counters' = [counters EXCEPT ![p] = CPU_NS[p]]
        /\ UNCHANGED <<now, CURRENT_TGID, START_TIME, tgids, starts, hook, ran, began>>
        /\ \A c \in Cpus : hook[c].prev = p
             /\ (hook[c].at = "start" \/ (hook[c].at = "current" /\ hook[c].next = Idle))
             => c \in stuck'
    BY DEF ReadCounter, maps
  <1>3. ASSUME NEW c \in Cpus, NEW t \in 1..MaxClock, Owing(p, c, t)'
        PROVE  Unbilled(p, c, t)
    <2>1. /\ Slots(c) /\ Order(c) /\ began <= now
          /\ hook[c].at # "off" => began <= hook[c].time
      BY <1>2 DEF Bounded, Accounted, Ordered
    <2>2. /\ now \in Nat /\ hook[c].time \in Nat /\ START_TIME[c] \in Nat /\ began \in Nat
          /\ hook[c].at \in Stages
      BY <1>1, CpuType DEF TypeOK, Hooks
    <2>3. ~Loaded(c)' /\ ~Stamped(c)'
      BY <1>2 DEF Loaded, Stamped
    <2>4. CURRENT_TGID[c] = p /\ c \notin stuck' /\ START_TIME[c] < t /\ t <= began
      BY <1>2, <1>3, <2>3 DEF Owing, Slot, Stamp
    <2>5. hook[c].at \in {"off", "charge", "start", "current"}
      BY <2>2 DEF Stages
    <2>6. CASE hook[c].at = "off"
      BY <2>1, <2>2, <2>4, <2>6 DEF Unbilled, Since, Slots
    <2>7. CASE hook[c].at = "charge"
      BY <2>1, <2>2, <2>4, <2>7 DEF Unbilled, Slots
    <2>8. CASE hook[c].at = "start"
      BY <1>2, <2>1, <2>4, <2>8 DEF Slots
    <2>9. CASE hook[c].at = "current"
      <3>1. hook[c].next # Idle
        BY <1>2, <2>1, <2>4, <2>9 DEF Slots
      <3>2. START_TIME[c] = hook[c].time /\ began <= hook[c].time
        BY <2>1, <2>9, <3>1 DEF Slots
      <3>3. QED BY <2>2, <2>4, <3>2
    <2>10. QED BY <2>5, <2>6, <2>7, <2>8, <2>9
  <1>4. Owed(p)' \in SUBSET Units(p)
    BY <1>3 DEF Owed, Units, CpuTimes
  <1>5. /\ IsFiniteSet(Units(p)) /\ Cardinality(Units(p)) \in Nat
        /\ Cardinality(Owed(p)') \in Nat
    BY CpuTimesFinite DEF Units, Owed
  <1>6. Cardinality(Owed(p)') <= Cardinality(Units(p))
    BY <1>4, <1>5, FS_Subset
  <1>7. counters'[p] = CPU_NS[p] /\ CPU_NS[p] \in Nat
        /\ ran'[p] = CPU_NS[p] + Cardinality(Units(p))
    BY <1>1, <1>2 DEF Bounded, Accounted, TypeOK
  <1>8. QED BY <1>5, <1>6, <1>7

LEMMA ReadBounded == Bounded /\ Read => Bounded'
  <1> SUFFICES ASSUME Bounded, Read PROVE Bounded'
    OBVIOUS
  <1>1. Accounted' /\ Ordered /\ TypeOK
    BY NextAccounted DEF Bounded, Accounted, Ordered, Next
  <1>2. UNCHANGED <<now, maps, hook, ran>>
    BY DEF Read, BeginRead, ReadCounter, ReadTgid, ReadStart, ReadClock
  <1>3. reader' # "idle" =>
          began' <= now' /\ \A c \in Cpus : hook'[c].at # "off" => began' <= hook'[c].time
    <2>1. CASE BeginRead
      BY <1>1, <1>2, <2>1, Began
    <2>2. CASE ~BeginRead
      <3>1. began' = began /\ (reader' # "idle" => reader # "idle")
        BY <2>2 DEF Read, ReadCounter, ReadTgid, ReadStart, ReadClock
      <3>2. QED BY <1>2, <3>1 DEF Bounded
    <2>3. QED BY <2>1, <2>2
  <1>4. ASSUME ~doubled', NEW p \in Procs, HasCounter(p)'
        PROVE  counters'[p] + Cardinality(Owed(p)') <= ran'[p]
    <2>1. ran[p] <= ran'[p] /\ ran'[p] \in Nat
      BY <1>1, <1>2 DEF TypeOK
    <2>2. CASE BeginRead \/ ReadClock
      BY <1>4, <2>2 DEF BeginRead, ReadClock, HasCounter
    <2>3. ASSUME NEW q \in Procs, ReadCounter(q)
          PROVE  counters'[p] + Cardinality(Owed(p)') <= ran'[p]
      <3>1. CASE p = q
        BY <2>3, <3>1, CounterOwed
      <3>2. CASE p # q
        <4>1. HasCounter(p) /\ ~doubled /\ counters'[p] = counters[p]
          BY <1>1, <1>4, <2>3, <3>2 DEF HasCounter, ReadCounter, TypeOK
        <4>2. ASSUME NEW c \in Cpus, NEW t \in 1..MaxClock, Owing(p, c, t)' PROVE Owing(p, c, t)
          BY <2>3, <4>2 DEF ReadCounter, Owing, Slot, Stamp, Loaded, Stamped, maps
        <4>3. QED BY <2>1, <4>1, <4>2, OwedShrinks
      <3>3. QED BY <3>1, <3>2
    <2>4. ASSUME NEW k \in Cpus, ReadTgid(k)
          PROVE  counters'[p] + Cardinality(Owed(p)') <= ran'[p]
      <3>1. HasCounter(p) /\ ~doubled /\ counters' = counters /\ k \notin stuck
        BY <1>4, <2>4 DEF HasCounter, ReadTgid
      <3>2. ASSUME NEW c \in Cpus, NEW t \in 1..MaxClock, Owing(p, c, t)' PROVE Owing(p, c, t)
        <4>1. /\ reader = "tgids" /\ k \in todo /\ tgids' = [tgids EXCEPT ![k] = CURRENT_TGID[k]]
              /\ UNCHANGED <<CURRENT_TGID, START_TIME, starts, began, stuck>>
              /\ todo' = IF todo = {k} THEN Cpus ELSE todo \ {k}
              /\ reader' = IF todo = {k} THEN "starts" ELSE reader
          BY <2>4 DEF ReadTgid, maps
        <4>2. tgids \in [Cpus -> Tgids]
          BY <1>1 DEF TypeOK
        <4>3. ~Stamped(c) /\ ~Stamped(c)' /\ Stamp(c)' = Stamp(c)
          BY <4>1 DEF Stamped, Stamp
        <4>4. CASE c = k
          BY <3>1, <3>2, <4>1, <4>2, <4>3, <4>4 DEF Owing, Slot, Loaded
        <4>5. CASE c # k
          BY <3>2, <4>1, <4>2, <4>3, <4>5 DEF Owing, Slot, Loaded
        <4>6. QED BY <4>4, <4>5
      <3>3. QED BY <2>1, <3>1, <3>2, OwedShrinks
    <2>5. ASSUME NEW k \in Cpus, ReadStart(k)
          PROVE  counters'[p] + Cardinality(Owed(p)') <= ran'[p]
      <3>1. HasCounter(p) /\ ~doubled /\ counters' = counters
        BY <1>4, <2>5 DEF HasCounter, ReadStart, race
      <3>2. ASSUME NEW c \in Cpus, NEW t \in 1..MaxClock, Owing(p, c, t)' PROVE Owing(p, c, t)
        <4>1. /\ reader = "starts" /\ k \in todo /\ starts' = [starts EXCEPT ![k] = START_TIME[k]]
              /\ UNCHANGED <<CURRENT_TGID, START_TIME, tgids, began, stuck>>
              /\ todo' = todo \ {k}
              /\ reader' = IF todo = {k} THEN "clock" ELSE reader
          BY <2>5 DEF ReadStart, maps, race
        <4>2. starts \in [Cpus -> Nat]
          BY <1>1 DEF TypeOK
        <4>3. Loaded(c) /\ Loaded(c)' /\ Slot(c)' = Slot(c)
          BY <4>1 DEF Loaded, Slot
        <4>4. Stamp(c)' = Stamp(c)
          BY <4>1, <4>2 DEF Stamp, Stamped
        <4>5. QED BY <3>2, <4>1, <4>3, <4>4 DEF Owing
      <3>3. QED BY <2>1, <3>1, <3>2, OwedShrinks
    <2>6. QED BY <2>2, <2>3, <2>4, <2>5 DEF Read
  <1>5. QED BY <1>1, <1>3, <1>4 DEF Bounded

LEMMA NextBounded == Bounded /\ [Next]_vars => Bounded'
  <1>1. Bounded /\ UNCHANGED vars => Bounded'
    <2> SUFFICES ASSUME Bounded, UNCHANGED vars PROVE Bounded'
      OBVIOUS
    <2>1. Accounted'
      BY NextAccounted DEF Bounded
    <2>2. \A p \in Procs : Owed(p)' = Owed(p) /\ HasCounter(p)' = HasCounter(p)
      BY DEF vars, maps, reading, race, Owed, Owing, Slot, Stamp, Loaded, Stamped, HasCounter
    <2>3. UNCHANGED <<reader, began, now, hook, doubled, counters, ran>>
      BY DEF vars, reading, race
    <2>4. QED BY <2>1, <2>2, <2>3 DEF Bounded
  <1>2. QED BY <1>1, TickBounded, HookBounded, ReadBounded DEF Next

-----------------------------------------------------------------------------
(* The finished read.  The time it adds for p, as a set of units.          *)
Seen(p) == {b \in CpuTimes : /\ tgids[b[1]] = p
                             /\ 0 < starts[b[1]] /\ starts[b[1]] < b[2] /\ b[2] <= now}

LEMMA BillsAreSeen ==
    ASSUME TypeOK, NEW p \in Procs
    PROVE  Bills(p) = Cardinality(Seen(p))
  <1> DEFINE mine == {c \in Cpus : tgids[c] = p}
             bills == {b \in mine \X (1..MaxClock) : b[2] <= Bill(b[1])}
             f == [b \in bills |-> <<b[1], b[2] + starts[b[1]]>>]
  <1>1. now \in 1..MaxClock /\ MaxClock \in Nat /\ p # Idle /\ \A c \in Cpus : starts[c] \in Nat
    BY BoundsAssumption, IdleAssumption DEF TypeOK
  <1>2. ASSUME NEW c \in mine, NEW d \in 1..MaxClock
        PROVE  d <= Bill(c) <=> 0 < starts[c] /\ d + starts[c] <= now
    <2>1. tgids[c] # Idle /\ starts[c] \in Nat
      BY <1>1
    <2>2. QED BY <1>1, <2>1 DEF Bill
  <1>3. \A b \in bills : /\ b[1] \in mine /\ b[2] \in 1..MaxClock /\ b = <<b[1], b[2]>>
                         /\ 0 < starts[b[1]] /\ b[2] + starts[b[1]] <= now
    BY <1>2
  <1>4. \A b \in bills : f[b] \in Seen(p)
    BY <1>1, <1>3 DEF Seen, CpuTimes
  <1>5. \A a, b \in bills : f[a] = f[b] => a = b
    <2> SUFFICES ASSUME NEW a \in bills, NEW b \in bills, f[a] = f[b] PROVE a = b
      OBVIOUS
    <2>1. a[1] = b[1] /\ a[2] + starts[a[1]] = b[2] + starts[b[1]]
      OBVIOUS
    <2>2. a[2] = b[2]
      BY <1>1, <1>3, <2>1
    <2>3. QED BY <1>3, <2>1, <2>2
  <1>6. \A s \in Seen(p) : \E b \in bills : f[b] = s
    <2> SUFFICES ASSUME NEW s \in Seen(p) PROVE \E b \in bills : f[b] = s
      OBVIOUS
    <2>1. /\ s[1] \in mine /\ s[2] \in 1..MaxClock /\ s = <<s[1], s[2]>>
          /\ 0 < starts[s[1]] /\ starts[s[1]] < s[2] /\ s[2] <= now /\ starts[s[1]] \in Nat
      BY <1>1 DEF Seen, CpuTimes
    <2>2. s[2] - starts[s[1]] \in 1..MaxClock /\ s[2] - starts[s[1]] + starts[s[1]] = s[2]
      BY <1>1, <2>1
    <2>3. <<s[1], s[2] - starts[s[1]]>> \in bills
      BY <1>2, <2>1, <2>2
    <2>4. f[<<s[1], s[2] - starts[s[1]]>>] = s
      BY <2>1, <2>2, <2>3
    <2>5. QED BY <2>3, <2>4
  <1>7. f \in [bills -> Seen(p)]
    BY <1>4
  <1>8. Bills(p) = Cardinality(bills)
    BY DEF Bills
  <1>9. IsFiniteSet(Seen(p))
    BY CpuTimesFinite DEF Seen
  <1> HIDE DEF f, bills
  <1>10. f \in Injection(bills, Seen(p)) /\ f \in Surjection(bills, Seen(p))
    BY <1>5, <1>6, <1>7 DEF Injection, IsInjective, Surjection
  <1>11. Cardinality(bills) = Cardinality(Seen(p))
    BY <1>9, <1>10, FS_Injection
  <1>12. QED BY <1>8, <1>11

(* The time per CPU that the read lasted. *)
LEMMA ReadLasted ==
    ASSUME TypeOK, began <= now
    PROVE  /\ IsFiniteSet(Cpus \X ((began + 1)..now))
           /\ Cardinality(Cpus \X ((began + 1)..now)) = Cardinality(Cpus) * (now - began)
  <1>1. began + 1 \in Int /\ now \in Int /\ began \in Nat /\ now \in Nat
    BY BoundsAssumption DEF TypeOK
  <1>2. IsFiniteSet((began + 1)..now)
    BY <1>1, FS_Interval
  <1>3. Cardinality((began + 1)..now) = IF began + 1 > now THEN 0 ELSE now - (began + 1) + 1
    BY <1>1, FS_Interval
  <1>4. Cardinality((began + 1)..now) = now - began
    BY <1>1, <1>3
  <1>5. QED BY <1>2, <1>4, CpusAssumption, FS_Product

(* cpu.rs:58-61, what holds of it: the read of CURRENT_TGID before         *)
(* START_TIME and the order of the hook's stores keep a racing read from   *)
(* showing more than was run by more than the read lasted on each CPU,     *)
(* unless it finds a hook between its bill and its stores twice.           *)
THEOREM OverbillBounded == Spec => OverbillIsBoundedByTheRead
  <1>1. ASSUME Bounded, ReadClock, ~doubled, NEW p \in Procs
        PROVE  WithinTheRead(p)
    <2> DEFINE during == Cpus \X ((began + 1)..now)
    <2>1. TypeOK /\ reader = "clock" /\ began <= now
      BY <1>1 DEF ReadClock, Bounded, Accounted, Ordered
    <2>2. counters[p] + Cardinality(Owed(p)) <= ran[p]
      BY <1>1, <2>1 DEF Bounded, HasCounter
    <2>3. Seen(p) \subseteq Owed(p) \cup during
      <3>1. ASSUME NEW b \in Seen(p), b \notin during PROVE b \in Owed(p)
        <4>1. /\ b[1] \in Cpus /\ b[2] \in 1..MaxClock /\ b = <<b[1], b[2]>> /\ b[2] <= now
              /\ b \in CpuTimes /\ tgids[b[1]] = p /\ starts[b[1]] < b[2]
          BY <3>1 DEF Seen, CpuTimes
        <4>2. began \in Nat /\ now \in Nat
          BY <2>1, BoundsAssumption DEF TypeOK
        <4>3. b[2] <= began
          BY <3>1, <4>1, <4>2
        <4>4. Loaded(b[1]) /\ Stamped(b[1])
          BY <2>1 DEF Loaded, Stamped
        <4>5. QED BY <4>1, <4>3, <4>4 DEF Owed, Owing, Slot, Stamp
      <3>2. QED BY <3>1
    <2>4. /\ IsFiniteSet(Owed(p)) /\ Cardinality(Owed(p)) \in Nat
          /\ IsFiniteSet(Seen(p)) /\ Cardinality(Seen(p)) \in Nat
      BY CpuTimesFinite DEF Owed, Seen
    <2>5. IsFiniteSet(during) /\ Cardinality(during) = Cardinality(Cpus) * (now - began)
      BY <2>1, ReadLasted
    <2> HIDE DEF during
    <2>6. /\ IsFiniteSet(Owed(p) \cup during)
          /\ Cardinality(Owed(p) \cup during) =
               Cardinality(Owed(p)) + Cardinality(during) - Cardinality(Owed(p) \cap during)
      BY <2>4, <2>5, FS_Union
    <2>7. Cardinality(during) \in Nat /\ Cardinality(Owed(p) \cap during) \in Nat
      BY <2>4, <2>5, FS_Intersection, FS_CardinalityType
    <2>8. Cardinality(Owed(p) \cup during) <= Cardinality(Owed(p)) + Cardinality(during)
          /\ Cardinality(Owed(p) \cup during) \in Nat
      <3>1. Cardinality(Owed(p) \cup during) \in Nat
        BY <2>6, FS_CardinalityType
      <3>2. QED BY <2>4, <2>6, <2>7, <3>1
    <2>9. Cardinality(Seen(p)) <= Cardinality(Owed(p) \cup during)
      BY <2>3, <2>6, FS_Subset
    <2>10. snapshot'[p] = counters[p] + Cardinality(Seen(p)) /\ counters[p] \in Nat /\ ran[p] \in Nat
      BY <1>1, <2>1, BillsAreSeen DEF ReadClock, TypeOK
    <2>11. snapshot'[p] <= ran[p] + Cardinality(during)
      BY <2>2, <2>4, <2>7, <2>8, <2>9, <2>10
    <2>12. QED BY <2>5, <2>11 DEF WithinTheRead
  <1>2. ASSUME [Next]_vars, reader = "clock", reader' = "idle"
        PROVE  ReadClock
    BY <1>2 DEF Next, Tick, Hook, EnterHook, charge_out, mark_in_start, mark_in_current, Read,
                BeginRead, ReadCounter, ReadTgid, ReadStart, vars, reading
  <1>3. Bounded /\ [Next]_vars =>
           [reader = "clock" /\ reader' = "idle" /\ ~doubled =>
              \A p \in Procs : WithinTheRead(p)]_vars
    BY <1>1, <1>2
  <1>4. Init => Bounded
    BY InitBounded
  <1>5. QED BY <1>3, <1>4, NextBounded, PTL DEF Spec, OverbillIsBoundedByTheRead

-----------------------------------------------------------------------------
LEMMA NextQuiet == Ordered /\ Quiet /\ [Next]_vars => Quiet'
  <1> SUFFICES ASSUME Ordered, Quiet, [Next]_vars, reader' # "idle", quiet'
               PROVE  Quiet'
    BY DEF Quiet
  <1> USE DEF Quiet, Loaded, Stamped, HasCounter
  <1>1. TypeOK
    BY DEF Ordered
  <1>2. CASE Tick \/ UNCHANGED vars
    BY <1>2 DEF Tick, vars, maps, reading, race
  <1>3. ASSUME NEW c \in Cpus, Hook(c) PROVE Quiet'
    BY <1>3 DEF Hook, EnterHook, charge_out, mark_in_start, mark_in_current
  <1>4. CASE BeginRead
    BY <1>4 DEF BeginRead
  <1>5. ASSUME NEW p \in Procs, ReadCounter(p) PROVE Quiet'
    <2>1. /\ reader = "counters" /\ quiet /\ UNCHANGED <<hook, CPU_NS, CURRENT_TGID, START_TIME>>
          /\ counters' = [counters EXCEPT ![p] = CPU_NS[p]] /\ p \in todo
          /\ todo' = IF todo = {p} THEN Cpus ELSE todo \ {p}
          /\ reader' = IF todo = {p} THEN "tgids" ELSE reader
      BY <1>5 DEF ReadCounter, maps
    <2>2. \A c \in Cpus : hook'[c].at = "off" /\ ~Loaded(c)' /\ ~Stamped(c)'
      BY <2>1
    <2>3. \A q \in Procs : HasCounter(q)' => counters'[q] = CPU_NS'[q]
      <3>1. counters \in [Procs -> Nat]
        BY <1>1 DEF TypeOK
      <3>2. QED BY <2>1, <3>1
    <2>4. QED BY <2>2, <2>3
  <1>6. ASSUME NEW k \in Cpus, ReadTgid(k) PROVE Quiet'
    <2>1. /\ reader = "tgids" /\ quiet
          /\ UNCHANGED <<hook, CPU_NS, CURRENT_TGID, START_TIME, counters>>
          /\ tgids' = [tgids EXCEPT ![k] = CURRENT_TGID[k]] /\ k \in todo
          /\ todo' = IF todo = {k} THEN Cpus ELSE todo \ {k}
          /\ reader' = IF todo = {k} THEN "starts" ELSE reader
      BY <1>6 DEF ReadTgid, maps
    <2>2. tgids \in [Cpus -> Tgids]
      BY <1>1 DEF TypeOK
    <2>3. \A c \in Cpus : hook'[c].at = "off" /\ ~Stamped(c)'
                          /\ (Loaded(c)' => tgids'[c] = CURRENT_TGID'[c])
      BY <2>1, <2>2
    <2>4. QED BY <2>1, <2>3
  <1>7. ASSUME NEW k \in Cpus, ReadStart(k) PROVE Quiet'
    <2>1. /\ reader = "starts" /\ quiet
          /\ UNCHANGED <<hook, CPU_NS, CURRENT_TGID, START_TIME, counters, tgids>>
          /\ starts' = [starts EXCEPT ![k] = START_TIME[k]] /\ k \in todo
          /\ todo' = todo \ {k}
          /\ reader' = IF todo = {k} THEN "clock" ELSE reader
      BY <1>7 DEF ReadStart, maps, race
    <2>2. starts \in [Cpus -> Nat]
      BY <1>1 DEF TypeOK
    <2>3. \A c \in Cpus : hook'[c].at = "off" /\ (Stamped(c)' => starts'[c] = START_TIME'[c])
                          /\ (Loaded(c)' => tgids'[c] = CURRENT_TGID'[c])
      BY <2>1, <2>2
    <2>4. QED BY <2>1, <2>3
  <1>8. CASE ReadClock
    BY <1>8 DEF ReadClock
  <1>9. QED BY <1>2, <1>3, <1>4, <1>5, <1>6, <1>7, <1>8 DEF Next, Read

(* A read that overlaps no hook is exact, on any number of CPUs: every     *)
(* slice under way is added once, to its own process.                      *)
THEOREM QuietReadsExact == Spec => QuietReadIsExact
  <1>1. ASSUME Accounted, Quiet, ReadClock, quiet, NEW p \in Procs
        PROVE  snapshot'[p] = ran[p]
    <2>1. TypeOK /\ reader = "clock" /\ p # Idle
      BY <1>1, IdleAssumption DEF ReadClock, Accounted, Ordered
    <2>2. counters[p] = CPU_NS[p]
      BY <1>1, <2>1 DEF Quiet, HasCounter
    <2>3. ASSUME NEW c \in Cpus
          PROVE  /\ hook[c].at = "off" /\ tgids[c] = owner[c] /\ starts[c] = START_TIME[c]
                 /\ owner[c] # Idle => starts[c] > 0
      BY <1>1, <2>1 DEF Quiet, Loaded, Stamped, Accounted, Slots
    <2>4. Seen(p) = Units(p)
      BY <2>1, <2>3 DEF Seen, Units, CpuTimes, Unbilled, Since
    <2>5. snapshot'[p] = counters[p] + Cardinality(Seen(p))
      BY <1>1, <2>1, BillsAreSeen DEF ReadClock
    <2>6. QED BY <1>1, <2>2, <2>4, <2>5 DEF Accounted
  <1>2. ASSUME [Next]_vars, reader = "clock", reader' = "idle"
        PROVE  ReadClock
    BY <1>2 DEF Next, Tick, Hook, EnterHook, charge_out, mark_in_start, mark_in_current, Read,
                BeginRead, ReadCounter, ReadTgid, ReadStart, vars, reading
  <1>3. Accounted /\ Quiet /\ [Next]_vars =>
           [reader = "clock" /\ reader' = "idle" /\ quiet =>
              \A p \in Procs : snapshot'[p] = ran[p]]_vars
    BY <1>1, <1>2
  <1>4. Init => Accounted /\ Quiet
    BY InitAccounted, InitBounded
  <1>5. Accounted /\ Quiet /\ [Next]_vars => (Accounted /\ Quiet)'
    BY NextAccounted, NextQuiet DEF Accounted
  <1>6. QED BY <1>3, <1>4, <1>5, PTL DEF Spec, QuietReadIsExact
=============================================================================
