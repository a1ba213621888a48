--------------------------- MODULE ConsoleProofs ---------------------------
(***************************************************************************)
(* What the screen shows, that it is true of what was measured, and why    *)
(* the program ends.  Proved for any set of addresses, any contents of the *)
(* snapshots, any filters, page heights and number of ticks.               *)
(***************************************************************************)
EXTENDS Console, FiniteSetTheorems, WellFoundedInduction, TLAPS

(* Types: the published snapshots are as the collector makes them, and the *)
(* one that is shown is one of them.                                       *)
Cpus == {0} \cup {c.cpu : c \in Contents}
Histories == {h \in Seq(Cpus) : Len(h) = HISTORY}
Snapshots ==
    [processes : {c.processes : c \in Contents}, cpu : {c.cpu : c \in Contents},
     at_capacity : {c.at_capacity : c \in Contents},
     used : {memory_used_bytes(memory_total, c.available) : c \in Contents},
     total : {memory_total}, history : Histories]

TInv ==
    /\ TypeOK
    /\ published \in Seq(Snapshots)
    /\ shown.tick <= shared.tick

-----------------------------------------------------------------------------
LEMMA Pushed ==
    ASSUME NEW h \in Histories, NEW v \in Cpus
    PROVE  push_capped(h, v) \in Histories
  BY HistoryAssumption DEF push_capped, Histories

LEMMA Parts ==
    ASSUME NEW s \in Snapshots
    PROVE  s.history \in Histories /\ \E c \in Contents : s.processes = c.processes
  BY DEF Snapshots

LEMMA InitTInv == Init => TInv
  <1>1. (CHOOSE a \in Addresses : TRUE) \in Addresses
    BY AddressesAssumption
  <1>2. ASSUME NEW r, NEW a
        PROVE  resolve(r, a) \in Backgrounds
    BY DEF resolve, Backgrounds
  <1>3. ASSUME Init
        PROVE  screen.tick \in 0..NotDrawn
    <2>1. [View EXCEPT !.tick = NotDrawn].tick = NotDrawn
      BY DEF View
    <2>2. QED
      BY <1>3, <2>1, BoundsAssumption DEF Init, NotDrawn
  <1>4. ASSUME Init
        PROVE  background \in Backgrounds
    BY <1>2, <1>4 DEF Init
  <1>5. ASSUME Init
        PROVE  /\ published \in Seq(Snapshots) /\ Len(published) = 0 /\ DOMAIN published = {}
               /\ shared \in Objects /\ shared.tick = 0
    BY <1>1, <1>5, BoundsAssumption DEF Init, Objects
  <1>6. ASSUME Init
        PROVE  shown = shared /\ last \in Addresses
    BY <1>1, <1>6 DEF Init
  <1>7. ASSUME Init
        PROVE  /\ collector = "alive" /\ running = TRUE /\ asked = FALSE /\ signal = "waiting"
               /\ pc = "check" /\ redraw = TRUE /\ outcome = "none"
               /\ selection = 0 /\ sort = "cpu" /\ descending = TRUE
               /\ filter = 0 /\ editing_filter = FALSE /\ paused = FALSE
               /\ rows = 0 /\ page = 10
    BY <1>7 DEF Init
  <1>8. ASSUME Init
        PROVE  TypeOK
    <2>1. /\ selection \in Nat /\ rows \in Nat /\ page \in Pages \cup {10}
          /\ sort \in Sorts /\ filter \in 0..MaxFilter
      BY <1>7, <1>8, BoundsAssumption DEF Sorts
    <2>2. Len(published) = shared.tick /\ \A n \in DOMAIN published : Len(published[n].history) = HISTORY
      BY <1>5, <1>8
    <2>3. QED
      BY <1>3, <1>4, <1>5, <1>6, <1>7, <1>8, <2>1, <2>2 DEF TypeOK
  <1>9. QED
    BY <1>5, <1>6, <1>8 DEF TInv, Objects

LEMMA PublishTInv == TInv /\ Publish => TInv'
  <1> SUFFICES ASSUME TInv, Publish PROVE TInv'
    OBVIOUS
  <1>1. PICK c \in Contents :
          published' = Append(published,
              [processes |-> c.processes, cpu |-> c.cpu, at_capacity |-> c.at_capacity,
               used |-> memory_used_bytes(memory_total, c.available), total |-> memory_total,
               history |-> push_capped(IF published = <<>> THEN Baseline ELSE Last(published).history, c.cpu)])
    BY DEF Publish
  <1> DEFINE old == IF published = <<>> THEN Baseline ELSE Last(published).history
  <1>2. old \in Histories
    <2>1. Baseline \in Histories
      BY HistoryAssumption DEF Baseline, Histories, Cpus
    <2>2. ASSUME published # <<>>
          PROVE  Last(published).history \in Histories
      <3>1. published \in Seq(Snapshots)
        BY DEF TInv
      <3>2. published[Len(published)] \in Snapshots
        BY <2>2, <3>1
      <3>3. QED BY <3>2, Parts DEF Last
    <2>3. QED BY <2>1, <2>2
  <1>3. push_capped(old, c.cpu) \in Histories
    BY <1>2, Pushed DEF Cpus
  <1> DEFINE made ==
          [processes |-> c.processes, cpu |-> c.cpu, at_capacity |-> c.at_capacity,
           used |-> memory_used_bytes(memory_total, c.available), total |-> memory_total,
           history |-> push_capped(old, c.cpu)]
  <1>4. made \in Snapshots
    BY <1>3 DEF Snapshots
  <1> HIDE DEF old, made
  <1>5. published' = Append(published, made)
    BY <1>1 DEF old, made
  <1>6. /\ published' \in Seq(Snapshots)
        /\ Len(published') = Len(published) + 1
    BY <1>4, <1>5 DEF TInv
  <1>7. \A n \in DOMAIN published' : Len(published'[n].history) = HISTORY
    <2>1. ASSUME NEW n \in DOMAIN published'
          PROVE  Len(published'[n].history) = HISTORY
      <3>1. published'[n] \in Snapshots
        BY <1>6
      <3>2. QED BY <3>1, Parts DEF Histories
    <2>2. QED BY <2>1
  <1>8. shared' \in Objects /\ shared'.tick = shared.tick + 1
    BY BoundsAssumption DEF Publish, TInv, TypeOK, Objects
  <1>9. QED
    BY <1>6, <1>7, <1>8 DEF Publish, TInv, TypeOK, Objects, loop, app

(* The keys move the selection among the naturals. *)
LEMMA KeysTInv ==
    ASSUME TInv, handle_key
    PROVE  /\ selection' \in Nat /\ rows' = rows /\ page' = page
           /\ sort' \in Sorts /\ descending' \in BOOLEAN
           /\ filter' \in 0..MaxFilter /\ editing_filter' \in BOOLEAN /\ paused' \in BOOLEAN
  <1> USE DEF TInv, TypeOK, Select, Sorts
  <1>1. last_row \in Nat /\ page \in Nat
    BY PagesAssumption DEF last_row
  <1>2. CASE EditFilter
    <2>1. filter' \in 0..MaxFilter
      BY <1>2, BoundsAssumption DEF EditFilter
    <2>2. QED BY <1>2, <2>1 DEF EditFilter
  <1>7. CASE UNCHANGED app
    BY <1>7 DEF app
  <1>3. CASE Navigate
    BY <1>1, <1>3 DEF Navigate
  <1>4. CASE SetSort
    BY <1>4 DEF SetSort
  <1>5. CASE StartFilter \/ Pause
    BY <1>5 DEF StartFilter, Pause
  <1>6. QED
    BY <1>2, <1>3, <1>4, <1>5, <1>7 DEF handle_key

LEMMA RowsInNat == TInv => Rows \in Nat
  <1> SUFFICES ASSUME TInv PROVE Rows \in Nat
    OBVIOUS
  <1> DEFINE processes == Snapshot(shown.tick).processes
  <1>1. \E n \in Nat : DOMAIN processes = 1..n
    <2>1. CASE shown.tick = 0
      BY <2>1 DEF Snapshot, NoSnapshot
    <2>2. CASE shown.tick # 0
      <3>1. shown.tick \in DOMAIN published
        BY <2>2 DEF TInv, TypeOK, Objects
      <3>2. published[shown.tick] \in Snapshots
        BY <3>1 DEF TInv
      <3>3. PICK c \in Contents : processes = c.processes
        BY <2>2, <3>2, Parts DEF Snapshot
      <3>4. processes \in Seq(ToSet(processes))
        BY <3>3, ContentsAssumption
      <3>5. QED BY <3>4
    <2>3. QED BY <2>1, <2>2
  <1>2. IsFiniteSet(DOMAIN processes)
    BY <1>1, FS_Interval
  <1>3. kept(processes, filter) \in SUBSET DOMAIN processes
    BY DEF kept
  <1>4. IsFiniteSet(kept(processes, filter))
    BY <1>2, <1>3, FS_Subset
  <1>5. QED
    BY <1>4, FS_CardinalityType DEF Rows

LEMMA NextTInv == TInv /\ [Next]_vars => TInv'
  <1> SUFFICES ASSUME TInv, [Next]_vars PROVE TInv'
    OBVIOUS
  <1>1. CASE Publish
    BY <1>1, PublishTInv
  <1>2. CASE Panic \/ Raise \/ SignalTask
    BY <1>2 DEF Panic, Raise, SignalTask, TInv, TypeOK, loop, app
  <1>3. CASE Check \/ Timeout \/ Resize \/ Broken \/ Decide
    <2>1. pc' \in {"check", "refresh", "poll", "draw", "exit", "left", "done"}
      BY <1>3 DEF Check, Timeout, Resize, Broken, Decide
    <2>2. outcome' \in {"none", "quit", "gone", "io"} /\ redraw' \in BOOLEAN
      BY <1>3 DEF Check, Timeout, Resize, Broken, Decide, TInv, TypeOK
    <2>3. UNCHANGED <<tasks, shown, last, screen, background, app>>
      BY <1>3 DEF Check, Timeout, Resize, Broken, Decide
    <2>4. QED BY <2>1, <2>2, <2>3 DEF TInv, TypeOK, tasks, app
  <1>4. CASE Refresh
    <2>1. /\ pc' = "poll" /\ redraw' \in BOOLEAN
          /\ UNCHANGED <<tasks, screen, outcome, background, app>>
          /\ UNCHANGED <<last, shown>> \/ (last' = shared.at /\ shown' = shared)
      BY <1>4 DEF Refresh, TInv, TypeOK
    <2>2. shown' \in Objects /\ last' \in Addresses /\ shown'.tick <= shared.tick
      BY <2>1 DEF TInv, TypeOK, Objects
    <2>3. QED BY <2>1, <2>2 DEF TInv, TypeOK, tasks, app
  <1>5. CASE Key
    BY <1>5, KeysTInv DEF Key, TInv, TypeOK, tasks
  <1>6. CASE Quit \/ Leave
    BY <1>6 DEF Quit, Leave, TInv, TypeOK, app
  <1>7. CASE Draw
    <2>1. Rows \in Nat
      BY RowsInNat
    <2>2. clamp \in Nat
      BY <2>1 DEF clamp, TInv, TypeOK
    <2>3. [View EXCEPT !.selection = clamp].tick \in 0..NotDrawn
      BY BoundsAssumption DEF View, TInv, TypeOK, Objects, NotDrawn
    <2>4. QED
      BY <1>7, <2>1, <2>2, <2>3 DEF Draw, TInv, TypeOK, tasks
  <1>8. CASE UNCHANGED vars
    BY <1>8 DEF vars, tasks, loop, app, TInv, TypeOK
  <1>9. QED
    BY <1>1, <1>2, <1>3, <1>4, <1>5, <1>6, <1>7, <1>8 DEF Next, Renderer

LEMMA TypesHold == Spec => []TInv
  BY InitTInv, NextTInv, PTL DEF Spec

(* Every variable stays within its type; each snapshot's chart goes back   *)
(* HISTORY samples, and the screen is of a snapshot that was published.    *)
THEOREM TypeCorrect == Spec => []TypeOK
  <1>1. TInv => TypeOK
    BY DEF TInv
  <1>2. QED BY <1>1, TypesHold, PTL

-----------------------------------------------------------------------------
(* The address stands for the object.  The renderer keeps the object whose *)
(* address it compares with, so that address is not given to another.      *)
Holding ==
    /\ shared \in Objects /\ shown \in Objects
    /\ last = shown.at
    /\ shared.at = shown.at => shared = shown

LEMMA NextHolding == Holding /\ [Next]_vars => Holding'
  <1> SUFFICES ASSUME Holding, [Next]_vars PROVE Holding'
    OBVIOUS
  <1>1. CASE Publish
    <2>1. UNCHANGED <<shown, last>>
      BY <1>1 DEF Publish, loop
    <2>2. PICK a \in Addresses \ Held : shared' = [at |-> a, tick |-> shared.tick + 1]
      BY <1>1 DEF Publish
    <2>3. shared' \in Objects
      BY <1>1, <2>2, BoundsAssumption DEF Publish, Holding, Objects
    <2>4. shared'.at # shown.at
      BY <2>2 DEF Held
    <2>5. QED
      BY <2>1, <2>3, <2>4 DEF Holding
  <1>2. CASE Refresh
    BY <1>2 DEF Refresh, tasks, Holding
  <1>3. CASE Panic \/ Raise \/ SignalTask
    BY <1>3 DEF Panic, Raise, SignalTask, loop, Holding
  <1>4. CASE Check \/ Timeout \/ Key \/ Quit \/ Resize \/ Draw \/ Broken \/ Decide \/ Leave
    BY <1>4 DEF Check, Timeout, Key, Quit, Resize, Draw, Broken, Decide, Leave, tasks, Holding
  <1>5. CASE UNCHANGED vars
    BY <1>5 DEF vars, tasks, loop, Holding
  <1>6. QED
    BY <1>1, <1>2, <1>3, <1>4, <1>5 DEF Next, Renderer

(* Whatever addresses the allocator reuses, past the refresh of an         *)
(* unpaused screen the snapshot shown is the one last published.           *)
THEOREM NothingMissed == Spec => NoUpdateMissed
  <1>1. Init => Holding
    <2>1. (CHOOSE a \in Addresses : TRUE) \in Addresses
      BY AddressesAssumption
    <2>2. QED
      BY <2>1, BoundsAssumption DEF Init, Holding, Objects
  <1>2. Holding /\ [Next]_vars =>
          [pc = "refresh" /\ pc' = "poll" /\ ~paused => shown'.tick = shared.tick]_vars
    <2> SUFFICES ASSUME Holding, [Next]_vars, pc = "refresh", pc' = "poll", ~paused
                 PROVE  shown'.tick = shared.tick \/ UNCHANGED vars
      OBVIOUS
    <2>1. CASE UNCHANGED vars
      BY <2>1
    <2>2. CASE Next
      <3>1. Refresh
        BY <2>2 DEF Next, Renderer, Publish, Panic, Raise, SignalTask, Check, Timeout, Key, Quit,
                    Resize, Draw, Broken, Decide, Leave, loop
      <3>2. QED
        BY <3>1 DEF Refresh, Holding
    <2>3. QED
      BY <2>1, <2>2
  <1>3. QED
    BY <1>1, <1>2, NextHolding, PTL DEF Spec, NoUpdateMissed

-----------------------------------------------------------------------------
(* Why the loop was left, from the flag it read to what it reports.        *)
Cause ==
    /\ signal = "raised" => asked
    /\ ~running => asked \/ pc = "done"
    /\ collector \in {"alive", "dead", "aborted"}
    /\ collector = "aborted" => pc = "done"
    /\ pc = "exit" => ~running \/ collector = "dead"
    /\ ExitNamesItsCause

LEMMA NextCause == Cause /\ [Next]_vars => Cause'
  <1> SUFFICES ASSUME Cause, [Next]_vars PROVE Cause'
    OBVIOUS
  <1> USE DEF Cause, ExitNamesItsCause
  <1>1. CASE Publish \/ Panic \/ Raise \/ SignalTask
    BY <1>1 DEF Publish, Panic, Raise, SignalTask, loop
  <1>2. CASE Check \/ Refresh \/ Timeout \/ Key \/ Resize \/ Draw \/ Broken
    BY <1>2 DEF Check, Refresh, Timeout, Key, Resize, Draw, Broken, tasks
  <1>3. CASE Quit
    BY <1>3 DEF Quit
  <1>4. CASE Decide
    BY <1>4 DEF Decide, tasks
  <1>5. CASE Leave
    BY <1>5 DEF Leave
  <1>6. CASE UNCHANGED vars
    BY <1>6 DEF vars, tasks, loop
  <1>7. QED
    BY <1>1, <1>2, <1>3, <1>4, <1>5, <1>6 DEF Next, Renderer

(* The program reports a quit only if one was asked for, and a lost        *)
(* collector only if it is dead, whatever happens between the test of the  *)
(* loop and the report.                                                    *)
THEOREM CauseNamed == Spec => []ExitNamesItsCause
  <1>1. Init => Cause
    BY DEF Init, Cause, ExitNamesItsCause
  <1>2. Cause => ExitNamesItsCause
    BY DEF Cause
  <1>3. QED
    BY <1>1, <1>2, NextCause, PTL DEF Spec

-----------------------------------------------------------------------------
(* While nothing asks for a redraw, the screen is the view there is.       *)
RowOk == selection < Rows \/ (Rows = 0 /\ selection = 0)

Drawn ==
    /\ pc \in {"check", "refresh", "poll", "draw"} /\ ~redraw => screen = View /\ RowOk
    /\ pc = "check" /\ redraw => screen.tick = NotDrawn /\ RowOk

LEMMA NoRowsAtFirst == shown.tick = 0 => Rows = 0
  <1>1. kept(<<>>, filter) = {}
    BY DEF kept
  <1>2. QED
    BY <1>1, FS_EmptySet DEF Rows, Snapshot, NoSnapshot

(* A snapshot is not changed by those that follow it. *)
LEMMA SnapshotStays ==
    ASSUME TInv, published' = published \/ Publish, UNCHANGED <<shown, filter>>
    PROVE  Rows' = Rows
  <1>1. Snapshot(shown.tick)' = Snapshot(shown.tick)
    <2>1. CASE published' = published
      BY <2>1 DEF Snapshot
    <2>2. CASE Publish /\ shown.tick = 0
      BY <2>2 DEF Snapshot
    <2>3. CASE Publish /\ shown.tick # 0
      <3>1. PICK made : published' = Append(published, made)
        BY <2>3 DEF Publish
      <3>2. shown.tick \in 1..Len(published)
        BY <2>3 DEF TInv, TypeOK, Objects
      <3>3. published'[shown.tick] = published[shown.tick]
        BY <3>1, <3>2 DEF TInv
      <3>4. QED
        BY <2>3, <3>3 DEF Snapshot
    <2>4. QED
      BY <2>1, <2>2, <2>3
  <1>2. QED
    BY <1>1 DEF Rows

LEMMA NextDrawn == TInv /\ Drawn /\ [Next]_vars => Drawn'
  <1> SUFFICES ASSUME TInv, Drawn, [Next]_vars PROVE Drawn'
    OBVIOUS
  <1>1. CASE Publish \/ Panic \/ Raise \/ SignalTask
    <2>1. UNCHANGED <<loop, app>> /\ (published' = published \/ Publish)
      BY <1>1 DEF Publish, Panic, Raise, SignalTask
    <2>2. Rows' = Rows
      BY <2>1, SnapshotStays DEF loop, app
    <2>3. View' = View
      BY <2>1 DEF View, loop, app
    <2>4. QED
      BY <2>1, <2>2, <2>3 DEF Drawn, RowOk, NotDrawn, loop, app
  <1>2. CASE Check \/ Timeout \/ UNCHANGED vars
    <2>1. UNCHANGED <<published, shown, redraw, screen, app>>
          /\ (pc' = pc \/ pc' \in {"refresh", "exit"} \/ (pc = "poll" /\ pc' = "draw"))
          /\ (pc' = pc \/ pc \in {"check", "poll"})
      BY <1>2 DEF Check, Timeout, vars, tasks, loop
    <2>2. Rows' = Rows
      BY <2>1, SnapshotStays DEF app
    <2>3. View' = View
      BY <2>1 DEF View, app
    <2>4. QED
      BY <2>1, <2>2, <2>3 DEF Drawn, RowOk, NotDrawn, app
  <1>3. CASE Refresh
    <2>1. CASE redraw'
      BY <1>3, <2>1 DEF Refresh, Drawn
    <2>2. CASE ~redraw'
      <3>1. pc = "refresh" /\ pc' = "poll" /\ UNCHANGED <<published, shown, redraw, screen, app>>
        BY <1>3, <2>2 DEF Refresh, tasks
      <3>2. Rows' = Rows
        BY <3>1, SnapshotStays DEF app
      <3>3. View' = View
        BY <3>1 DEF View, app
      <3>4. QED
        BY <2>2, <3>1, <3>2, <3>3 DEF Drawn, RowOk, app
    <2>3. QED
      BY <2>1, <2>2
  <1>4. CASE Key \/ Quit \/ Resize \/ Broken \/ Decide \/ Leave
    <2>1. pc' \in {"left", "done"} \/ (pc' = "draw" /\ redraw' = TRUE)
      BY <1>4 DEF Key, Quit, Resize, Broken, Decide, Leave
    <2>2. QED
      BY <2>1 DEF Drawn
  <1>5. CASE Draw
    <2>1. pc = "draw" /\ pc' = "check" /\ redraw' = FALSE /\ UNCHANGED <<published, shown, filter>>
      BY <1>5 DEF Draw, tasks
    <2>2. Rows' = Rows /\ Rows \in Nat
      BY <2>1, SnapshotStays, RowsInNat
    <2>3. CASE redraw
      <3>1. selection' = clamp /\ screen' = [View EXCEPT !.selection = clamp]
        BY <1>5, <2>3 DEF Draw
      <3>2. UNCHANGED <<shown, sort, descending, filter, editing_filter, paused>>
        BY <1>5 DEF Draw
      <3>3. View' = [View EXCEPT !.selection = selection']
        BY <3>2 DEF View
      <3>4. selection' < Rows \/ (Rows = 0 /\ selection' = 0)
        BY <2>2, <3>1 DEF clamp, TInv, TypeOK
      <3>5. QED
        BY <2>1, <2>2, <3>1, <3>3, <3>4 DEF Drawn, RowOk
    <2>4. CASE ~redraw
      <3>1. UNCHANGED <<selection, screen, shown, sort, descending, filter, editing_filter, paused>>
        BY <1>5, <2>4 DEF Draw
      <3>2. View' = View
        BY <3>1 DEF View
      <3>3. QED
        BY <2>1, <2>2, <2>4, <3>1, <3>2 DEF Drawn, RowOk
    <2>5. QED
      BY <2>3, <2>4
  <1>6. QED
    BY <1>1, <1>2, <1>3, <1>4, <1>5 DEF Next, Renderer

LEMMA DrawnHolds == Spec => []Drawn
  <1>1. Init => Drawn
    <2> SUFFICES ASSUME Init PROVE Drawn
      OBVIOUS
    <2>1. screen = [View EXCEPT !.tick = NotDrawn] /\ pc = "check" /\ redraw = TRUE /\ selection = 0
      BY DEF Init
    <2>2. screen.tick = NotDrawn
      <3>1. [View EXCEPT !.tick = NotDrawn].tick = NotDrawn
        BY DEF View
      <3>2. QED BY <2>1, <3>1
    <2>3. Rows = 0
      BY NoRowsAtFirst DEF Init
    <2>4. QED
      BY <2>1, <2>2, <2>3 DEF Drawn, RowOk
  <1>2. QED
    BY <1>1, NextDrawn, TypesHold, PTL DEF Spec

(* Whatever order snapshots, keys, resizes and timeouts come in, at each   *)
(* turn of the loop the screen is the view there is.                       *)
THEOREM ScreenKept == Spec => []ScreenIsCurrent
  <1>1. Drawn => ScreenIsCurrent
    BY DEF Drawn, ScreenIsCurrent
  <1>2. QED
    BY <1>1, DrawnHolds, PTL

(* The selected row is one of the rows drawn, however many of them the     *)
(* last snapshot or the filter took away.                                  *)
THEOREM SelectionKept == Spec => []SelectionIsARow
  <1>1. Drawn => SelectionIsARow
    BY DEF Drawn, SelectionIsARow, RowOk
  <1>2. QED
    BY <1>1, DrawnHolds, PTL

-----------------------------------------------------------------------------
(* The rows are in the order of the active column, each process once.  Its *)
(* rank, which is how many go before it, is a place of its own.            *)
LEMMA Ranking ==
    ASSUME NEW processes, NEW view, NEW n \in Nat, DOMAIN processes = 1..n,
           \A i \in 1..n : KeyOf(processes[i], view.sort) \in Int
    PROVE  LET indices == kept(processes, view.filter)
               N == Cardinality(indices)
           IN  /\ N \in Nat
               /\ \E at \in Bijection(1..N, indices) :
                     /\ ranked(processes, view) = [k \in 1..N |-> processes[at[k]]]
                     /\ \A j, k \in 1..N : j < k =>
                           KeyOf(processes[at[j]], view.sort) >= KeyOf(processes[at[k]], view.sort)
  <1> DEFINE indices == kept(processes, view.filter)
             N == Cardinality(indices)
             KeyAt(i) == KeyOf(processes[i], view.sort)
             Before(i, j) == \/ KeyAt(i) > KeyAt(j)
                             \/ KeyAt(i) = KeyAt(j) /\ i < j
             Ahead(i) == {j \in indices : Before(j, i)}
             Rank(i) == Cardinality(Ahead(i))
             place == [i \in indices |-> Rank(i) + 1]
             at == [k \in 1..N |-> CHOOSE i \in indices : Rank(i) = k - 1]
  <1>1. indices \subseteq 1..n
    BY DEF kept
  <1>2. \A i \in indices : KeyAt(i) \in Int /\ i \in Int
    BY <1>1
  <1>3. IsFiniteSet(indices) /\ N \in Nat
    <2>1. IsFiniteSet(1..n)
      BY FS_Interval
    <2>2. IsFiniteSet(indices)
      BY <1>1, <2>1, FS_Subset
    <2>3. QED BY <2>2, FS_CardinalityType
  <1>4. ranked(processes, view) = [k \in 1..N |-> processes[CHOOSE i \in indices : Rank(i) = k - 1]]
    BY DEF ranked
  <1> HIDE DEF indices, KeyAt
  <1>5. ASSUME NEW i \in indices
        PROVE  Rank(i) \in 0..N - 1
    <2>1. Ahead(i) \in SUBSET indices /\ i \notin Ahead(i)
      BY <1>2
    <2>2. IsFiniteSet(Ahead(i)) /\ Rank(i) <= N /\ (N = Rank(i) => indices = Ahead(i))
      BY <1>3, <2>1, FS_Subset
    <2>3. Rank(i) \in Nat
      BY <2>2, FS_CardinalityType
    <2> HIDE DEF Ahead
    <2>4. N # Rank(i)
      BY <2>1, <2>2
    <2>5. QED BY <1>3, <2>2, <2>3, <2>4
  <1>6. ASSUME NEW i \in indices, NEW j \in indices, Before(i, j)
        PROVE  Rank(i) < Rank(j)
    <2>1. Ahead(i) \in SUBSET Ahead(j)
      BY <1>2, <1>6
    <2>2. i \in Ahead(j) /\ i \notin Ahead(i)
      BY <1>2, <1>6
    <2>3. Ahead(j) \in SUBSET indices
      OBVIOUS
    <2>4. Rank(i) \in Int /\ Rank(j) \in Int
      BY <1>5, <1>3
    <2> HIDE DEF Ahead, Before
    <2>5. IsFiniteSet(Ahead(j))
      BY <1>3, <2>3, FS_Subset
    <2>6. Rank(i) <= Rank(j) /\ (Rank(j) = Rank(i) => Ahead(j) = Ahead(i))
      BY <2>1, <2>5, FS_Subset
    <2>7. QED BY <2>2, <2>4, <2>6
  <1>7. \A i, j \in indices : i = j \/ Before(i, j) \/ Before(j, i)
    BY <1>2
  <1> HIDE DEF Before, Rank
  <1>8. place \in Injection(indices, 1..N)
    <2>1. place \in [indices -> 1..N]
      BY <1>3, <1>5
    <2>2. \A i, j \in indices : place[i] = place[j] => i = j
      <3>1. SUFFICES ASSUME NEW i \in indices, NEW j \in indices, place[i] = place[j]
                     PROVE  i = j
        OBVIOUS
      <3>2. Rank(i) = Rank(j) /\ Rank(i) \in Int
        BY <1>3, <1>5, <3>1
      <3>3. QED BY <1>6, <1>7, <3>2
    <2>3. QED BY <2>1, <2>2 DEF Injection, IsInjective
  <1>9. place \in Surjection(indices, 1..N)
    <2> HIDE DEF place, N
    <2>1. IsFiniteSet(1..N) /\ Cardinality(1..N) = N
      BY <1>3, FS_Interval
    <2>2. Cardinality(indices) = Cardinality(1..N) <=> place \in Surjection(indices, 1..N)
      BY <1>8, <2>1, FS_Injection
    <2>3. QED BY <2>1, <2>2 DEF N
  <1>10. ASSUME NEW k \in 1..N
         PROVE  at[k] \in indices /\ Rank(at[k]) = k - 1
    <2>1. PICK i \in indices : place[i] = k
      BY <1>9 DEF Surjection
    <2>2. Rank(i) = k - 1
      BY <1>3, <1>5, <2>1
    <2>3. QED BY <2>2
  <1>11. at \in Bijection(1..N, indices)
    <2>1. at \in [1..N -> indices]
      BY <1>10
    <2>2. \A j, k \in 1..N : at[j] = at[k] => j = k
      BY <1>3, <1>10
    <2>3. ASSUME NEW i \in indices
          PROVE  \E k \in 1..N : at[k] = i
      <3> DEFINE k == Rank(i) + 1
      <3>1. k \in 1..N /\ Rank(i) = k - 1
        BY <1>3, <1>5
      <3>2. Rank(at[k]) = Rank(i) /\ at[k] \in indices
        BY <1>10, <3>1
      <3>3. Rank(i) \in Int
        BY <1>3, <1>5
      <3> HIDE DEF k, at
      <3>4. at[k] = i
        BY <1>6, <1>7, <3>2, <3>3
      <3>5. QED BY <3>1, <3>4
    <2>4. QED BY <2>1, <2>2, <2>3 DEF Bijection, Injection, Surjection, IsInjective
  <1>12. ASSUME NEW j \in 1..N, NEW k \in 1..N, j < k
         PROVE  KeyAt(at[j]) >= KeyAt(at[k])
    <2>1. ~Before(at[k], at[j])
      BY <1>3, <1>6, <1>10, <1>12
    <2>2. at[j] \in indices /\ at[k] \in indices
      BY <1>10
    <2> HIDE DEF at
    <2>3. QED BY <1>2, <2>1, <2>2 DEF Before
  <1>13. ranked(processes, view) = [k \in 1..N |-> processes[at[k]]]
    BY <1>4
  <1> HIDE DEF N, at
  <1>14. QED
    BY <1>3, <1>11, <1>12, <1>13 DEF N, indices, KeyAt

(* What the frame rests on: a snapshot's processes, and its other figures. *)
Listing(s) ==
    /\ s.processes \in Seq(ToSet(s.processes))
    /\ \A i, j \in DOMAIN s.processes : i # j => s.processes[i].pid # s.processes[j].pid
    /\ \A p \in ToSet(s.processes) : p.cpu \in Nat /\ Optional(p.mem) /\ Optional(p.io)

Figures(s) ==
    /\ s.cpu \in Nat /\ s.total \in Nat /\ s.used \in 0..s.total
    /\ s.history \in Seq(Nat)
    /\ s.history # <<>> => Last(s.history) = s.cpu

LEMMA KeyIsInt ==
    ASSUME NEW s, Listing(s), NEW p \in ToSet(s.processes), NEW column \in Sorts
    PROVE  KeyOf(p, column) \in Int
  <1>1. ASSUME NEW v, Optional(v)
        PROVE  OrZero(v) \in Nat
    BY <1>1 DEF OrZero, Optional
  <1>2. p.cpu \in Nat /\ mem_of(p) \in Nat /\ io_of(p) \in Nat
    BY <1>1 DEF Listing, mem_of, io_of
  <1>3. QED BY <1>2 DEF KeyOf, Sorts

(* The rows are the processes that pass the filter, by way of `at`.        *)
LEMMA Visible ==
    ASSUME NEW s, Listing(s), NEW view, view.sort \in Sorts, view.descending \in BOOLEAN
    PROVE  \E n \in Nat :
             /\ DOMAIN visible(s.processes, view) = 1..n
             /\ \E at \in Bijection(1..n, kept(s.processes, view.filter)) :
                   /\ \A k \in 1..n : visible(s.processes, view)[k] = s.processes[at[k]]
                   /\ \A j, k \in 1..n : j < k =>
                         LET a == KeyOf(s.processes[at[j]], view.sort)
                             b == KeyOf(s.processes[at[k]], view.sort)
                         IN  IF view.descending THEN a >= b ELSE a <= b
  <1> DEFINE indices == kept(s.processes, view.filter)
             N == Cardinality(indices)
             KeyAt(i) == KeyOf(s.processes[i], view.sort)
             sorted == ranked(s.processes, view)
  <1>1. PICK l \in Nat : DOMAIN s.processes = 1..l
    BY DEF Listing
  <1>2. \A i \in 1..l : s.processes[i] \in ToSet(s.processes)
    BY <1>1 DEF ToSet
  <1>3. \A i \in 1..l : KeyAt(i) \in Int
    BY <1>2, KeyIsInt
  <1>4. /\ N \in Nat
        /\ \E at \in Bijection(1..N, indices) :
              /\ sorted = [k \in 1..N |-> s.processes[at[k]]]
              /\ \A j, k \in 1..N : j < k => KeyAt(at[j]) >= KeyAt(at[k])
    BY <1>1, <1>3, Ranking
  <1>5. PICK at \in Bijection(1..N, indices) :
              /\ sorted = [k \in 1..N |-> s.processes[at[k]]]
              /\ \A j, k \in 1..N : j < k => KeyAt(at[j]) >= KeyAt(at[k])
    BY <1>4
  <1>6. indices \subseteq 1..l
    BY <1>1 DEF kept
  <1>7. \A k \in 1..N : at[k] \in indices
    BY <1>5 DEF Bijection, Surjection
  <1>8. \A k \in 1..N : KeyAt(at[k]) \in Int
    BY <1>3, <1>6, <1>7
  <1> HIDE DEF indices, N, KeyAt, sorted
  <1> SUFFICES \E t \in Bijection(1..N, indices) :
                  /\ DOMAIN visible(s.processes, view) = 1..N
                  /\ \A k \in 1..N : visible(s.processes, view)[k] = s.processes[t[k]]
                  /\ \A j, k \in 1..N : j < k =>
                        IF view.descending THEN KeyAt(t[j]) >= KeyAt(t[k]) ELSE KeyAt(t[j]) <= KeyAt(t[k])
    BY <1>4 DEF indices, N, KeyAt
  <1>9. CASE view.descending
    <2>1. visible(s.processes, view) = sorted
      BY <1>9 DEF visible, sorted
    <2>2. QED BY <1>5, <1>9, <2>1
  <1>10. CASE ~view.descending
    <2> DEFINE back == [k \in 1..N |-> at[N - k + 1]]
    <2>1. visible(s.processes, view) = Reverse(sorted)
      BY <1>10 DEF visible, sorted
    <2>2. sorted \in Seq(ToSet(s.processes)) /\ Len(sorted) = N
      <3>1. \A k \in 1..N : s.processes[at[k]] \in ToSet(s.processes)
        BY <1>2, <1>6, <1>7
      <3>2. QED BY <1>4, <1>5, <3>1
    <2>3. Reverse(sorted) = [k \in 1..N |-> s.processes[at[N - k + 1]]]
      BY <1>4, <1>5, <2>2 DEF Reverse
    <2>4. \A k \in 1..N : N - k + 1 \in 1..N
      BY <1>4
    <2>5. back \in Bijection(1..N, indices)
      <3>1. back \in [1..N -> indices]
        BY <1>7, <2>4
      <3>2. \A j, k \in 1..N : at[j] = at[k] => j = k
        BY <1>5 DEF Bijection, Injection, IsInjective
      <3>3. \A j, k \in 1..N : back[j] = back[k] => j = k
        <4>1. ASSUME NEW j \in 1..N, NEW k \in 1..N, back[j] = back[k]
              PROVE  j = k
          <5>1. N - j + 1 = N - k + 1
            BY <2>4, <3>2, <4>1
          <5>2. QED BY <1>4, <5>1
        <4>2. QED BY <4>1
      <3>4. ASSUME NEW i \in indices
            PROVE  \E k \in 1..N : back[k] = i
        <4>1. PICK m \in 1..N : at[m] = i
          BY <1>5 DEF Bijection, Surjection
        <4>2. N - m + 1 \in 1..N /\ N - (N - m + 1) + 1 = m
          BY <1>4
        <4>3. QED BY <4>1, <4>2
      <3>5. QED BY <3>1, <3>3, <3>4 DEF Bijection, Injection, Surjection, IsInjective
    <2>6. ASSUME NEW j \in 1..N, NEW k \in 1..N, j < k
          PROVE  KeyAt(back[j]) <= KeyAt(back[k])
      <3>1. N - k + 1 < N - j + 1
        BY <1>4, <2>6
      <3>2. KeyAt(at[N - k + 1]) >= KeyAt(at[N - j + 1])
        BY <1>5, <2>4, <3>1
      <3>3. QED BY <1>8, <2>4, <3>2
    <2>7. QED
      <3> HIDE DEF back
      <3>1. \A k \in 1..N : Reverse(sorted)[k] = s.processes[back[k]]
        BY <2>3 DEF back
      <3>2. DOMAIN Reverse(sorted) = 1..N
        BY <2>3
      <3>3. QED BY <1>10, <2>1, <2>5, <2>6, <3>1, <3>2
  <1>11. QED BY <1>9, <1>10

LEMMA OfItself ==
    ASSUME NEW s, Listing(s), NEW i \in DOMAIN s.processes
    PROVE  Process(s, s.processes[i].pid) = s.processes[i]
  BY DEF Listing, Process, ToSet

(* A frame's rows have the pids of the rows that are visible. *)
LEMMA RowsRight ==
    ASSUME NEW s, Listing(s), NEW background_, NEW view, view.sort \in Sorts, view.descending \in BOOLEAN
    PROVE  RowsAreRight(Frame(s, background_, view).rows, s, view)
  <1> DEFINE indices == kept(s.processes, view.filter)
             seen == visible(s.processes, view)
             shows == Frame(s, background_, view).rows
             KeyAt(i) == KeyOf(s.processes[i], view.sort)
  <1>0. PICK n \in Nat :
             /\ DOMAIN seen = 1..n
             /\ \E at \in Bijection(1..n, indices) :
                   /\ \A k \in 1..n : seen[k] = s.processes[at[k]]
                   /\ \A j, k \in 1..n : j < k =>
                         IF view.descending THEN KeyAt(at[j]) >= KeyAt(at[k]) ELSE KeyAt(at[j]) <= KeyAt(at[k])
    BY Visible
  <1>1. PICK at \in Bijection(1..n, indices) :
             /\ DOMAIN seen = 1..n
             /\ \A k \in 1..n : seen[k] = s.processes[at[k]]
             /\ \A j, k \in 1..n : j < k =>
                   IF view.descending THEN KeyAt(at[j]) >= KeyAt(at[k]) ELSE KeyAt(at[j]) <= KeyAt(at[k])
    BY <1>0
  <1>2. indices = {i \in DOMAIN s.processes : s.processes[i].pid \in Matching[view.filter]}
    BY DEF kept
  <1> HIDE DEF indices, seen
  <1>3. DOMAIN shows = 1..n /\ \A k \in 1..n : shows[k].pid = s.processes[at[k]].pid
    BY <1>1 DEF Frame, process_row, seen
  <1>4. /\ \A k \in 1..n : at[k] \in indices
        /\ \A i \in indices : \E k \in 1..n : at[k] = i
        /\ \A j, k \in 1..n : at[j] = at[k] => j = k
    BY DEF Bijection, Injection, Surjection, IsInjective
  <1> HIDE DEF shows
  <1>5. {shows[k].pid : k \in DOMAIN shows} = {p.pid : p \in ToSet(s.processes)} \cap Matching[view.filter]
    <2>1. ASSUME NEW k \in 1..n
          PROVE  /\ shows[k].pid \in {p.pid : p \in ToSet(s.processes)}
                 /\ shows[k].pid \in Matching[view.filter]
      BY <1>2, <1>3, <1>4 DEF ToSet
    <2>2. ASSUME NEW pid \in {p.pid : p \in ToSet(s.processes)}, pid \in Matching[view.filter]
          PROVE  \E k \in 1..n : shows[k].pid = pid
      <3>1. PICK i \in DOMAIN s.processes : s.processes[i].pid = pid
        BY DEF ToSet
      <3>2. i \in indices
        BY <1>2, <2>2, <3>1
      <3>3. QED BY <1>3, <1>4, <3>1, <3>2
    <2>3. QED BY <1>3, <2>1, <2>2
  <1>6. ASSUME NEW i \in 1..n, NEW j \in 1..n, i < j
        PROVE  LET a == Process(s, shows[i].pid) b == Process(s, shows[j].pid) IN
               /\ a # b
               /\ IF view.descending THEN KeyOf(a, view.sort) >= KeyOf(b, view.sort)
                                     ELSE KeyOf(a, view.sort) <= KeyOf(b, view.sort)
    <2>1. at[i] \in DOMAIN s.processes /\ at[j] \in DOMAIN s.processes /\ at[i] # at[j]
      BY <1>2, <1>4, <1>6
    <2>2. /\ Process(s, shows[i].pid) = s.processes[at[i]]
          /\ Process(s, shows[j].pid) = s.processes[at[j]]
      BY <1>3, <2>1, OfItself
    <2>3. s.processes[at[i]] # s.processes[at[j]]
      BY <2>1 DEF Listing
    <2>4. IF view.descending THEN KeyAt(at[i]) >= KeyAt(at[j]) ELSE KeyAt(at[i]) <= KeyAt(at[j])
      BY <1>1, <1>6
    <2>5. QED BY <2>2, <2>3, <2>4
  <1>7. QED
    BY <1>3, <1>5, <1>6 DEF RowsAreRight, shows

-----------------------------------------------------------------------------
(* The tints.  From the threshold on a row is lit, in channels that suit   *)
(* the background and that part further the longer the wait.               *)
LEMMA Shade ==
    ASSUME NEW w \in Nat, w >= IO_ROW_THRESHOLD
    PROVE  /\ \E r \in 48..128, g \in 16..30 :
                 io_row_bg("dark", w) = <<r, g, g>> /\ r > g + 20
           /\ \E r \in 244..255, g \in 168..224 :
                 io_row_bg("light", w) = <<r, g, g>> /\ r > g + 20
  <1> DEFINE t == Within(w - IO_ROW_THRESHOLD, 0, 350)
  <1>1. t \in 0..350
    BY DEF Within, IO_ROW_THRESHOLD
  <1>2. /\ io_row_bg("dark", w) = <<lerp(48, 128, t), lerp(16, 30, t), lerp(16, 30, t)>>
        /\ io_row_bg("light", w) = <<lerp(255, 244, t), lerp(224, 168, t), lerp(224, 168, t)>>
    BY DEF io_row_bg, IO_ROW_THRESHOLD
  <1> HIDE DEF t
  <1>3. /\ lerp(48, 128, t) \in 48..128 /\ lerp(16, 30, t) \in 16..30
        /\ lerp(48, 128, t) > lerp(16, 30, t) + 20
    BY <1>1 DEF lerp
  <1>4. /\ lerp(255, 244, t) \in 244..255 /\ lerp(224, 168, t) \in 168..224
        /\ lerp(255, 244, t) > lerp(224, 168, t) + 20
    BY <1>1 DEF lerp
  <1>5. QED BY <1>2, <1>3, <1>4

LEMMA Deepens ==
    ASSUME NEW v \in Nat, NEW w \in Nat, v >= w, w >= IO_ROW_THRESHOLD, NEW b \in Backgrounds
    PROVE  io_row_bg(b, v)[1] - io_row_bg(b, v)[2] >= io_row_bg(b, w)[1] - io_row_bg(b, w)[2] - 1
  <1> DEFINE x == Within(v - IO_ROW_THRESHOLD, 0, 350)
             y == Within(w - IO_ROW_THRESHOLD, 0, 350)
  <1>1. x \in 0..350 /\ y \in 0..350 /\ y <= x
    BY DEF Within, IO_ROW_THRESHOLD
  <1>2. /\ io_row_bg("dark", v) = <<lerp(48, 128, x), lerp(16, 30, x), lerp(16, 30, x)>>
        /\ io_row_bg("dark", w) = <<lerp(48, 128, y), lerp(16, 30, y), lerp(16, 30, y)>>
        /\ io_row_bg("light", v) = <<lerp(255, 244, x), lerp(224, 168, x), lerp(224, 168, x)>>
        /\ io_row_bg("light", w) = <<lerp(255, 244, y), lerp(224, 168, y), lerp(224, 168, y)>>
    BY DEF io_row_bg, IO_ROW_THRESHOLD
  <1> HIDE DEF x, y
  <1>3. lerp(48, 128, x) - lerp(16, 30, x) >= lerp(48, 128, y) - lerp(16, 30, y) - 1
    BY <1>1 DEF lerp
  <1>4. lerp(255, 244, x) - lerp(224, 168, x) >= lerp(255, 244, y) - lerp(224, 168, y) - 1
    BY <1>1 DEF lerp
  <1>5. QED BY <1>2, <1>3, <1>4 DEF Backgrounds

(* The same of the row itself, which is striped where it is not lit. *)
LEMMA RowTint ==
    ASSUME NEW b \in Backgrounds, NEW k \in Nat, NEW p, Optional(p.io)
    PROVE  LET row == process_row(b, k, p) IN
           /\ io_of(p) \in Nat
           /\ Lit(row) <=> io_of(p) >= IO_ROW_THRESHOLD
           /\ Lit(row) <=> \E w \in p.io : w >= IO_ROW_THRESHOLD
           /\ Lit(row) => row.bg = io_row_bg(b, io_of(p))
           /\ \A c \in ToSet(row.bg) : IF b = "dark" THEN c <= 128 ELSE c \in 168..255
  <1> DEFINE io == io_of(p)
             lit == io_row_bg(b, io)
             stripe == row_stripe(b, k)
             bg == IF lit = <<>> THEN stripe ELSE lit
  <1>1. io \in Nat
    BY DEF io_of, OrZero, Optional
  <1>2. io >= IO_ROW_THRESHOLD <=> \E w \in p.io : w >= IO_ROW_THRESHOLD
    BY DEF io_of, OrZero, Optional, IO_ROW_THRESHOLD
  <1>3. process_row(b, k, p).bg = bg
    BY DEF process_row
  <1>4. CASE io < IO_ROW_THRESHOLD
    <2>1. lit = <<>>
      BY <1>4 DEF io_row_bg
    <2>2. \/ stripe = <<>>
          \/ b = "dark" /\ stripe = <<24, 24, 28>>
          \/ b = "light" /\ stripe = <<238, 238, 243>>
      BY DEF row_stripe, Backgrounds
    <2> HIDE DEF stripe, lit
    <2>3. bg = stripe
      BY <2>1
    <2> HIDE DEF bg
    <2>4. ~(bg # <<>> /\ bg[1] > bg[2] + 20)
      BY <2>2, <2>3
    <2>5. \A c \in ToSet(bg) : IF b = "dark" THEN c <= 128 ELSE c \in 168..255
      <3>1. CASE bg = <<>>
        <4>1. DOMAIN bg = {}
          BY <3>1
        <4>2. ToSet(bg) = {}
          BY <4>1 DEF ToSet
        <4>3. QED BY <4>2
      <3>2. CASE b = "dark" /\ bg = <<24, 24, 28>>
        BY <3>2 DEF ToSet
      <3>3. CASE b = "light" /\ bg = <<238, 238, 243>>
        BY <3>3 DEF ToSet
      <3>4. QED BY <2>2, <2>3, <3>1, <3>2, <3>3
    <2>6. process_row(b, k, p).bg = bg
      BY <1>3 DEF bg
    <2>7. QED
      BY <2>6, <1>1, <1>2, <1>3, <1>4, <2>4, <2>5 DEF Lit, IO_ROW_THRESHOLD
  <1>5. CASE io >= IO_ROW_THRESHOLD
    <2>1. PICK r \in Nat, g \in Nat :
             /\ lit = <<r, g, g>> /\ r > g + 20
             /\ IF b = "dark" THEN r <= 128 /\ g <= 128 ELSE r \in 168..255 /\ g \in 168..255
      <3>1. CASE b = "dark"
        <4>1. PICK r \in 48..128, g \in 16..30 : lit = <<r, g, g>> /\ r > g + 20
          BY <1>1, <1>5, <3>1, Shade
        <4>2. r \in Nat /\ g \in Nat /\ r <= 128 /\ g <= 128
          OBVIOUS
        <4>3. QED BY <3>1, <4>1, <4>2
      <3>2. CASE b = "light"
        <4>1. PICK r \in 244..255, g \in 168..224 : lit = <<r, g, g>> /\ r > g + 20
          BY <1>1, <1>5, <3>2, Shade
        <4>2. r \in Nat /\ g \in Nat /\ r \in 168..255 /\ g \in 168..255 /\ b # "dark"
          BY <3>2
        <4>3. QED BY <4>1, <4>2
      <3>3. QED BY <3>1, <3>2 DEF Backgrounds
    <2> HIDE DEF lit, stripe
    <2>2. bg = lit /\ lit # <<>>
      BY <2>1
    <2>3. bg # <<>> /\ bg[1] > bg[2] + 20
      BY <2>1, <2>2
    <2>4. \A c \in ToSet(bg) : c = r \/ c = g
      BY <2>1, <2>2 DEF ToSet
    <2>5. \A c \in ToSet(bg) : IF b = "dark" THEN c <= 128 ELSE c \in 168..255
      BY <2>1, <2>4
    <2>6. bg = io_row_bg(b, io)
      BY <2>2 DEF lit
    <2> HIDE DEF bg
    <2>7. QED
      BY <1>1, <1>2, <1>3, <1>5, <2>3, <2>5, <2>6 DEF Lit
  <1>6. QED BY <1>1, <1>4, <1>5 DEF IO_ROW_THRESHOLD

LEMMA TintsRight ==
    ASSUME NEW s, Listing(s), NEW b \in Backgrounds, NEW view, view.sort \in Sorts, view.descending \in BOOLEAN
    PROVE  TintsAreRight(Frame(s, b, view).rows, s, b)
  <1> DEFINE seen == visible(s.processes, view)
             shows == Frame(s, b, view).rows
             indices == kept(s.processes, view.filter)
  <1>1. PICK n \in Nat :
             /\ DOMAIN seen = 1..n
             /\ \E at \in Bijection(1..n, indices) : \A k \in 1..n : seen[k] = s.processes[at[k]]
    BY Visible
  <1>2. PICK at \in Bijection(1..n, indices) : \A k \in 1..n : seen[k] = s.processes[at[k]]
    BY <1>1
  <1>3. \A k \in 1..n : at[k] \in DOMAIN s.processes
    BY DEF Bijection, Surjection, kept
  <1>4. DOMAIN shows = 1..n /\ \A k \in 1..n : shows[k] = process_row(b, k - 1, s.processes[at[k]])
    <2> HIDE DEF seen, indices
    <2>1. QED BY <1>1, <1>2 DEF Frame, seen
  <1> HIDE DEF shows, seen, indices
  <1>5. ASSUME NEW k \in 1..n
        PROVE  LET p == Process(s, shows[k].pid) IN
               /\ Optional(p.io)
               /\ shows[k] = process_row(b, k - 1, p)
    <2>1. shows[k].pid = s.processes[at[k]].pid
      BY <1>4 DEF process_row
    <2>2. Process(s, shows[k].pid) = s.processes[at[k]]
      BY <1>3, <2>1, OfItself
    <2>3. Optional(s.processes[at[k]].io)
      BY <1>3 DEF Listing, ToSet
    <2>4. QED BY <1>4, <2>2, <2>3
  <1> DEFINE P(k) == Process(s, shows[k].pid)
  <1>6. ASSUME NEW k \in 1..n
        PROVE  /\ io_of(P(k)) \in Nat
               /\ Lit(shows[k]) <=> io_of(P(k)) >= IO_ROW_THRESHOLD
               /\ Lit(shows[k]) <=> \E w \in P(k).io : w >= IO_ROW_THRESHOLD
               /\ Lit(shows[k]) => shows[k].bg = io_row_bg(b, io_of(P(k)))
               /\ \A c \in ToSet(shows[k].bg) : IF b = "dark" THEN c <= 128 ELSE c \in 168..255
    <2>1. k - 1 \in Nat /\ Optional(P(k).io) /\ shows[k] = process_row(b, k - 1, P(k))
      BY <1>5
    <2> HIDE DEF P
    <2>2. PICK p : \E index \in Nat : p = P(k) /\ index = k - 1
      BY <2>1
    <2>3. PICK index \in Nat : p = P(k) /\ index = k - 1
      BY <2>2
    <2>4. Optional(p.io) /\ shows[k] = process_row(b, index, p)
      BY <2>1, <2>3
    <2>5. LET row == process_row(b, index, p) IN
          /\ io_of(p) \in Nat
          /\ Lit(row) <=> io_of(p) >= IO_ROW_THRESHOLD
          /\ Lit(row) <=> \E w \in p.io : w >= IO_ROW_THRESHOLD
          /\ Lit(row) => row.bg = io_row_bg(b, io_of(p))
          /\ \A c \in ToSet(row.bg) : IF b = "dark" THEN c <= 128 ELSE c \in 168..255
      BY <2>4, RowTint
    <2>6. QED BY <2>3, <2>4, <2>5
  <1>7. ASSUME NEW i \in 1..n, NEW j \in 1..n,
               Lit(shows[i]), Lit(shows[j]), io_of(P(i)) > io_of(P(j))
        PROVE  shows[i].bg[1] - shows[i].bg[2] >= shows[j].bg[1] - shows[j].bg[2] - 1
    <2> HIDE DEF P
    <2>1. /\ io_of(P(i)) \in Nat /\ io_of(P(j)) \in Nat
          /\ io_of(P(i)) >= io_of(P(j)) /\ io_of(P(j)) >= IO_ROW_THRESHOLD
      BY <1>6, <1>7
    <2>2. shows[i].bg = io_row_bg(b, io_of(P(i))) /\ shows[j].bg = io_row_bg(b, io_of(P(j)))
      BY <1>6, <1>7
    <2>3. QED BY <2>1, <2>2, Deepens
  <1>8. QED
    BY <1>4, <1>6, <1>7 DEF TintsAreRight, shows

-----------------------------------------------------------------------------
(* The header. *)
LEMMA GaugeFits ==
    ASSUME NEW percent \in Int
    PROVE  gauge(percent) \in 0..GAUGE_WIDTH /\ (percent = 1000 => gauge(percent) = GAUGE_WIDTH)
  <1>1. Within(percent, 0, 1000) \in 0..1000 /\ (percent = 1000 => Within(percent, 0, 1000) = 1000)
    BY DEF Within
  <1>2. QED BY <1>1 DEF gauge, GAUGE_WIDTH

LEMMA Share ==
    ASSUME NEW s, Figures(s)
    PROVE  /\ memory_percent(s) \in Int
           /\ s.used > 0 /\ s.used = s.total => memory_percent(s) = 1000
  <1>1. s.total \in Nat /\ s.used \in Nat
    BY DEF Figures
  <1>2. ASSUME NEW a \in Nat, NEW n \in Nat \ {0}
        PROVE  a \div n \in Int
    OBVIOUS
  <1>3. memory_percent(s) \in Int
    BY <1>1, <1>2 DEF memory_percent
  <1>4. ASSUME NEW n \in Nat \ {0}
        PROVE  (1000 * n) \div n = 1000
    OBVIOUS
  <1>5. ASSUME s.used > 0, s.used = s.total
        PROVE  memory_percent(s) = 1000
    BY <1>1, <1>4, <1>5 DEF memory_percent
  <1>6. QED BY <1>3, <1>5

(* A set of samples has a highest one. *)
LEMMA Highest ==
    ASSUME NEW h \in Seq(Nat)
    PROVE  LET S == ToSet(h) \cup {10} IN \E y \in S : \A v \in S : v <= y
  <1> DEFINE S == ToSet(h) \cup {10}
             Above(y) == {v \in S : v > y}
             Counts == {Cardinality(Above(y)) : y \in S}
  <1>1. S \subseteq Nat /\ 10 \in S
    BY DEF ToSet
  <1>2. IsFiniteSet(S)
    <2> DEFINE n == Len(h)
               f == [i \in 1..n |-> h[i]]
    <2>1. f \in Surjection(1..n, ToSet(h))
      <3>1. DOMAIN h = 1..n
        OBVIOUS
      <3>2. ToSet(h) = {h[i] : i \in 1..n}
        BY <3>1 DEF ToSet
      <3> HIDE DEF n
      <3>3. QED BY <3>2 DEF Surjection
    <2>2. n \in Nat
      OBVIOUS
    <2> HIDE DEF f, n
    <2>3. IsFiniteSet(1..n)
      BY <2>2, FS_Interval
    <2>4. IsFiniteSet(ToSet(h))
      BY <2>1, <2>3, FS_Surjection
    <2>5. QED BY <2>4, FS_AddElement
  <1> HIDE DEF S
  <1>3. ASSUME NEW y \in S
        PROVE  IsFiniteSet(Above(y)) /\ Cardinality(Above(y)) \in Nat
    <2>1. Above(y) \in SUBSET S
      OBVIOUS
    <2>2. IsFiniteSet(Above(y))
      BY <1>2, <2>1, FS_Subset
    <2>3. QED BY <2>2, FS_CardinalityType
  <1>4. Counts \subseteq Nat /\ Counts # {}
    BY <1>1, <1>3
  <1>5. PICK c \in Counts : \A d \in Counts : ~(<<d, c>> \in OpToRel(<, Nat))
    BY <1>4, NatLessThanWellFounded, WFMin
  <1>6. PICK y \in S : c = Cardinality(Above(y))
    OBVIOUS
  <1>7. ASSUME NEW z \in S, z > y
        PROVE  FALSE
    <2>1. Above(z) \in SUBSET Above(y) /\ z \in Above(y) /\ z \notin Above(z)
      <3>1. y \in Nat /\ z \in Nat /\ \A v \in S : v \in Nat
        BY <1>1
      <3>2. ASSUME NEW v \in Above(z)
            PROVE  v \in Above(y)
        BY <1>7, <3>1
      <3>3. z \in Above(y) /\ z \notin Above(z)
        BY <1>7, <3>1
      <3> HIDE DEF Above
      <3>4. QED BY <3>2, <3>3
    <2>2. Cardinality(Above(z)) \in Counts /\ Cardinality(Above(z)) \in Nat /\ c \in Nat
      BY <1>3, <1>6
    <2>3. ~(Cardinality(Above(z)) < c)
      <3> DEFINE d == Cardinality(Above(z))
      <3>1. <<d, c>> \notin OpToRel(<, Nat)
        BY <1>5, <2>2
      <3>2. d \in Nat /\ c \in Nat
        BY <2>2
      <3> HIDE DEF d
      <3>3. ~(d < c)
        BY <3>1, <3>2 DEF OpToRel
      <3>4. QED BY <3>3 DEF d
    <2>4. IsFiniteSet(Above(y))
      BY <1>3
    <2> HIDE DEF Above
    <2>5. Cardinality(Above(z)) <= c /\ (c = Cardinality(Above(z)) => Above(y) = Above(z))
      BY <1>6, <2>1, <2>4, FS_Subset
    <2>6. QED BY <2>1, <2>2, <2>3, <2>5
  <1>8. \A v \in S : v <= y
    BY <1>1, <1>7
  <1>9. QED BY <1>8 DEF S

LEMMA HeaderRight ==
    ASSUME NEW s, Figures(s), NEW b, NEW view
    PROVE  HeaderIsRight(Frame(s, b, view), s)
  <1> DEFINE f == Frame(s, b, view)
  <1>1. f.gauges = <<gauge(s.cpu), gauge(memory_percent(s))>> /\ f.chart = chart(s.history)
    BY DEF Frame
  <1>2. s.cpu \in Int
    BY DEF Figures
  <1> HIDE DEF f
  <1>3. \A g \in ToSet(f.gauges) : g \in 0..GAUGE_WIDTH
    <2>1. gauge(s.cpu) \in 0..GAUGE_WIDTH /\ gauge(memory_percent(s)) \in 0..GAUGE_WIDTH
      BY <1>2, GaugeFits, Share
    <2>2. \A g \in ToSet(f.gauges) : g = gauge(s.cpu) \/ g = gauge(memory_percent(s))
      BY <1>1 DEF ToSet
    <2>3. QED BY <2>1, <2>2
  <1>4. s.used > 0 /\ s.used = s.total => f.gauges[2] = GAUGE_WIDTH
    BY <1>1, GaugeFits, Share
  <1>5. ASSUME s.history # <<>>
        PROVE  \A i \in DOMAIN s.history : i - 1 <= f.chart[1] /\ 10 * s.history[i] <= f.chart[2]
    <2> DEFINE S == ToSet(s.history) \cup {10}
               top == CHOOSE y \in S : \A v \in S : v <= y
    <2>1. s.history \in Seq(Nat)
      BY DEF Figures
    <2>2. top \in S /\ \A v \in S : v <= top
      <3>1. \E y \in S : \A v \in S : v <= y
        BY <2>1, Highest
      <3>2. QED BY <3>1
    <2>3. S \subseteq Nat
      BY <2>1 DEF ToSet
    <2>4. \A i \in DOMAIN s.history : s.history[i] \in S
      BY DEF ToSet
    <2>5. f.chart = <<IF Len(s.history) = 1 THEN 1 ELSE Len(s.history) - 1, 11 * top>>
      BY <1>1, <1>5 DEF chart
    <2> HIDE DEF top, S
    <2>6. ASSUME NEW i \in DOMAIN s.history
          PROVE  i - 1 <= f.chart[1] /\ 10 * s.history[i] <= f.chart[2]
      <3>1. i \in 1..Len(s.history) /\ Len(s.history) \in Nat
        BY <2>1
      <3>2. s.history[i] \in Nat /\ top \in Nat /\ s.history[i] <= top
        BY <2>2, <2>3, <2>4
      <3>3. QED BY <2>5, <3>1, <3>2
    <2>7. QED BY <2>6
  <1>6. QED
    BY <1>3, <1>4, <1>5 DEF HeaderIsRight, Figures, f

-----------------------------------------------------------------------------
(* The last sample of a snapshot's chart is its own reading. *)
Latest == \A n \in DOMAIN published : Last(published[n].history) = published[n].cpu

LEMMA PushedLast ==
    ASSUME NEW h \in Histories, NEW v
    PROVE  Last(push_capped(h, v)) = v
  <1> DEFINE kept_ == IF Len(h) >= HISTORY THEN Tail(h) ELSE h
  <1>1. kept_ \in Seq(Cpus)
    BY HistoryAssumption DEF Histories
  <1> HIDE DEF kept_
  <1>2. Append(kept_, v)[Len(Append(kept_, v))] = v
    BY <1>1
  <1>3. QED BY <1>2 DEF push_capped, Last, kept_

LEMMA NextLatest == TInv /\ Latest /\ [Next]_vars => Latest'
  <1> SUFFICES ASSUME TInv, Latest, [Next]_vars PROVE Latest'
    OBVIOUS
  <1>1. CASE UNCHANGED published
    BY <1>1 DEF Latest
  <1>2. CASE Publish
    <2> DEFINE old == IF published = <<>> THEN Baseline ELSE Last(published).history
               made(c) ==
                 [processes |-> c.processes, cpu |-> c.cpu, at_capacity |-> c.at_capacity,
                  used |-> memory_used_bytes(memory_total, c.available), total |-> memory_total,
                  history |-> push_capped(old, c.cpu)]
    <2>1. PICK c \in Contents : published' = Append(published, made(c))
      BY <1>2 DEF Publish
    <2>2. published \in Seq(Snapshots)
      BY DEF TInv
    <2>3. old \in Histories
      <3>1. Baseline \in Histories
        BY HistoryAssumption DEF Baseline, Histories, Cpus
      <3>2. ASSUME published # <<>>
            PROVE  Last(published).history \in Histories
        <4>1. published[Len(published)] \in Snapshots
          BY <2>2, <3>2
        <4>2. QED BY <4>1, Parts DEF Last
      <3>3. QED BY <3>1, <3>2
    <2>4. Last(made(c).history) = made(c).cpu
      <3> HIDE DEF old
      <3>1. made(c).history = push_capped(old, c.cpu) /\ made(c).cpu = c.cpu
        OBVIOUS
      <3>2. QED BY <2>3, <3>1, PushedLast
    <2> HIDE DEF made
    <2>5. ASSUME NEW n \in DOMAIN published'
          PROVE  \/ n \in DOMAIN published /\ published'[n] = published[n]
                 \/ published'[n] = made(c)
      BY <2>1, <2>2
    <2>6. QED BY <2>4, <2>5 DEF Latest
  <1>3. CASE Next /\ ~Publish
    BY <1>1, <1>3 DEF Next, Renderer, Panic, Raise, SignalTask, Check, Refresh, Timeout, Key, Quit, Resize,
                      Draw, Broken, Decide, Leave, tasks
  <1>4. CASE UNCHANGED vars
    BY <1>1, <1>4 DEF vars, tasks
  <1>5. QED BY <1>2, <1>3, <1>4

LEMMA LatestHolds == Spec => []Latest
  <1>1. Init => Latest
    BY DEF Init, Latest
  <1>2. QED BY <1>1, NextLatest, TypesHold, PTL DEF Spec

LEMMA UsedIsPart ==
    ASSUME NEW total \in Nat, NEW available, Optional(available)
    PROVE  memory_used_bytes(total, available) \in 0..total
  <1>1. CASE available = {}
    BY <1>1 DEF memory_used_bytes
  <1>2. CASE available # {}
    <2> DEFINE a == CHOOSE v \in available : TRUE
    <2>1. a \in Nat
      BY <1>2 DEF Optional
    <2>2. memory_used_bytes(total, available) = IF total < a THEN 0 ELSE total - a
      BY <1>2 DEF memory_used_bytes
    <2> HIDE DEF a
    <2>3. QED BY <2>1, <2>2
  <1>3. QED BY <1>1, <1>2

(* Every snapshot, the one before the first tick included, is one that a   *)
(* frame can be drawn of.                                                  *)
LEMMA SnapshotsAreSound ==
    ASSUME TInv, Latest, NEW tick \in 0..shared.tick
    PROVE  Listing(Snapshot(tick)) /\ Figures(Snapshot(tick))
  <1>1. CASE tick = 0
    <2>1. Snapshot(tick) = NoSnapshot
      BY <1>1 DEF Snapshot
    <2>2. ToSet(<<>>) = {}
      BY DEF ToSet
    <2>3. Listing(NoSnapshot)
      BY <2>2 DEF NoSnapshot, Listing
    <2>4. Figures(NoSnapshot)
      BY DEF NoSnapshot, Figures
    <2>5. QED BY <2>1, <2>3, <2>4
  <1>2. CASE tick # 0
    <2> DEFINE s == published[tick]
    <2>1. Snapshot(tick) = s
      BY <1>2 DEF Snapshot
    <2>2. tick \in DOMAIN published
      BY <1>2 DEF TInv, TypeOK, Objects
    <2>3. s \in Snapshots /\ Last(s.history) = s.cpu
      BY <2>2 DEF TInv, Latest
    <2> HIDE DEF s
    <2>4. PICK c \in Contents : s.processes = c.processes
      BY <2>3, Parts
    <2>5. Listing(s)
      BY <2>4, ContentsAssumption DEF Listing
    <2>6. PICK d \in Contents : s.used = memory_used_bytes(memory_total, d.available)
      BY <2>3 DEF Snapshots
    <2>7. s.total = memory_total /\ s.used \in 0..s.total
      BY <2>3, <2>6, UsedIsPart, ContentsAssumption, MemoryAssumption DEF Snapshots
    <2>8. s.cpu \in Nat
      BY <2>3, ContentsAssumption DEF Snapshots
    <2>9. s.history \in Seq(Nat)
      <3>1. Cpus \subseteq Nat
        BY ContentsAssumption DEF Cpus
      <3>2. s.history \in Seq(Cpus)
        BY <2>3, Parts DEF Histories
      <3>3. /\ Len(s.history) \in Nat /\ s.history = [i \in 1..Len(s.history) |-> s.history[i]]
            /\ \A i \in 1..Len(s.history) : s.history[i] \in Cpus
        BY <3>2
      <3>4. \A i \in 1..Len(s.history) : s.history[i] \in Nat
        BY <3>1, <3>3
      <3>5. QED BY <3>3, <3>4
    <2>10. Figures(s)
      BY <2>3, <2>7, <2>8, <2>9, MemoryAssumption DEF Figures
    <2>11. QED BY <2>1, <2>5, <2>10
  <1>3. QED BY <1>1, <1>2

(* A frame is of one snapshot, and shows it: the processes the filter      *)
(* keeps, each once and in the order of the active column; those stuck on  *)
(* the disk lit, and no others; gauges and charts within their bounds; the *)
(* alarm.  Of any processes, readings, filters and lengths of the chart.   *)
THEOREM FrameShown == Spec => []FrameIsTrue
  <1>1. TInv /\ Drawn /\ Latest => FrameIsTrue
    <2> SUFFICES ASSUME TInv, Drawn, Latest, pc = "check", screen.tick # NotDrawn
                 PROVE  LET s == Snapshot(screen.tick) f == Frame(s, background, screen) IN
                        /\ RowsAreRight(f.rows, s, screen)
                        /\ TintsAreRight(f.rows, s, background)
                        /\ HeaderIsRight(f, s)
                        /\ s.at_capacity /\ ~screen.editing => "capacity" \in f.status
      BY DEF FrameIsTrue
    <2> DEFINE s == Snapshot(screen.tick)
               f == Frame(s, background, screen)
    <2>1. screen = View
      BY DEF Drawn
    <2>2. /\ screen.tick \in 0..shared.tick
          /\ screen.sort \in Sorts /\ screen.descending \in BOOLEAN /\ background \in Backgrounds
      BY <2>1 DEF View, TInv, TypeOK, Objects
    <2>3. Listing(s) /\ Figures(s)
      BY <2>2, SnapshotsAreSound
    <2>4. s.at_capacity /\ ~screen.editing => "capacity" \in f.status
      BY DEF Frame, status
    <2> HIDE DEF s
    <2>5. RowsAreRight(f.rows, s, screen)
      BY <2>2, <2>3, RowsRight
    <2>6. TintsAreRight(f.rows, s, background)
      BY <2>2, <2>3, TintsRight
    <2>7. HeaderIsRight(f, s)
      BY <2>3, HeaderRight
    <2> HIDE DEF f
    <2>8. QED BY <2>4, <2>5, <2>6, <2>7 DEF s, f
  <1>2. QED BY <1>1, TypesHold, DrawnHolds, LatestHolds, PTL
=============================================================================
