------------------------------ MODULE Console ------------------------------
(***************************************************************************)
(* The renderer and the collector task: run_ui (truetop/src/lib.rs),       *)
(* collector_loop (backend.rs), App and event_loop (ui/mod.rs).  What a    *)
(* frame shows of a snapshot is Frame's.                                   *)
(*                                                                         *)
(* The collector stores a whole snapshot behind a shared pointer.  The     *)
(* renderer tells a new one from the one it shows by its address, so the   *)
(* allocator's reuse of addresses is modelled: an object lives as long as  *)
(* the shared pointer or the renderer holds it.                            *)
(*                                                                         *)
(* A snapshot is never changed once it is made, so an object is the tick   *)
(* that made it.  A screen is the view it was drawn from.                  *)
(***************************************************************************)
EXTENDS Frame

CONSTANTS
    Addresses,
    Contents,       \* what a tick may find: [processes, cpu, available, at_capacity]
    memory_total,   \* of the machine
    Requested, Answered,        \* the background named, and what the terminal says
    Pages,          \* page heights of the terminal
    MaxFilter,      \* bound: characters typed into the filter
    MaxTicks        \* bound: snapshots published

ASSUME AddressesAssumption == Addresses # {}
ASSUME ContentsAssumption ==
    \A c \in Contents :
        /\ c.processes \in Seq(ToSet(c.processes))
        /\ \A i, j \in DOMAIN c.processes : i # j => c.processes[i].pid # c.processes[j].pid
        /\ \A p \in ToSet(c.processes) : p.cpu \in Nat /\ Optional(p.mem) /\ Optional(p.io)
        /\ c.cpu \in Nat /\ Optional(c.available)
ASSUME MemoryAssumption == memory_total \in Nat
ASSUME PagesAssumption == Pages \subseteq Nat \ {0}
ASSUME BoundsAssumption == MaxFilter \in Nat /\ MaxTicks \in Nat

VARIABLES
    shared,         \* the ArcSwap: [at, tick]
    published,      \* tick -> its snapshot
    collector,      \* its task: alive, dead (it panicked), aborted
    running,        \* the flag of run_ui
    asked,          \* a quit key was pressed or a signal came
    signal,         \* the signal task: waiting, raised, gone
    pc,             \* the renderer: check, refresh, poll, draw, exit, left, done
    shown, last,    \* its snapshot, and the address it compares with
    redraw,
    background, selection, sort, descending, filter, editing_filter, paused, rows, page,
    screen,         \* the view that was drawn last, of which Frame makes the frame
    outcome         \* none, quit, gone, io

app == <<selection, sort, descending, filter, editing_filter, paused, rows, page>>
tasks == <<shared, published, collector, running, asked, signal>>
loop == <<pc, shown, last, redraw, screen, outcome, background>>
vars == <<tasks, loop, app>>

Sorts == {"cpu", "mem", "io"}
Objects == [at : Addresses, tick : 0..MaxTicks]
NotDrawn == MaxTicks + 1

TypeOK ==
    /\ shared \in Objects /\ shown \in Objects /\ last \in Addresses
    /\ Len(published) = shared.tick /\ \A n \in DOMAIN published : Len(published[n].history) = HISTORY
    /\ collector \in {"alive", "dead", "aborted"}
    /\ running \in BOOLEAN /\ asked \in BOOLEAN
    /\ signal \in {"waiting", "raised", "gone"}
    /\ pc \in {"check", "refresh", "poll", "draw", "exit", "left", "done"}
    /\ redraw \in BOOLEAN
    /\ selection \in Nat /\ rows \in Nat /\ page \in Pages \cup {10}
    /\ background \in Backgrounds /\ sort \in Sorts /\ descending \in BOOLEAN
    /\ filter \in 0..MaxFilter /\ editing_filter \in BOOLEAN /\ paused \in BOOLEAN
    /\ screen.tick \in 0..NotDrawn
    /\ outcome \in {"none", "quit", "gone", "io"}

Snapshot(tick) == IF tick = 0 THEN NoSnapshot ELSE published[tick]

View ==
    [tick |-> shown.tick, selection |-> selection, sort |-> sort, descending |-> descending,
     filter |-> filter, editing |-> editing_filter, paused |-> paused]

Rows == Cardinality(kept(Snapshot(shown.tick).processes, filter))

(* App::new and the head of event_loop, on SystemState::default.           *)
Init ==
    /\ shared = [at |-> CHOOSE a \in Addresses : TRUE, tick |-> 0]
    /\ published = <<>>
    /\ \E r \in Requested, a \in Answered : background = resolve(r, a)
    /\ collector = "alive" /\ running = TRUE /\ asked = FALSE /\ signal = "waiting"
    /\ pc = "check" /\ shown = shared /\ last = shared.at /\ redraw = TRUE
    /\ selection = 0 /\ sort = "cpu" /\ descending = TRUE
    /\ filter = 0 /\ editing_filter = FALSE /\ paused = FALSE
    /\ rows = 0 /\ page = 10
    /\ screen = [View EXCEPT !.tick = NotDrawn]
    /\ outcome = "none"

-----------------------------------------------------------------------------
(* The tasks. *)

(* Seeded fault: the renderer keeps the address only, not the snapshot.    *)
Held_SharedOnly == {shared.at}

(* The objects that are still referred to.                                 *)
Held == {shared.at, shown.at}

(* collector_loop: a tick makes a new object, then stores it.              *)
Publish ==
    /\ collector = "alive" /\ shared.tick < MaxTicks
    /\ \E a \in Addresses \ Held : shared' = [at |-> a, tick |-> shared.tick + 1]
    /\ \E c \in Contents :
          published' = Append(published,
              [processes |-> c.processes, cpu |-> c.cpu, at_capacity |-> c.at_capacity,
               used |-> memory_used_bytes(memory_total, c.available), total |-> memory_total,
               history |-> push_capped(IF published = <<>> THEN Baseline ELSE Last(published).history, c.cpu)])
    /\ UNCHANGED <<collector, running, asked, signal, loop, app>>

(* A tick panics: the task is finished. *)
Panic ==
    /\ collector = "alive"
    /\ collector' = "dead"
    /\ UNCHANGED <<shared, published, running, asked, signal, loop, app>>

(* SIGINT or SIGTERM arrives, and the signal task clears the flag.         *)
Raise ==
    /\ signal = "waiting"
    /\ signal' = "raised" /\ asked' = TRUE
    /\ UNCHANGED <<shared, published, collector, running, loop, app>>

SignalTask ==
    /\ signal = "raised"
    /\ signal' = "gone" /\ running' = FALSE
    /\ UNCHANGED <<shared, published, collector, asked, loop, app>>

-----------------------------------------------------------------------------
(* The keys, by what they do to App. *)

Select(index) ==
    /\ selection' = index
    /\ UNCHANGED <<sort, descending, filter, editing_filter, paused, rows, page>>

last_row == IF rows = 0 THEN 0 ELSE rows - 1

(* Seeded fault: Up does not stop at the first row.                        *)
Navigate_NoWrap == Select(selection - 1)

Navigate ==
    \/ Select(IF selection >= last_row THEN 0 ELSE selection + 1)                     \* Down, j
    \/ Select(IF selection = 0 THEN last_row ELSE selection - 1)                      \* Up, k
    \/ Select(IF selection + page < last_row THEN selection + page ELSE last_row)     \* PageDown
    \/ Select(IF selection < page THEN 0 ELSE selection - page)                       \* PageUp
    \/ Select(0)                                                                  \* Home
    \/ Select(last_row)                                                              \* End

(* set_sort: the active column reverses, a new one starts descending.      *)
SetSort ==
    /\ \E s \in Sorts :
          /\ sort' = s
          /\ descending' = IF s = sort THEN ~descending ELSE TRUE
    /\ selection' = 0
    /\ UNCHANGED <<filter, editing_filter, paused, rows, page>>

(* edit_filter: Esc clears and leaves, Enter leaves, Backspace and a       *)
(* character edit; each but another key moves the selection to the top.    *)
EditFilter ==
    /\ \/ filter' = 0 /\ editing_filter' = FALSE
       \/ filter' = filter /\ editing_filter' = FALSE
       \/ filter' = (IF filter = 0 THEN 0 ELSE filter - 1) /\ editing_filter' = TRUE
       \/ filter < MaxFilter /\ filter' = filter + 1 /\ editing_filter' = TRUE
    /\ selection' = 0
    /\ UNCHANGED <<sort, descending, paused, rows, page>>

StartFilter ==
    /\ editing_filter' = TRUE
    /\ UNCHANGED <<selection, sort, descending, filter, paused, rows, page>>

Pause ==
    /\ paused' = ~paused
    /\ UNCHANGED <<selection, sort, descending, filter, editing_filter, rows, page>>

(* handle_key, all but the quit keys. *)
handle_key ==
    IF editing_filter THEN EditFilter \/ UNCHANGED app
    ELSE Navigate \/ SetSort \/ StartFilter \/ Pause \/ UNCHANGED app

-----------------------------------------------------------------------------
(* event_loop. *)

(* Seeded fault: the loop does not look at the collector.                  *)
Check_IgnoresCollector ==
    /\ pc = "check"
    /\ pc' = IF running THEN "refresh" ELSE "exit"
    /\ UNCHANGED <<tasks, shown, last, redraw, screen, outcome, background, app>>

Check ==
    /\ pc = "check"
    /\ pc' = IF running /\ collector = "alive" THEN "refresh" ELSE "exit"
    /\ UNCHANGED <<tasks, shown, last, redraw, screen, outcome, background, app>>

(* Seeded fault: a new snapshot waits for the next key to be drawn.        *)
Refresh_NoRedraw ==
    /\ pc = "refresh"
    /\ pc' = "poll"
    /\ IF ~paused /\ shared.at # last
       THEN last' = shared.at /\ shown' = shared
       ELSE UNCHANGED <<last, shown>>
    /\ UNCHANGED <<tasks, redraw, screen, outcome, background, app>>

(* Unless paused, take the shared snapshot if it is another object.        *)
Refresh ==
    /\ pc = "refresh"
    /\ pc' = "poll"
    /\ IF ~paused /\ shared.at # last
       THEN last' = shared.at /\ shown' = shared /\ redraw' = TRUE
       ELSE UNCHANGED <<last, shown, redraw>>
    /\ UNCHANGED <<tasks, screen, outcome, background, app>>

(* Nothing within the frame budget, or an event that is not handled.       *)
Timeout ==
    /\ pc = "poll"
    /\ pc' = "draw"
    /\ UNCHANGED <<tasks, shown, last, redraw, screen, outcome, background, app>>

(* Seeded fault: only a key that moves redraws.                            *)
Key_MovesOnly ==
    /\ pc = "poll"
    /\ pc' = "draw"
    /\ handle_key
    /\ redraw' = (redraw \/ selection' # selection)
    /\ UNCHANGED <<tasks, shown, last, screen, outcome, background>>

Key ==
    /\ pc = "poll"
    /\ pc' = "draw"
    /\ handle_key
    /\ redraw' = TRUE
    /\ UNCHANGED <<tasks, shown, last, screen, outcome, background>>

(* q or Esc, outside of the filter. *)
Quit ==
    /\ pc = "poll" /\ ~editing_filter
    /\ pc' = "draw"
    /\ running' = FALSE /\ asked' = TRUE
    /\ redraw' = TRUE
    /\ UNCHANGED <<shared, published, collector, signal, shown, last, screen, outcome, background, app>>

Resize ==
    /\ pc = "poll"
    /\ pc' = "draw"
    /\ redraw' = TRUE
    /\ UNCHANGED <<tasks, shown, last, screen, outcome, background, app>>

(* Seeded fault: the selection is not clamped to the rows drawn.           *)
clamp_None == selection

(* draw: the selection is clamped to the rows the frame holds.             *)
clamp ==
    LET n == Rows IN IF selection >= n THEN IF n = 0 THEN 0 ELSE n - 1 ELSE selection

Draw ==
    /\ pc = "draw"
    /\ pc' = "check"
    /\ redraw' = FALSE
    /\ IF redraw
       THEN /\ rows' = Rows
            /\ page' \in Pages
            /\ selection' = clamp
            /\ screen' = [View EXCEPT !.selection = clamp]
       ELSE UNCHANGED <<rows, page, selection, screen>>
    /\ UNCHANGED <<tasks, shown, last, outcome, background, sort, descending, filter, editing_filter, paused>>

(* The terminal fails in poll, read or draw. *)
Broken ==
    /\ pc \in {"poll", "draw"}
    /\ pc' = "left" /\ outcome' = "io"
    /\ UNCHANGED <<tasks, shown, last, redraw, screen, background, app>>

(* Seeded fault: leaving the loop is always a quit.                        *)
Decide_AlwaysQuit ==
    /\ pc = "exit"
    /\ pc' = "left" /\ outcome' = "quit"
    /\ UNCHANGED <<tasks, shown, last, redraw, screen, background, app>>

(* Exit: a dead collector is an error, not a quit. *)
Decide ==
    /\ pc = "exit"
    /\ pc' = "left"
    /\ outcome' = IF collector = "alive" THEN "quit" ELSE "gone"
    /\ UNCHANGED <<tasks, shown, last, redraw, screen, background, app>>

(* The tail of run_ui. *)
Leave ==
    /\ pc = "left"
    /\ pc' = "done"
    /\ running' = FALSE /\ signal' = "gone"
    /\ collector' = IF collector = "alive" THEN "aborted" ELSE collector
    /\ UNCHANGED <<shared, published, asked, shown, last, redraw, screen, outcome, background, app>>

Renderer ==
    Check \/ Refresh \/ Timeout \/ Key \/ Quit \/ Resize \/ Draw \/ Broken \/ Decide \/ Leave

Next == Publish \/ Panic \/ Raise \/ SignalTask \/ Renderer

Spec == Init /\ [][Next]_vars

(* poll returns after FRAME_BUDGET, so the renderer's thread always gets   *)
(* on; the tasks run on the workers of the multi-threaded runtime.         *)
FairSpec == Spec /\ WF_vars(Renderer) /\ WF_vars(SignalTask)

-----------------------------------------------------------------------------
(* A snapshot is never taken for the one shown because it sits at the same *)
(* address: past the refresh of an unpaused screen, what is shown is the   *)
(* latest that was published when it looked.                               *)
NoUpdateMissed ==
    [][pc = "refresh" /\ pc' = "poll" /\ ~paused => shown'.tick = shared.tick]_vars

(* Whatever order snapshots, keys, resizes and timeouts come in, at every  *)
(* turn of the loop the screen shows the snapshot and the view there are.  *)
ScreenIsCurrent == pc = "check" /\ screen.tick # NotDrawn => screen = View

(* A key moves the selection by the rows of the last frame, and a snapshot *)
(* or a filter may have fewer: the screen's selected row is one it has.    *)
SelectionIsARow ==
    pc = "check" => selection < Rows \/ (Rows = 0 /\ selection = 0)

(* A frame is of one snapshot: its rows are the processes that snapshot    *)
(* lists and the filter keeps, each once and in the order of the active    *)
(* column, those that miss its value among the zeroes; those stuck on the  *)
(* disk, and no others, are lit, on either background; gauges and charts   *)
(* stay within their bounds, from before the first snapshot on; and that   *)
(* counters were lost is told unless a filter is typed.                    *)
FrameIsTrue ==
    pc = "check" /\ screen.tick # NotDrawn =>
        LET s == Snapshot(screen.tick) f == Frame(s, background, screen) IN
        /\ RowsAreRight(f.rows, s, screen)
        /\ TintsAreRight(f.rows, s, background)
        /\ HeaderIsRight(f, s)
        /\ s.at_capacity /\ ~screen.editing => "capacity" \in f.status

(* ui/mod.rs:148: a dead collector is an error, not a quit; and neither is *)
(* reported without its cause.                                             *)
ExitNamesItsCause ==
    /\ outcome = "quit" => asked
    /\ outcome = "gone" => collector = "dead"

(* A quit key, a signal or the death of the collector ends the program.    *)
EndsWhenItShould == (asked \/ collector = "dead") ~> pc = "done"

(* A published snapshot, or a later one, reaches the screen unless the     *)
(* user has paused or the program ends.                                    *)
FreshIsShown ==
    \A n \in 1..MaxTicks :
        shared.tick = n ~> \/ screen.tick \in n..MaxTicks
                           \/ paused \/ pc = "done"
=============================================================================
