------------------------------- MODULE Frame -------------------------------
(***************************************************************************)
(* What a frame shows of a snapshot under a view: the rows of the table    *)
(* (ui/table.rs), their tints (ui/theme), the gauges and charts of the     *)
(* header (ui/header.rs) and the alarms of the status line (ui/mod.rs).    *)
(*                                                                         *)
(* A percentage is in tenths.  A process is [pid, cpu, mem, io], of which  *)
(* mem and io, which may be missing, are sets of at most one.  A filter is *)
(* its length and keeps the processes that match it.                       *)
(***************************************************************************)
EXTENDS Integers, Sequences, SequencesExt

CONSTANTS
    Matching,       \* filter -> the pids it keeps
    HISTORY         \* samples a chart goes back

ASSUME HistoryAssumption == HISTORY \in Nat \ {0}

(* A figure that may be missing. *)
Optional(S) == S \subseteq Nat /\ \A m, n \in S : m = n

GAUGE_WIDTH == 18
IO_ROW_THRESHOLD == 650

Backgrounds == {"dark", "light"}
Within(v, low, high) == IF v < low THEN low ELSE IF v > high THEN high ELSE v

(* detect::resolve: the terminal may not answer. *)
resolve(requested, answered) ==
    IF requested \in Backgrounds THEN requested
    ELSE IF answered \in Backgrounds THEN answered ELSE "dark"

-----------------------------------------------------------------------------
(* The snapshot. *)

(* SystemState::default, shown before the first tick.                      *)
NoSnapshot ==
    [processes |-> <<>>, cpu |-> 0, used |-> 0, total |-> 0, at_capacity |-> FALSE, history |-> <<>>]

(* Collector::new: a flat baseline. *)
Baseline == [i \in 1..HISTORY |-> 0]

push_capped(history, v) ==
    Append(IF Len(history) >= HISTORY THEN Tail(history) ELSE history, v)

(* Without MemTotal there is no total, without MemAvailable nothing is     *)
(* taken to be in use; the total was read at startup.                      *)
memory_used_bytes(total, available) ==
    IF available = {} THEN 0 ELSE LET a == CHOOSE v \in available : TRUE IN IF total < a THEN 0 ELSE total - a

-----------------------------------------------------------------------------
(* The table. *)

OrZero(v) == IF v = {} THEN 0 ELSE CHOOSE n \in v : TRUE
mem_of(p) == OrZero(p.mem)
io_of(p) == OrZero(p.io)

KeyOf(p, sort) == CASE sort = "cpu" -> p.cpu [] sort = "mem" -> mem_of(p) [] sort = "io" -> io_of(p)

(* matches_filter: the indices of the processes that pass. *)
kept(processes, filter) == {i \in DOMAIN processes : processes[i].pid \in Matching[filter]}

(* Filtered and sorted stably, the largest first. *)
ranked(processes, view) ==
    LET indices == kept(processes, view.filter)
        Before(i, j) ==
            \/ KeyOf(processes[i], view.sort) > KeyOf(processes[j], view.sort)
            \/ KeyOf(processes[i], view.sort) = KeyOf(processes[j], view.sort) /\ i < j
        Rank(i) == Cardinality({j \in indices : Before(j, i)})
    IN [k \in 1..Cardinality(indices) |-> processes[CHOOSE i \in indices : Rank(i) = k - 1]]

(* Seeded fault: ascending is not told from descending.                    *)
visible_Descending(processes, view) == ranked(processes, view)

visible(processes, view) ==
    IF view.descending THEN ranked(processes, view) ELSE Reverse(ranked(processes, view))

lerp(a, b, t) == (350 * a + (b - a) * t) \div 350

(* A colour is <<red, green, blue>>, <<>> for none. *)
io_row_bg(background, percent) ==
    LET t == Within(percent - IO_ROW_THRESHOLD, 0, 350) IN
    IF percent < IO_ROW_THRESHOLD THEN <<>>
    ELSE IF background = "dark" THEN <<lerp(48, 128, t), lerp(16, 30, t), lerp(16, 30, t)>>
    ELSE <<lerp(255, 244, t), lerp(224, 168, t), lerp(224, 168, t)>>

row_stripe(background, index) ==
    IF index % 2 = 0 THEN <<>> ELSE IF background = "dark" THEN <<24, 24, 28>> ELSE <<238, 238, 243>>

(* Rows are counted from zero. *)
process_row(background, index, p) ==
    LET io == io_row_bg(background, io_of(p)) IN
    [pid |-> p.pid, bg |-> IF io = <<>> THEN row_stripe(background, index) ELSE io]

-----------------------------------------------------------------------------
(* The header. *)

(* The filled cells: the share of the width, rounded.                      *)
gauge(percent) == (2 * Within(percent, 0, 1000) * GAUGE_WIDTH + 1000) \div 2000

memory_percent(s) == IF s.total = 0 THEN 0 ELSE (1000 * s.used) \div s.total

(* The ends of the axes; of y in hundredths, as it has a tenth to spare.   *)
chart(history) ==
    IF history = <<>> THEN <<>>
    ELSE <<IF Len(history) = 1 THEN 1 ELSE Len(history) - 1,
           11 * (CHOOSE y \in ToSet(history) \cup {10} : \A v \in ToSet(history) \cup {10} : v <= y)>>

(* The status line; while a filter is typed it holds nothing else.         *)
status(s, view) ==
    IF view.editing THEN {"filter"}
    ELSE {a \in {"paused", "capacity"} : (a = "paused" /\ view.paused) \/ (a = "capacity" /\ s.at_capacity)}

(* draw. *)
Frame(s, background, view) ==
    LET rows == visible(s.processes, view) IN
    [rows |-> [k \in DOMAIN rows |-> process_row(background, k - 1, rows[k])],
     gauges |-> <<gauge(s.cpu), gauge(memory_percent(s))>>,
     chart |-> chart(s.history),
     status |-> status(s, view)]

-----------------------------------------------------------------------------
(* What a frame ought to be. *)

Process(s, pid) == CHOOSE p \in ToSet(s.processes) : p.pid = pid

RowsAreRight(rows, s, view) ==
    /\ {rows[k].pid : k \in DOMAIN rows} = {p.pid : p \in ToSet(s.processes)} \cap Matching[view.filter]
    /\ \A i, j \in DOMAIN rows : i < j =>
          LET a == Process(s, rows[i].pid) b == Process(s, rows[j].pid) IN
          /\ a # b
          /\ IF view.descending THEN KeyOf(a, view.sort) >= KeyOf(b, view.sort) ELSE KeyOf(a, view.sort) <= KeyOf(b, view.sort)

(* Those that wait stand out from the stripes, the more so the more they   *)
(* do but for the one that is lost to truncated channels, and every tint   *)
(* suits its background.                                                   *)
Lit(row) == row.bg # <<>> /\ row.bg[1] > row.bg[2] + 20
TintsAreRight(rows, s, background) ==
    \A i \in DOMAIN rows :
        /\ Lit(rows[i]) <=> (\E w \in Process(s, rows[i].pid).io : w >= IO_ROW_THRESHOLD)
        /\ \A c \in ToSet(rows[i].bg) : IF background = "dark" THEN c <= 128 ELSE c \in 168..255
        /\ \A j \in DOMAIN rows :
              Lit(rows[i]) /\ Lit(rows[j]) /\ io_of(Process(s, rows[i].pid)) > io_of(Process(s, rows[j].pid)) =>
                  rows[i].bg[1] - rows[i].bg[2] >= rows[j].bg[1] - rows[j].bg[2] - 1

HeaderIsRight(f, s) ==
    /\ \A g \in ToSet(f.gauges) : g \in 0..GAUGE_WIDTH
    /\ s.used > 0 /\ s.used = s.total => f.gauges[2] = GAUGE_WIDTH
    /\ s.history # <<>> =>
          /\ Last(s.history) = s.cpu
          /\ \A i \in DOMAIN s.history : i - 1 <= f.chart[1] /\ 10 * s.history[i] <= f.chart[2]
=============================================================================
