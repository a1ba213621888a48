------------------------------ MODULE Startup ------------------------------
(***************************************************************************)
(* The life of a truetop process (truetop/src/lib.rs, cli.rs, system.rs):  *)
(* the command line, the CPU counts, the offsets looked up one after the   *)
(* other in the kernel's BTF, the load, the hooks attached in order, the   *)
(* ticks of either mode and the way out, on which every error meets.       *)
(*                                                                         *)
(* The ticks are Report's; the screen of the UI is Console's.  From the    *)
(* moment the collector is there nothing reads the BTF or the globals      *)
(* again, and they are forgotten; so are, at the end, the maps.            *)
(***************************************************************************)
EXTENDS Btf, Report

CONSTANTS
    Topologies,     \* CPU counts the kernel may give: [possible, online]
    wide_be,        \* a 64-bit big-endian build
    CEILING, FLOOR, BUDGET_PER_MAP

ASSUME TopologiesAssumption == \A t \in Topologies : t.possible \in Nat \ {0} /\ t.online \in Nat
ASSUME SizesAssumption == {CEILING, FLOOR, BUDGET_PER_MAP} \subseteq Nat \ {0} /\ FLOOR <= CEILING

VARIABLES
    at,             \* parse, cpus, resolve, load, attach, creds, take, bench, ui, drop, exit
    argv,           \* the arguments left
    command,        \* Print, Bench with its ticks, Ui
    background,     \* named, or asked of the terminal
    max_processes,  \* named, or 0
    entries,        \* of each accounting map
    step,           \* the lookup, or the tracepoint, that is next
    globals,        \* the globals that override the object's
    attached,       \* the hooks attached
    status          \* none, ok, err, hint

setup == <<command, background, max_processes, entries, step, globals>>
ending == <<attached, status>>
startup == <<at, argv, setup, ending>>

Commands == [kind : {"Ui", "Print"}, ticks : {0}] \cup [kind : {"Bench"}, ticks : Nat]
Ui == [kind |-> "Ui", ticks |-> 0]
NoGlobals == [g \in {} |-> 0]

StartupTypeOK ==
    /\ at \in {"idle", "parse", "cpus", "resolve", "load", "attach", "creds", "take", "bench", "ui", "drop", "exit"}
    /\ command \in Commands /\ max_processes \in Nat
    /\ background \in {"auto", "dark", "light"}
    /\ entries \in {0, max_processes} \cup FLOOR..CEILING
    /\ attached \subseteq {"sched_switch", "sched_process_exec", "sched_process_fork",
                           "sched_process_exit", "commit_creds"}
    /\ status \in {"none", "ok", "err", "hint"}

Ready(arguments) ==
    /\ argv = arguments /\ command = Ui /\ background = "auto" /\ max_processes = 0
    /\ entries = 0 /\ step = 1 /\ globals = NoGlobals
    /\ attached = {} /\ status = "none"

(* The exit of run: `?` drops what is owned, then the error is reported.   *)
Leave(how) == at' = "drop" /\ status' = how

-----------------------------------------------------------------------------
(* cli::parse, an argument a step. *)

count == [a \in {"0", "1", "2", "3"} |->
             CASE a = "0" -> 0 [] a = "1" -> 1 [] a = "2" -> 2 [] a = "3" -> 3]

Flags == {"-h", "--help", "-V", "--version"}
Accepts ==
    [o \in {"--bench", "--background", "--max-processes"} |->
        CASE o = "--bench" -> DOMAIN count
          [] o = "--background" -> {"auto", "dark", "light"}
          [] o = "--max-processes" -> DOMAIN count \ {"0"}]

Option == Len(argv) > 1 /\ Head(argv) \in DOMAIN Accepts /\ argv[2] \in Accepts[Head(argv)]

ParsePrint ==
    /\ argv # <<>> /\ Head(argv) \in Flags
    /\ command' = [kind |-> "Print", ticks |-> 0]
    /\ argv' = <<>>
    /\ Leave("ok")
    /\ UNCHANGED <<background, max_processes>>

(* The last of an option that is repeated counts.                          *)
ParseOption ==
    /\ Option
    /\ argv' = SubSeq(argv, 3, Len(argv))
    /\ command' = IF Head(argv) = "--bench" THEN [kind |-> "Bench", ticks |-> count[argv[2]]] ELSE command
    /\ background' = IF Head(argv) = "--background" THEN argv[2] ELSE background
    /\ max_processes' = IF Head(argv) = "--max-processes" THEN count[argv[2]] ELSE max_processes
    /\ UNCHANGED <<at, status>>

ParseEnd ==
    /\ argv = <<>>
    /\ at' = "cpus"
    /\ UNCHANGED <<argv, command, background, max_processes, status>>

(* Neither of the above: an unknown argument, a value missing or wrong.    *)
ParseError ==
    /\ argv # <<>> /\ Head(argv) \notin Flags /\ ~Option
    /\ argv' = <<>>
    /\ Leave("err")
    /\ UNCHANGED <<command, background, max_processes>>

Parse ==
    /\ at = "parse"
    /\ ParsePrint \/ ParseOption \/ ParseEnd \/ ParseError
    /\ UNCHANGED <<entries, step, globals, attached, btf, report>>

-----------------------------------------------------------------------------
(* CpuCounts::detect and attach_with. *)

Clamp(v, low, high) == IF v < low THEN low ELSE IF v > high THEN high ELSE v

(* Seeded fault: the budget alone decides. *)
default_max_processes_Unclamped(possible) == BUDGET_PER_MAP \div (8 * possible)

default_max_processes(possible) == Clamp(BUDGET_PER_MAP \div (8 * possible), FLOOR, CEILING)

Detect ==
    /\ at = "cpus"
    /\ \/ \E t \in Topologies :
             IF t.online \in 1..t.possible
             THEN /\ at' = "resolve" /\ online' = t.online
                  /\ entries' = IF max_processes > 0 THEN max_processes ELSE default_max_processes(t.possible)
                  /\ UNCHANGED status
             ELSE Leave("err") /\ UNCHANGED <<online, entries>>
       \/ Leave("err") /\ UNCHANGED <<online, entries>>         \* unreadable
    /\ UNCHANGED <<argv, command, background, max_processes, step, globals, attached, btf,
                   clock, kernel, capacity, collector, history>>

-----------------------------------------------------------------------------
(* load_ebpf: the lookups, in order; names are numbers, as in Btf.         *)

task_struct == 1
pid == 2
tgid == 3
signal == 4
signal_struct == 5
live == 6
cred == 7
uid == 8
__state == 9
state == 10
btf_trace_sched_switch == 11

Lookups ==
    <<Field(task_struct, pid), Field(task_struct, tgid), Field(task_struct, signal),
      Field(signal_struct, live), Field(cred, uid), Field(task_struct, __state),
      Field(task_struct, state), Proto(btf_trace_sched_switch)>>

Names == <<"PID", "TGID", "SIGNAL", "LIVE", "CRED_UID", "STATE", "STATE", "HAS_PREV_STATE">>

Override(v) == globals' = [g \in DOMAIN globals \cup {Names[step]} |-> IF g = Names[step] THEN v ELSE globals[g]]

Resolving == at = "resolve" /\ step <= Len(Lookups)

Ask ==
    /\ Resolving
    /\ Lookup(Lookups[step])
    /\ UNCHANGED <<startup, report>>

(* state_offset: before 5.14 a long, whose low word comes second on a      *)
(* 64-bit big-endian machine.                                              *)
state_offset(v) == v + (IF step = 7 /\ wide_be THEN 4 ELSE 0)

(* Seeded fault: pid and tgid need not be adjacent.                        *)
Found_Apart == step \in {6, 8} \/ result.ok

(* What ends the startup: tgid has to follow pid; without __state there is *)
(* state; without the prototype the hook reads the state from the task.    *)
Found ==
    CASE step = 2 -> result.ok /\ result.value = globals["PID"] + 4
      [] step \in {6, 8} -> TRUE
      [] OTHER -> result.ok

Answer ==
    /\ Resolving /\ walk = "done" /\ Found
    /\ walk' = "none" /\ UNCHANGED <<file, goal, cur, offsets, result>>
    /\ step' = IF step = 6 /\ result.ok THEN 8 ELSE step + 1
    /\ IF step = 8 THEN Override(IF result.ok /\ result.value >= 5 THEN 1 ELSE 0)
       ELSE IF result.ok THEN Override(state_offset(result.value))
       ELSE UNCHANGED globals
    /\ UNCHANGED <<at, argv, command, background, max_processes, entries, ending, report>>

(* An error that the kernel answers: a permission is diagnosed.            *)
Refused == Leave("hint") \/ Leave("err")

(* A file that was not even read may have been refused.                    *)
NoOffset ==
    /\ Resolving /\ walk = "done" /\ ~Found
    /\ walk' = "none" /\ UNCHANGED <<file, goal, cur, offsets, result>>
    /\ IF readable THEN Leave("err") ELSE Refused
    /\ UNCHANGED <<argv, setup, attached, report>>

Load ==
    /\ at = "resolve" /\ step > Len(Lookups)
    /\ \/ at' = "attach" /\ step' = 1 /\ UNCHANGED status
       \/ Refused /\ UNCHANGED step
    /\ UNCHANGED <<argv, command, background, max_processes, entries, globals, attached, btf, report>>

-----------------------------------------------------------------------------
(* setup_collector. *)

Tracepoints == <<"sched_switch", "sched_process_exec", "sched_process_fork", "sched_process_exit">>

attach_raw_tracepoint ==
    /\ at = "attach"
    /\ \/ /\ attached' = attached \cup {Tracepoints[step]}
          /\ step' = step + 1
          /\ at' = IF step = Len(Tracepoints) THEN "creds" ELSE at
          /\ UNCHANGED status
       \/ Refused /\ UNCHANGED <<attached, step>>
    /\ UNCHANGED <<argv, command, background, max_processes, entries, globals, btf, report>>

(* Not fatal. *)
attach_creds ==
    /\ at = "creds"
    /\ at' = "take"
    /\ attached' \in {attached, attached \cup {"commit_creds"}}
    /\ UNCHANGED <<argv, setup, status, btf, report>>

(* The maps are taken, the capacity read back, the collector made.         *)
TakeMaps ==
    /\ at = "take"
    /\ \/ /\ at' = IF command.kind = "Bench" THEN "bench" ELSE "ui"
          /\ capacity' = entries
          /\ UNCHANGED status
       \/ Refused /\ UNCHANGED capacity
    /\ step' = 1 /\ globals' = NoGlobals
    /\ readable' = FALSE /\ types' = <<>> /\ data' = <<>> /\ end' = type_off
    /\ walk' = "none" /\ goal' = Field(0, 0) /\ cur' = type_off /\ offsets' = <<0>> /\ result' = Err
    /\ UNCHANGED <<argv, command, background, max_processes, entries, attached,
                   clock, kernel, online, collector, history>>

-----------------------------------------------------------------------------
(* Running. *)

Running == at \in {"bench", "ui"} /\ UNCHANGED <<argv, command, background, max_processes, entries,
                                                globals, attached, btf>>

(* The bound on time leaves a unit for each tick that is to come.          *)
Time ==
    /\ Running
    /\ at = "bench" => clock + command.ticks - step < MaxTime
    /\ Elapse
    /\ UNCHANGED <<at, step, status>>

(* run_headless sleeps before each tick; step is the tick it is in.        *)
TickBegins ==
    /\ Running
    /\ at = "bench" => step <= command.ticks /\ clock > 0
    /\ ReadCpu
    /\ UNCHANGED <<at, step, status>>

TickEnds ==
    /\ Running
    /\ Publish
    /\ step' = IF at = "bench" THEN step + 1 ELSE step
    /\ UNCHANGED <<at, status>>

BenchEnds ==
    /\ Running /\ at = "bench" /\ step > command.ticks
    /\ Leave("ok")
    /\ Gone
    /\ UNCHANGED step

(* run_ui: a quit, or the terminal or the collector fails.                 *)
UiEnds ==
    /\ Running /\ at = "ui"
    /\ Leave("ok") \/ Leave("err")
    /\ Gone
    /\ UNCHANGED step

(* The links go with ebpf, on success and on error.                        *)
Drop ==
    /\ at = "drop"
    /\ at' = "exit" /\ attached' = {}
    /\ UNCHANGED <<argv, setup, status, btf, report>>

WalkStep == Resolving /\ Walk /\ UNCHANGED <<startup, report>>

TruetopWorks ==
    \/ Parse \/ Detect \/ Ask \/ WalkStep \/ Answer \/ NoOffset \/ Load
    \/ attach_raw_tracepoint \/ attach_creds \/ TakeMaps
    \/ Time \/ TickBegins \/ TickEnds \/ BenchEnds \/ Drop

Truetop == TruetopWorks \/ UiEnds

-----------------------------------------------------------------------------
(* Whatever order the kernel's types come in, and wherever the section is  *)
(* cut: when a hook is attached, every offset it reads through is the one  *)
(* of this kernel, pid and tgid are adjacent, as its one load of both      *)
(* takes for granted, and it takes prev_state from the arguments only if   *)
(* they have it.                                                           *)
Fits ==
    /\ FieldIs(task_struct, pid, globals["PID"]) /\ FieldIs(task_struct, tgid, globals["TGID"])
    /\ globals["TGID"] = globals["PID"] + 4
    /\ FieldIs(task_struct, signal, globals["SIGNAL"]) /\ FieldIs(signal_struct, live, globals["LIVE"])
    /\ FieldIs(cred, uid, globals["CRED_UID"])
    /\ \/ FieldIs(task_struct, __state, globals["STATE"])
       \/ \E low \in {IF wide_be THEN 4 ELSE 0} :
             globals["STATE"] >= low /\ FieldIs(task_struct, state, globals["STATE"] - low)
    /\ globals["HAS_PREV_STATE"] = 1 =>
          LET p == Prototype(btf_trace_sched_switch) IN p # 0 /\ Len(types[p].parts) >= 5

HooksFitTheKernel == [][attached' \ attached # {} => Fits]_<<attached>>
=============================================================================
