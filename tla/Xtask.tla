------------------------------- MODULE Xtask -------------------------------
(***************************************************************************)
(* cargo xtask (xtask/src): `run` builds truetop and waits for it, which   *)
(* is Startup; `test`, `bench` and `update-btf-fixtures` work off a list,  *)
(* whose first failure ends them.  bench tunes the machine's CPUs before   *)
(* the list and restores them when it leaves its scope (bench/cpu_perf.rs),*)
(* as the user it was started by, through sudo, which may be refused.      *)
(***************************************************************************)
EXTENDS Startup

CONSTANTS
    Invocations,    \* [verb, args, kernel, machine]
    Defaults        \* the benchmarks of a bench without names

TURBO_OFF == <<"1", "0">>       \* no_turbo, boost

TURBO == 0                      \* among what a write was refused to; CPUs are from 1 on

ASSUME MachinesAssumption ==
    \A i \in Invocations :
        /\ i.machine.governor \in [DOMAIN i.machine.governor -> STRING]
        /\ 1 \in DOMAIN i.machine.governor /\ TURBO \notin DOMAIN i.machine.governor
        /\ i.machine.turbo \in [DOMAIN TURBO_OFF -> STRING]

(* A kernel is a list of types. *)
ASSUME KernelsAssumption == \A i \in Invocations : i.kernel \in Seq(BtfType)

VARIABLES
    xt,             \* dispatch, build, truetop, list, prepare, tune, turbo, restore, done
    verb, args,
    picks,          \* what is left of the list
    passed,         \* tests counted
    prep,           \* --no-prep was not given
    governor,       \* CPU -> scaling_governor, maybe "absent"; CPU 1 is cpu0
    turbo,          \* the value of each turbo knob
    perf,           \* CpuPerf: what to restore, each a set of at most one
    verdict,        \* none, ok, err
    found,          \* history: the settings before
    tuned,          \* history: the CPUs that took the tuning's governor
    refused,        \* history: the CPUs, and TURBO, that the restore could not write
    fault           \* history: something that was asked for went wrong

machine == <<governor, turbo>>
xtask == <<xt, verb, args, picks, passed, prep, machine, perf, verdict, found, tuned, refused, fault>>
truetop == <<startup, btf, report>>
vars == <<truetop, xtask>>

CPUs == DOMAIN governor
NoPerf == [governor |-> {}, turbo |-> {}]

TypeOK ==
    /\ BtfTypeOK /\ ReportTypeOK /\ StartupTypeOK
    /\ xt \in {"dispatch", "build", "truetop", "list", "prepare", "tune", "turbo", "restore", "done"}
    /\ passed \in Nat /\ prep \in BOOLEAN /\ fault \in BOOLEAN
    /\ DOMAIN governor = DOMAIN found.governor /\ DOMAIN turbo = DOMAIN found.turbo
    /\ tuned \subseteq CPUs /\ refused \subseteq CPUs \cup {TURBO}
    /\ verdict \in {"none", "ok", "err"}

Init ==
    \E i \in Invocations :
        /\ xt = "dispatch" /\ verb = i.verb /\ args = i.args
        /\ governor = i.machine.governor /\ turbo = i.machine.turbo /\ found = i.machine
        /\ picks = <<>> /\ passed = 0 /\ prep = TRUE /\ perf = NoPerf
        /\ verdict = "none" /\ tuned = {} /\ refused = {} /\ fault = FALSE
        /\ at = "idle" /\ Ready(<<>>) /\ File(i.kernel) /\ NoWalk /\ Fresh

-----------------------------------------------------------------------------
Done(ok) == xt' = "done" /\ verdict' = (IF ok THEN "ok" ELSE "err")

(* Seeded fault: an error exits the process at once, past every Drop.      *)
Fail_Exits == fault' = TRUE /\ Done(FALSE)

(* An error: `?` or bail.  In bench it leaves the scope of the tuning.     *)
Fail ==
    /\ fault' = TRUE
    /\ IF perf # NoPerf THEN xt' = "restore" /\ UNCHANGED verdict ELSE Done(FALSE)

Succeed ==
    /\ UNCHANGED fault
    /\ IF perf # NoPerf THEN xt' = "restore" /\ UNCHANGED verdict ELSE Done(TRUE)

settings == <<machine, perf, found, tuned, refused>>

(* main. *)
Dispatch ==
    /\ xt = "dispatch"
    /\ \/ verb \in {"run", "test"} /\ xt' = "build" /\ UNCHANGED <<verdict, fault, picks>>
       \/ verb = "bench" /\ xt' = "prepare" /\ UNCHANGED <<verdict, fault, picks>>
       \/ verb = "update-btf-fixtures" /\ xt' = "list" /\ picks' = args /\ UNCHANGED <<verdict, fault>>
       \/ verb \notin {"run", "test", "bench", "update-btf-fixtures"} /\ Fail /\ UNCHANGED picks
    /\ UNCHANGED <<verb, args, passed, prep, settings, truetop>>

(* executables: cargo's messages name what it built, maybe nothing; the    *)
(* test binaries make the list.                                            *)
Build ==
    /\ xt = "build"
    /\ \/ /\ verb = "run"
          /\ xt' = "truetop" /\ at' = "parse" /\ argv' = args
          /\ UNCHANGED <<picks, verdict, fault>>
       \/ /\ verb = "test" /\ args # <<>>
          /\ xt' = "list" /\ picks' = args
          /\ UNCHANGED <<at, argv, verdict, fault>>
       \/ Fail /\ UNCHANGED <<at, argv, picks>>
    /\ UNCHANGED <<verb, args, passed, prep, settings, setup, ending, btf, report>>

(* run_as_root: wait for truetop. *)
Returned ==
    /\ xt = "truetop" /\ at = "exit"
    /\ IF status = "ok" THEN Succeed ELSE Fail
    /\ UNCHANGED <<verb, args, picks, passed, prep, settings, truetop>>

-----------------------------------------------------------------------------
(* The lists. *)

More == xt = "list" /\ picks # <<>>

(* run_suite: a test binary as root, its summaries counted.                *)
RunSuite ==
    /\ More /\ verb = "test"
    /\ \/ /\ \E n \in 0..1 : passed' = passed + n
          /\ picks' = Tail(picks)
          /\ UNCHANGED <<xt, verdict, fault>>
       \/ Fail /\ UNCHANGED <<picks, passed>>
    /\ UNCHANGED <<verb, args, prep, settings, truetop>>

(* The run of a benchmark, its script and, not fatal, its plot.            *)
RunPick ==
    /\ More /\ verb = "bench"
    /\ \/ picks' = Tail(picks) /\ UNCHANGED <<xt, verdict, fault>>
       \/ Fail /\ UNCHANGED picks
    /\ UNCHANGED <<verb, args, passed, prep, settings, truetop>>

(* update: fetched, its checksum compared, then written.                   *)
FetchFixture ==
    /\ More /\ verb = "update-btf-fixtures"
    /\ \/ picks' = Tail(picks) /\ UNCHANGED <<xt, verdict, fault>>
       \/ Fail /\ UNCHANGED picks
    /\ UNCHANGED <<verb, args, passed, prep, settings, truetop>>

ListEnds ==
    /\ xt = "list" /\ picks = <<>>
    /\ Succeed
    /\ UNCHANGED <<verb, args, picks, passed, prep, settings, truetop>>

-----------------------------------------------------------------------------
(* bench. *)

(* An argument a step: help, an option, a name once, or an error.          *)
BenchArgument ==
    /\ xt = "prepare" /\ args # <<>>
    /\ args' = Tail(args)
    /\ LET arg == Head(args) IN
       \/ arg = "--no-prep" /\ prep' = FALSE /\ UNCHANGED <<picks, xt, verdict, fault>>
       \/ arg = "-h" /\ Done(TRUE) /\ picks' = <<>> /\ UNCHANGED <<prep, fault>>
       \/ /\ arg \in {"micro", "macro", "hotpath", "selfcpu", "switch"}
          /\ picks' = IF Contains(picks, arg) THEN picks ELSE Append(picks, arg)
          /\ UNCHANGED <<prep, xt, verdict, fault>>
       \/ arg = "fast" /\ Fail /\ UNCHANGED <<picks, prep>>
    /\ UNCHANGED <<verb, passed, settings, truetop>>

(* The results' directory and, but for micro alone, the release build.     *)
Prepare ==
    /\ xt = "prepare" /\ args = <<>>
    /\ picks' = IF picks = <<>> THEN Defaults ELSE picks
    /\ \/ xt' = (IF prep THEN "tune" ELSE "list") /\ UNCHANGED <<verdict, fault>>
       \/ Fail
    /\ UNCHANGED <<verb, args, passed, prep, settings, truetop>>

(* write_glob: tee writes where it can, and fails unless it could          *)
(* everywhere there is a governor.                                         *)
Governed == {c \in CPUs : governor[c] # "absent"}
WriteGovernor(v, written) ==
    governor' = [c \in CPUs |-> IF c \in written THEN v ELSE governor[c]]

(* What cpu0 has is what is kept, if every CPU could be written.           *)
EngageGovernor ==
    /\ xt = "tune"
    /\ xt' = "turbo"
    /\ \/ /\ governor[1] \in {"absent", "performance"}
          /\ UNCHANGED <<governor, perf, tuned>>
       \/ /\ governor[1] \notin {"absent", "performance"}
          /\ \E written \in SUBSET Governed :
                /\ WriteGovernor("performance", written)
                /\ perf' = IF written = Governed THEN [perf EXCEPT !.governor = {governor[1]}] ELSE perf
                /\ tuned' = written
    /\ UNCHANGED <<turbo, refused, verdict, fault>>

Knobs == {k \in DOMAIN turbo : turbo[k] # "absent"}

(* The first knob there is, and only that one; its write may be refused.   *)
EngageTurbo ==
    /\ xt = "turbo"
    /\ xt' = "list"
    /\ \/ UNCHANGED <<turbo, perf>>
       \/ /\ Knobs # {} /\ turbo[Min(Knobs)] # TURBO_OFF[Min(Knobs)]
          /\ turbo' = [turbo EXCEPT ![Min(Knobs)] = TURBO_OFF[Min(Knobs)]]
          /\ perf' = [perf EXCEPT !.turbo = {<<Min(Knobs), turbo[Min(Knobs)]>>}]
    /\ UNCHANGED <<governor, tuned, refused, verdict, fault>>

Engage ==
    /\ EngageGovernor \/ EngageTurbo
    /\ UNCHANGED <<verb, args, picks, passed, prep, found, truetop>>

(* Drop of CpuPerf: each setting that was changed, whatever comes of it.   *)
Restore ==
    /\ xt = "restore"
    /\ IF perf.governor # {}
       THEN /\ \E written \in SUBSET Governed :
                  /\ WriteGovernor(value(perf.governor), written)
                  /\ refused' = refused \cup (Governed \ written)
            /\ perf' = [perf EXCEPT !.governor = {}]
            /\ UNCHANGED <<xt, turbo, verdict>>
       ELSE /\ \/ /\ turbo' = [k \in DOMAIN turbo |->
                                  IF \E t \in perf.turbo : t[1] = k THEN value(perf.turbo)[2] ELSE turbo[k]]
                  /\ UNCHANGED refused
               \/ perf.turbo # {} /\ refused' = refused \cup {TURBO} /\ UNCHANGED turbo
            /\ perf' = NoPerf
            /\ Done(~fault)
            /\ UNCHANGED governor
    /\ UNCHANGED <<verb, args, picks, passed, prep, found, tuned, fault, truetop>>

-----------------------------------------------------------------------------
Works ==
    \/ Dispatch \/ Build \/ Returned \/ RunSuite \/ RunPick \/ FetchFixture \/ ListEnds
    \/ BenchArgument \/ Prepare \/ Engage \/ Restore

Child(A) == xt = "truetop" /\ A /\ UNCHANGED xtask

Next == Works \/ Child(Truetop)

Spec == Init /\ [][Next]_vars

(* The children end on their own, all but the UI, which waits for its user.*)
FairSpec == Spec /\ WF_vars(Works \/ Child(TruetopWorks))

-----------------------------------------------------------------------------
(* What the tuning leaves behind, CPU by CPU, where the restore could      *)
(* write: a CPU the tuning did not write is as it was found, and so is the *)
(* turbo knob; if the tuning wrote every CPU, each has the governor that   *)
(* cpu0 was found with, which need not be its own; if it could not write   *)
(* them all, nothing was kept, and those it wrote stay at performance.     *)
CpuIsRestored ==
    /\ \A c \in CPUs \ refused :
          /\ c \notin tuned => governor[c] = found.governor[c]
          /\ c \in tuned => governor[c] = IF tuned = Governed THEN found.governor[1] ELSE "performance"
    /\ TURBO \notin refused => turbo = found.turbo

(* Success is reported if and only if nothing asked for went wrong, after  *)
(* the whole list.                                                         *)
VerdictIsTrue ==
    /\ (verdict = "ok") = ~fault
    /\ verdict = "ok" => picks = <<>>
    /\ verb = "run" /\ verdict = "ok" => status = "ok"

(* However an invocation comes to its end, it leaves no hook attached, the *)
(* CPUs restored as far as the tuning kept what to restore, and a verdict  *)
(* that is true.                                                           *)
EndsClean == xt = "done" => attached = {} /\ CpuIsRestored /\ VerdictIsTrue

(* What bench promises (bench/mod.rs): its end leaves every CPU setting as *)
(* it found it, whatever comes in between, if the restore is let write.    *)
(* The code does not keep this: see CpuIsRestored.                         *)
SettingsRestored ==
    xt = "done" /\ refused = {} => governor = found.governor /\ turbo = found.turbo

(* Every invocation ends that is not the UI's: no walk through a BTF file, *)
(* no list and no run of ticks goes on for ever.                           *)
ProgramEnds == <>(xt = "done" \/ at = "ui")
=============================================================================
